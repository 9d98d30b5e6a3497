------------------------- MODULE WebAccount_proofs --------------------------
(***************************************************************************)
(* The pages around the chat, for any sets of tabs, tokens, instances and  *)
(* names and any number of moves: the session a link opens, the settings and *)
(* what is paid for.  None of the invariants the runs check is inductive as *)
(* it stands; each part says what has to be added.                         *)
(***************************************************************************)
EXTENDS WebSession, WebSettings, WebBilling, FiniteSetTheorems, TLAPS

-----------------------------------------------------------------------------
(* The session.  That what a link's token is sent with goes to the link's   *)
(* instance rests on the page of a link having taken that instance over     *)
(* before it asks or sends.                                                 *)

\* The instance a link is for.
Target(link) == IF link.instance \in Instances THEN link.instance ELSE DefaultInstance

\* The page of a link has taken its instance over; a look-up is of a token; and
\* what was sent went there.
LinkInv ==
  /\ \A t \in Tabs :
       /\ tabPage[t] \in {"invite", "reset"} /\ tabLink[t].token # "none"
            => tabInstance[t] = Target(tabLink[t])
       /\ tabInvite[t] \in {"asked", "known"} => tabLink[t].token # "none"
       /\ \A a \in tabAsks[t] : a.kind = "lookup" => tabLink[t].token # "none"
  /\ \A s \in sessSent : s.at = Target(s.link)

SessInv == SessTypeOK /\ LinkInv

\* Taking a link's instance over leaves an instance there, the link's own if there
\* is a token.
LEMMA AppliedIs ==
  ASSUME NEW link, NEW current \in Instances
  PROVE  /\ Applied(link, current) \in Instances
         /\ link.token # "none" => Applied(link, current) = Target(link)
BY SessionConstantsOK DEF Applied, NamedInstance, Target

\* The types, of what the tabs share and of each tab.
LEMMA StoreStep ==
  ASSUME SessTypeOK, SessNext
  PROVE  StoreTypes'
<1> USE SessionConstantsOK DEF SessTypeOK, StoreTypes
<1>1. stInstance' \in Instances \cup {SessNone}
  <2>1. ASSUME NEW t \in Tabs, TabStarts(t) \/ InviteLooksUp(t) PROVE stInstance' \in Instances \cup {SessNone}
    <3>1. tabInstance[t] \in Instances
      BY DEF TabTypes
    <3>2. stInstance' = Stored(t, tabLink[t])
      BY <2>1 DEF TabStarts, InviteLooksUp
    <3>. QED
      BY <3>1, <3>2, AppliedIs DEF Stored
  <2>. QED
    BY <2>1 DEF SessNext, TabOpens, TabGoes, ResetNavigates, ChatAsks, InviteSubmit, LoginSubmit, ForgotSubmit,
       ResetSubmit,
       InviteInfo, InviteUnknown, InviteAccepted, LoginSucceeds, FormDone, FormFails, Unauthorized, ChatAnswered,
       sessStore
<1>2. sessOpens' \in 0..MaxOpens
  BY DEF SessNext, TabOpens, TabStarts, TabGoes, ResetNavigates, ChatAsks, InviteLooksUp, InviteSubmit,
     LoginSubmit, ForgotSubmit, ResetSubmit,
       InviteInfo, InviteUnknown, InviteAccepted, LoginSucceeds, FormDone, FormFails, Unauthorized, ChatAnswered,
       sessCounts
<1>3. sessAsks' \in 0..MaxAsks
  BY DEF SessNext, TabOpens, TabStarts, TabGoes, ResetNavigates, ChatAsks, InviteLooksUp, InviteSubmit,
     LoginSubmit, ForgotSubmit, ResetSubmit,
       InviteInfo, InviteUnknown, InviteAccepted, LoginSucceeds, FormDone, FormFails, Unauthorized, ChatAnswered,
       sessCounts, Ask
<1>4. stToken' \in Tokens /\ stUser' \in 0..MaxTokens /\ sessTokens' \in 0..MaxTokens
  <2>1. ASSUME NEW t \in Tabs, TabStarts(t) PROVE stToken' \in Tokens /\ stUser' \in 0..MaxTokens /\ sessTokens' \in 0..MaxTokens
    <3>1. tabInstance'[t] \in Instances
      BY <2>1, AppliedIs DEF TabStarts, TabTypes
    <3>. QED
      BY <2>1, <3>1 DEF TabStarts, AutoLogin, Tokens
  <2>2. ASSUME NEW t \in Tabs, NEW a \in tabAsks[t], InviteAccepted(t, a) \/ LoginSucceeds(t, a)
        PROVE  stToken' \in Tokens /\ stUser' \in 0..MaxTokens /\ sessTokens' \in 0..MaxTokens
    <3>1. a.at \in Instances
      BY DEF TabTypes, Requests
    <3>. QED
      BY <2>2, <3>1 DEF InviteAccepted, LoginSucceeds, SignedIn, Tokens
  <2>3. ASSUME NEW t \in Tabs, NEW a \in tabAsks[t], Unauthorized(t, a)
        PROVE  stToken' \in Tokens /\ stUser' \in 0..MaxTokens /\ sessTokens' \in 0..MaxTokens
    BY <2>3 DEF Unauthorized, NoToken, Tokens, sessCounts
  <2>4. ASSUME NEW t \in Tabs,
               \/ \E link \in Links : TabOpens(t, link)
               \/ TabGoes(t) \/ ResetNavigates(t) \/ ChatAsks(t)
               \/ InviteLooksUp(t) \/ InviteSubmit(t) \/ LoginSubmit(t) \/ ForgotSubmit(t) \/ ResetSubmit(t)
               \/ \E a \in tabAsks[t] :
                    InviteInfo(t, a) \/ InviteUnknown(t, a) \/ FormDone(t, a) \/ FormFails(t, a) \/ ChatAnswered(t, a)
        PROVE  UNCHANGED <<stToken, stUser, sessTokens>>
    BY <2>4 DEF TabOpens, TabGoes, ResetNavigates, ChatAsks, InviteLooksUp, InviteSubmit, LoginSubmit,
       ForgotSubmit, ResetSubmit,
       InviteInfo, InviteUnknown, FormDone, FormFails, ChatAnswered, sessStore, sessCounts
  <2>. QED
    BY <2>1, <2>2, <2>3, <2>4 DEF SessNext
<1>. QED
  BY <1>1, <1>2, <1>3, <1>4

\* A request under way is one more, of this tab.
LEMMA AskTypes ==
  ASSUME SessTypeOK, NEW t \in Tabs, NEW kind \in {"lookup", "accept", "login", "forgot", "reset", "chat"},
         NEW at \in Instances, Ask(t, kind, at)
  PROVE  /\ tabAsks' \in [Tabs -> SUBSET Requests]
         /\ \A u \in Tabs : \A a \in tabAsks'[u] : a \in tabAsks[u] \/ (u = t /\ a.kind = kind)
         /\ \A s \in sessSent' : s \in sessSent
              \/ (kind \in {"lookup", "accept", "reset"} /\ s.link = tabLink[t] /\ s.at = at)
<1>1. [kind |-> kind, at |-> at, token |-> stToken, page |-> tabMount[t]] \in Requests
  BY DEF SessTypeOK, StoreTypes, TabTypes, Requests
<1>2. tabAsks \in [Tabs -> SUBSET Requests]
  BY DEF SessTypeOK, TabTypes
<1>3. tabAsks' = [tabAsks EXCEPT ![t] =
        tabAsks[t] \cup {[kind |-> kind, at |-> at, token |-> stToken, page |-> tabMount[t]]}]
  BY DEF Ask
<1>4. tabAsks' \in [Tabs -> SUBSET Requests]
  BY <1>1, <1>2, <1>3
<1>5. ASSUME NEW u \in Tabs, NEW a \in tabAsks'[u]
      PROVE  a \in tabAsks[u] \/ (u = t /\ a.kind = kind)
  BY <1>2, <1>3, <1>5
<1>6. ASSUME NEW s \in sessSent'
      PROVE  s \in sessSent
              \/ (kind \in {"lookup", "accept", "reset"} /\ s.link = tabLink[t] /\ s.at = at)
  <2>1. CASE kind \in {"lookup", "accept", "reset"}
    <3>1. sessSent' = sessSent \cup {[link |-> tabLink[t], at |-> at]}
      BY <2>1, Zenon DEF Ask
    <3>. QED
      BY <1>6, <2>1, <3>1
  <2>2. CASE kind \notin {"lookup", "accept", "reset"}
    <3>1. sessSent' = sessSent
      BY <2>2, Zenon DEF Ask
    <3>. QED
      BY <1>6, <3>1
  <2>. QED
    BY <2>1, <2>2
<1>. QED
  BY <1>4, <1>5, <1>6

\* The steps of a tab keep its types and the link's instance.
LEMMA TabStep ==
  ASSUME SessInv, SessNext
  PROVE  TabTypes' /\ LinkInv'
<1> USE DEF SessInv, SessTypeOK, TabTypes, LinkInv
<1>1. ASSUME NEW t \in Tabs, NEW link \in Links, TabOpens(t, link) PROVE TabTypes' /\ LinkInv'
  <2>1. StoredInstance \in Instances
    BY SessionConstantsOK DEF StoredInstance, StoreTypes
  <2>. QED
    BY <1>1, <2>1 DEF TabOpens, Load
<1>2. ASSUME NEW t \in Tabs, TabStarts(t) PROVE TabTypes' /\ LinkInv'
  <2>1. /\ tabInstance' = [tabInstance EXCEPT ![t] = Applied(tabLink[t], tabInstance[t])]
        /\ UNCHANGED <<tabLink, tabForm, tabInvite, tabAsks, tabMount, tabLeaves, sessSent>>
    BY <1>2 DEF TabStarts
  <2>2. Applied(tabLink[t], tabInstance[t]) \in Instances
        /\ (tabLink[t].token # "none" => Applied(tabLink[t], tabInstance[t]) = Target(tabLink[t]))
    BY AppliedIs
  <2>3. \E page \in {"login", "chat", "invite", "reset", "forgot", "closed"} : tabPage' = [tabPage EXCEPT ![t] = page]
    <3>1. tabLink[t].page \in {"login", "chat", "invite", "reset", "forgot", "closed"}
      BY DEF Links, NoLink
    <3>. QED
      BY <1>2, <3>1 DEF TabStarts, Routes
  <2>. QED
    BY <2>1, <2>2, <2>3
<1>3. ASSUME NEW t \in Tabs, TabGoes(t) PROVE TabTypes' /\ LinkInv'
  BY <1>3 DEF TabGoes, sessCounts
<1>15. ASSUME NEW t \in Tabs, ResetNavigates(t) PROVE TabTypes' /\ LinkInv'
  BY <1>15 DEF ResetNavigates, sessCounts
<1>4. ASSUME NEW t \in Tabs, ChatAsks(t) PROVE TabTypes' /\ LinkInv'
  <2>1. Ask(t, "chat", tabInstance[t])
    BY <1>4 DEF ChatAsks
  <2>. QED
    BY <1>4, <2>1, AskTypes DEF ChatAsks
<1>5. ASSUME NEW t \in Tabs, InviteLooksUp(t) PROVE TabTypes' /\ LinkInv'
  <2>1. /\ tabInstance' = [tabInstance EXCEPT ![t] = Applied(tabLink[t], tabInstance[t])]
        /\ UNCHANGED <<tabPage, tabLink, tabForm, tabMount, tabLeaves>>
    BY <1>5 DEF InviteLooksUp
  <2>2. Applied(tabLink[t], tabInstance[t]) \in Instances
        /\ (tabLink[t].token # "none" => Applied(tabLink[t], tabInstance[t]) = Target(tabLink[t]))
    BY AppliedIs
  <2>3. CASE tabLink[t].token = "none"
    BY <1>5, <2>1, <2>2, <2>3 DEF InviteLooksUp
  <2>4. CASE tabLink[t].token # "none"
    <3>1. Ask(t, "lookup", Applied(tabLink[t], tabInstance[t])) /\ tabInvite' = [tabInvite EXCEPT ![t] = "asked"]
      BY <1>5, <2>1, <2>4 DEF InviteLooksUp
    <3>. QED
      BY <2>1, <2>2, <2>4, <3>1, AskTypes
  <2>. QED
    BY <2>3, <2>4
<1>6. ASSUME NEW t \in Tabs, InviteSubmit(t) PROVE TabTypes' /\ LinkInv'
  <2>1. Ask(t, "accept", tabInstance[t]) /\ tabInstance[t] = Target(tabLink[t])
    BY <1>6 DEF InviteSubmit, InviteForm
  <2>. QED
    BY <1>6, <2>1, AskTypes DEF InviteSubmit
<1>7. ASSUME NEW t \in Tabs, LoginSubmit(t) PROVE TabTypes' /\ LinkInv'
  <2>1. Ask(t, "login", DefaultInstance)
    BY <1>7 DEF LoginSubmit
  <2>. QED
    BY <1>7, <2>1, AskTypes, SessionConstantsOK DEF LoginSubmit
<1>8. ASSUME NEW t \in Tabs, ForgotSubmit(t) PROVE TabTypes' /\ LinkInv'
  <2>1. Ask(t, "forgot", tabInstance[t])
    BY <1>8 DEF ForgotSubmit
  <2>. QED
    BY <1>8, <2>1, AskTypes DEF ForgotSubmit
<1>9. ASSUME NEW t \in Tabs, ResetSubmit(t) PROVE TabTypes' /\ LinkInv'
  <2>1. Ask(t, "reset", tabInstance[t]) /\ tabInstance[t] = Target(tabLink[t])
    BY <1>9 DEF ResetSubmit, ResetForm
  <2>. QED
    BY <1>9, <2>1, AskTypes DEF ResetSubmit
<1>10. ASSUME NEW t \in Tabs, NEW a \in tabAsks[t], InviteInfo(t, a) \/ InviteUnknown(t, a)
       PROVE  TabTypes' /\ LinkInv'
  BY <1>10 DEF InviteInfo, InviteUnknown, Answered
<1>11. ASSUME NEW t \in Tabs, NEW a \in tabAsks[t], InviteAccepted(t, a) \/ LoginSucceeds(t, a)
       PROVE  TabTypes' /\ LinkInv'
  BY <1>11 DEF InviteAccepted, LoginSucceeds, SignedIn, Answered
<1>12. ASSUME NEW t \in Tabs, NEW a \in tabAsks[t], FormDone(t, a) PROVE TabTypes' /\ LinkInv'
  <2>1. tabLeaves' \in [Tabs -> BOOLEAN]
    <3>1. (tabLeaves[t] \/ a.kind = "reset") \in BOOLEAN
      OBVIOUS
    <3>. QED
      BY <1>12, <3>1, Zenon DEF FormDone
  <2>2. /\ tabAsks' = [tabAsks EXCEPT ![t] = tabAsks[t] \ {a}]
        /\ tabForm' = [tabForm EXCEPT ![t] = IF Shows(t, a) THEN "done" ELSE tabForm[t]]
        /\ UNCHANGED <<tabPage, tabLink, tabInstance, tabInvite, tabMount, sessSent>>
    BY <1>12 DEF FormDone, Answered
  <2>. QED
    BY <2>1, <2>2
<1>16. ASSUME NEW t \in Tabs, NEW a \in tabAsks[t], FormFails(t, a) PROVE TabTypes' /\ LinkInv'
  BY <1>16 DEF FormFails, Answered
<1>13. ASSUME NEW t \in Tabs, NEW a \in tabAsks[t], Unauthorized(t, a)
       PROVE  TabTypes' /\ LinkInv'
  <2>1. StoredInstance \in Instances
    BY SessionConstantsOK DEF StoredInstance, StoreTypes
  <2>2. [page |-> "login", instance |-> SessNone, token |-> "none"] \in Links
    BY DEF Links
  <2>. QED
    BY <1>13, <2>1, <2>2 DEF Unauthorized, Load
<1>14. ASSUME NEW t \in Tabs, NEW a \in tabAsks[t], ChatAnswered(t, a)
       PROVE  TabTypes' /\ LinkInv'
  BY <1>14 DEF ChatAnswered, Answered
<1>. QED
  BY <1>1, <1>2, <1>3, <1>4, <1>5, <1>6, <1>7, <1>8, <1>9, <1>10, <1>11, <1>12, <1>13,
     <1>14, <1>15, <1>16 DEF SessNext

LEMMA SessInitially == SessInit => SessInv
<1> SUFFICES ASSUME SessInit PROVE SessInv
  OBVIOUS
<1> USE SessionConstantsOK DEF SessInit
<1>1. StoreTypes
  BY DEF StoreTypes, NoToken, Tokens
<1>2. StoredInstance \in Instances
  BY DEF StoredInstance
<1>3. TabTypes /\ LinkInv
  BY <1>2 DEF TabTypes, LinkInv
<1>. QED
  BY <1>1, <1>3 DEF SessInv, SessTypeOK

LEMMA SessStep == SessInv /\ [SessNext]_sessVars => SessInv'
<1> SUFFICES ASSUME SessInv, [SessNext]_sessVars PROVE SessInv'
  OBVIOUS
<1>1. CASE SessNext
  BY <1>1, StoreStep, TabStep DEF SessInv, SessTypeOK
<1>2. CASE UNCHANGED sessVars
  <2>1. StoreTypes'
    BY <1>2 DEF SessInv, SessTypeOK, StoreTypes, sessVars, sessStore, sessCounts
  <2>2. TabTypes' /\ LinkInv'
    BY <1>2 DEF SessInv, SessTypeOK, TabTypes, LinkInv, sessVars
  <2>. QED
    BY <2>1, <2>2 DEF SessInv, SessTypeOK
<1>. QED
  BY <1>1, <1>2

\* Whatever is stored by other tabs and earlier links, for any number of them: an
\* invite or a new password goes to the instance its link names, or to the default
\* (InvitePage, ResetPasswordPage, services/api.ts).
THEOREM LinksGoHome == SessSpec => []LinkReachesItsInstance
<1>1. SessInv => LinkReachesItsInstance
  BY DEF SessInv, LinkInv, LinkReachesItsInstance, Target
<1>. QED
  BY <1>1, SessInitially, SessStep, PTL DEF SessSpec

-----------------------------------------------------------------------------
(* The settings.  That each flag admits one submission rests on the flag    *)
(* being set exactly while a call of this mount is under way, and on what   *)
(* an earlier mount left behind setting nothing here.                       *)

\* Any two of them are the same.
AtMostOne(S) == \A x, y \in S : x = y

\* Such a set has one member at most.
LEMMA CountsOne ==
  ASSUME NEW S, AtMostOne(S)
  PROVE  Cardinality(S) <= 1
<1>1. CASE S = {}
  BY <1>1, FS_EmptySet
<1>2. CASE S # {}
  <2>1. PICK x \in S : S = {x}
    BY <1>2 DEF AtMostOne
  <2>2. Cardinality({x}) = 1
    BY FS_Singleton
  <2>. QED
    BY <2>1, <2>2
<1>. QED
  BY <1>1, <1>2

\* One request at most under each flag, and the flag set exactly while there is one.
AccOne ==
  /\ AtMostOne(profAsks) /\ AtMostOne(pwAsks)
  /\ profSaving <=> profAsks # {}
  /\ pwSaving <=> pwAsks # {}

AgOne == AtMostOne(AgentCalls) /\ (agSaving <=> AgentCalls # {})
KeyOne == AtMostOne(KeyCalls) /\ (keySubmitting <=> KeyCalls # {})
HookOne == AtMostOne(HookCalls) /\ (hkSubmitting <=> HookCalls # {})
InOne ==
  /\ AtMostOne(Additions) /\ (inAdding <=> Additions # {})
  /\ \A k \in Additions : k.thing \in Things

\* A secret is that of a request as old as any that is under way.
KeySecretInv ==
  /\ keySecret <= setMoves
  /\ \A k \in keyTasks : k.nr <= setMoves
  /\ \A k \in KeyCalls : keySecret <= k.nr

HookSecretInv ==
  /\ hkSecret <= setMoves
  /\ \A k \in hkTasks : k.nr <= setMoves
  /\ \A k \in HookCalls : hkSecret <= k.nr

FlagsInv == SettingsTypeOK /\ AccOne /\ AgOne /\ KeyOne /\ HookOne /\ InOne

SettingsInv == FlagsInv /\ KeySecretInv /\ HookSecretInv

\* The invariant implies the property.
LEMMA SettingsInvCounts == SettingsInv => OneCallPerFlag
<1> SUFFICES ASSUME SettingsInv PROVE OneCallPerFlag
  OBVIOUS
<1>1. /\ Cardinality(profAsks) <= 1 /\ Cardinality(KeyCalls) <= 1 /\ Cardinality(HookCalls) <= 1
      /\ Cardinality(AgentCalls) <= 1 /\ Cardinality(Additions) <= 1 /\ Cardinality(pwAsks) <= 1
  BY CountsOne DEF SettingsInv, FlagsInv, AccOne, AgOne, KeyOne, HookOne, InOne
<1>2. \A calls \in {profAsks, KeyCalls, HookCalls, AgentCalls, Additions} : Cardinality(calls) <= 1
  BY <1>1
<1>3. /\ profSaving <=> profAsks # {}
      /\ pwSaving <=> pwAsks # {}
      /\ keySubmitting <=> KeyCalls # {}
      /\ hkSubmitting <=> HookCalls # {}
      /\ agSaving <=> AgentCalls # {}
      /\ inAdding <=> Additions # {}
  BY Zenon DEF SettingsInv, FlagsInv, AccOne, AgOne, KeyOne, HookOne, InOne
<1>4. SettingsTypeOK
  BY DEF SettingsInv, FlagsInv
<1>5. /\ \A k \in KeyCalls : keySecret <= k.nr
      /\ \A k \in HookCalls : hkSecret <= k.nr
  BY DEF SettingsInv, FlagsInv, KeySecretInv, HookSecretInv
<1>. QED
  BY <1>1, <1>2, <1>3, <1>4, <1>5, Zenon DEF OneCallPerFlag

LEMMA SettingsInitially == SettingsInit => SettingsInv
<1> SUFFICES ASSUME SettingsInit PROVE SettingsInv
  OBVIOUS
<1> USE SettingsConstantsOK DEF SettingsInit
<1>1. SettingsFlags
  BY DEF SettingsFlags, AccInit, AgInit, KeyInit, HkInit, InInit
<1>2. AccTypes
  BY DEF AccTypes, AccInit, ProfileNames
<1>3. AgTypes
  BY DEF AgTypes, AgInit
<1>4. KeyTypes
  BY DEF KeyTypes, KeyInit, KeyKinds
<1>5. HkTypes
  BY DEF HkTypes, HkInit, HkKinds
<1>6. InTypes
  BY DEF InTypes, InInit, InTask
<1>7. AccOne
  BY DEF AccOne, AccInit, AtMostOne
<1>8. AgOne
  BY DEF AgOne, AgInit, AtMostOne, AgentCalls
<1>9. KeyOne
  BY DEF KeyOne, KeyInit, AtMostOne, KeyCalls
<1>10. HookOne
  BY DEF HookOne, HkInit, AtMostOne, HookCalls
<1>11. InOne
  BY DEF InOne, InInit, AtMostOne, Additions, InTask
<1>12. KeySecretInv
  BY DEF KeySecretInv, KeyInit, KeyCalls
<1>13. HookSecretInv
  BY DEF HookSecretInv, HkInit, HookCalls
<1>14. setMoves \in 0..MaxSetMoves
  OBVIOUS
<1>15. SettingsTypeOK
  BY <1>1, <1>2, <1>3, <1>4, <1>5, <1>6, <1>14, Zenon DEF SettingsTypeOK
<1>. QED
  BY <1>7, <1>8, <1>9, <1>10, <1>11, <1>12, <1>13, <1>15, Zenon DEF SettingsInv, FlagsInv

\* Every move keeps the count of moves within its bound.
LEMMA SetMoveCounts ==
  ASSUME setMoves \in 0..MaxSetMoves, SetMove
  PROVE  setMoves' \in 1..MaxSetMoves
BY SettingsConstantsOK DEF SetMove

\* The flags of each page stay Boolean.
LEMMA AccFlags ==
  ASSUME SettingsFlags, AccNext
  PROVE  profReading' \in BOOLEAN /\ profSaving' \in BOOLEAN /\ profSaved' \in BOOLEAN /\ pwSaving' \in BOOLEAN /\ pwSaved' \in BOOLEAN
<1> DEFINE Goal == profReading' \in BOOLEAN /\ profSaving' \in BOOLEAN /\ profSaved' \in BOOLEAN /\ pwSaving' \in BOOLEAN /\ pwSaved' \in BOOLEAN
<1> USE DEF SettingsFlags
<1>1. ASSUME NEW name \in ProfileNames, MeLoaded(name) PROVE Goal
  BY <1>1 DEF MeLoaded
<1>2. ASSUME AccReload PROVE Goal
  BY <1>2 DEF AccReload
<1>3. ASSUME AccTab PROVE Goal
  BY <1>3 DEF AccTab
<1>4. ASSUME ProfType PROVE Goal
  BY <1>4 DEF ProfType
<1>5. ASSUME ProfFile PROVE Goal
  BY <1>5 DEF ProfFile
<1>6. ASSUME ProfFileRead PROVE Goal
  BY <1>6 DEF ProfFileRead
<1>7. ASSUME ProfSave PROVE Goal
  BY <1>7 DEF ProfSave
<1>8. ASSUME PwType PROVE Goal
  BY <1>8 DEF PwType
<1>9. ASSUME PwSave PROVE Goal
  BY <1>9 DEF PwSave
<1>10. ASSUME SavedGoes PROVE Goal
  BY <1>10 DEF SavedGoes
<1>11. ASSUME NEW a \in profAsks, ProfAnswered(a) PROVE Goal
  BY <1>11 DEF ProfAnswered
<1>12. ASSUME NEW a \in pwAsks, PwAnswered(a) PROVE Goal
  BY <1>12 DEF PwAnswered
<1>. QED
  BY <1>1, <1>2, <1>3, <1>4, <1>5, <1>6, <1>7, <1>8, <1>9, <1>10, <1>11, <1>12 DEF AccNext

LEMMA AgFlags ==
  ASSUME SettingsFlags, AgNext
  PROVE  agEditing' \in BOOLEAN /\ agDirty' \in BOOLEAN /\ agSaving' \in BOOLEAN
<1> DEFINE Goal == agEditing' \in BOOLEAN /\ agDirty' \in BOOLEAN /\ agSaving' \in BOOLEAN
<1> USE DEF SettingsFlags
<1>1. ASSUME AgLoaded PROVE Goal
  BY <1>1 DEF AgLoaded
<1>2. ASSUME AgEdit PROVE Goal
  BY <1>2 DEF AgEdit
<1>3. ASSUME AgSave PROVE Goal
  BY <1>3 DEF AgSave
<1>4. ASSUME AgRemount PROVE Goal
  BY <1>4 DEF AgRemount
<1>5. ASSUME NEW a \in agAsks, AgSaved(a) PROVE Goal
  BY <1>5 DEF AgSaved
<1>. QED
  BY <1>1, <1>2, <1>3, <1>4, <1>5 DEF AgNext

LEMMA KeyFlags ==
  ASSUME SettingsFlags, KeyNext
  PROVE  keyLoading' \in BOOLEAN /\ keySubmitting' \in BOOLEAN /\ keyCreateOpen' \in BOOLEAN
<1> DEFINE Goal == keyLoading' \in BOOLEAN /\ keySubmitting' \in BOOLEAN /\ keyCreateOpen' \in BOOLEAN
<1> USE DEF SettingsFlags
<1>1. ASSUME KeyModal PROVE Goal
  BY <1>1 DEF KeyModal
<1>2. ASSUME KeyRemount PROVE Goal
  BY <1>2 DEF KeyRemount
<1>3. ASSUME NEW kind \in {"create", "confirmRotate", "confirmRevoke"}, KeySubmit(kind) PROVE Goal
  BY <1>3 DEF KeySubmit
<1>4. ASSUME NEW k \in keyTasks, KeyCreated(k) PROVE Goal
  BY <1>4 DEF KeyCreated
<1>5. ASSUME NEW k \in keyTasks, KeyRotated(k) PROVE Goal
  BY <1>5 DEF KeyRotated
<1>6. ASSUME NEW k \in keyTasks, KeyRevoked(k) PROVE Goal
  BY <1>6 DEF KeyRevoked
<1>7. ASSUME NEW k \in keyTasks, KeyTaskEnds(k) PROVE Goal
  BY <1>7 DEF KeyTaskEnds
<1>. QED
  BY <1>1, <1>2, <1>3, <1>4, <1>5, <1>6, <1>7 DEF KeyNext

LEMMA HookFlags ==
  ASSUME SettingsFlags, HkNext
  PROVE  hkLoading' \in BOOLEAN /\ hkOfLoading' \in BOOLEAN /\ hkCreateOpen' \in BOOLEAN /\ hkSubmitting' \in BOOLEAN
<1> DEFINE Goal == hkLoading' \in BOOLEAN /\ hkOfLoading' \in BOOLEAN /\ hkCreateOpen' \in BOOLEAN /\ hkSubmitting' \in BOOLEAN
<1> USE DEF SettingsFlags
<1>1. ASSUME HookModal PROVE Goal
  BY <1>1 DEF HookModal
<1>2. ASSUME HookRetry PROVE Goal
  BY <1>2 DEF HookRetry
<1>3. ASSUME HookRemount PROVE Goal
  BY <1>3 DEF HookRemount
<1>4. ASSUME NEW hook \in Things, HookSelect(hook) PROVE Goal
  BY <1>4 DEF HookSelect, Selects
<1>5. ASSUME NEW kind \in {"create", "regenerate"}, HookSubmit(kind) PROVE Goal
  BY <1>5 DEF HookSubmit
<1>6. ASSUME NEW k \in hkTasks, NEW list \in SUBSET Things, HookLoaded(k, list) PROVE Goal
  BY <1>6 DEF HookLoaded, Selects
<1>7. ASSUME NEW k \in hkTasks, NEW hook \in Things, HookCreated(k, hook) PROVE Goal
  BY <1>7 DEF HookCreated
<1>8. ASSUME NEW k \in hkTasks, HookRegenerated(k) PROVE Goal
  BY <1>8 DEF HookRegenerated
<1>9. ASSUME NEW k \in hkTasks, HookRetried(k) PROVE Goal
  BY <1>9 DEF HookRetried
<1>10. ASSUME NEW k \in hkTasks, HookDeliveries(k) PROVE Goal
  BY <1>10 DEF HookDeliveries
<1>11. ASSUME NEW k \in hkTasks, HookTaskEnds(k) PROVE Goal
  BY <1>11 DEF HookTaskEnds
<1>. QED
  BY <1>1, <1>2, <1>3, <1>4, <1>5, <1>6, <1>7, <1>8, <1>9, <1>10, <1>11 DEF HkNext

LEMMA InFlags ==
  ASSUME SettingsFlags, InNext
  PROVE  inLoading' \in BOOLEAN /\ inAddOpen' \in BOOLEAN /\ inAdding' \in BOOLEAN /\ inKey' \in BOOLEAN
<1> DEFINE Goal == inLoading' \in BOOLEAN /\ inAddOpen' \in BOOLEAN /\ inAdding' \in BOOLEAN /\ inKey' \in BOOLEAN
<1> USE DEF SettingsFlags
<1>1. ASSUME InModal PROVE Goal
  BY <1>1 DEF InModal
<1>2. ASSUME InReload PROVE Goal
  BY <1>2 DEF InReload
<1>3. ASSUME NEW thing \in Things, InCreate(thing) PROVE Goal
  BY <1>3 DEF InCreate
<1>4. ASSUME NEW thing \in Things, InRemove(thing) PROVE Goal
  BY <1>4 DEF InRemove
<1>5. ASSUME NEW k \in inTasks, InServed(k) PROVE Goal
  BY <1>5 DEF InServed
<1>6. ASSUME NEW k \in inTasks, InLoaded(k) PROVE Goal
  BY <1>6 DEF InLoaded
<1>7. ASSUME NEW k \in inTasks, InCreated(k) PROVE Goal
  BY <1>7 DEF InCreated
<1>8. ASSUME NEW k \in inTasks, InRemoved(k) PROVE Goal
  BY <1>8 DEF InRemoved
<1>9. ASSUME NEW k \in inTasks, InFails(k) PROVE Goal
  BY <1>9 DEF InFails
<1>. QED
  BY <1>1, <1>2, <1>3, <1>4, <1>5, <1>6, <1>7, <1>8, <1>9 DEF InNext

\* The profile and password forms.
LEMMA AccStep ==
  ASSUME setMoves \in 0..MaxSetMoves, AccTypes, AccOne, AccNext
  PROVE  AccTypes' /\ AccOne'
<1> USE DEF AccTypes, AccOne, AtMostOne
<1>1. ASSUME NEW name \in ProfileNames, MeLoaded(name) PROVE AccTypes' /\ AccOne'
  BY <1>1 DEF MeLoaded
<1>2. ASSUME AccReload PROVE AccTypes' /\ AccOne'
  BY <1>2 DEF AccReload, ProfileNames
<1>3. ASSUME AccTab \/ ProfType \/ ProfFile \/ SavedGoes PROVE AccTypes' /\ AccOne'
  <2>1. AccTypes'
    BY <1>3 DEF AccTab, ProfType, ProfFile, SavedGoes
  <2>2. UNCHANGED <<profAsks, pwAsks, profSaving, pwSaving>>
    BY <1>3 DEF AccTab, ProfType, ProfFile, SavedGoes
  <2>. QED
    BY <2>1, <2>2
<1>4. ASSUME ProfFileRead PROVE AccTypes' /\ AccOne'
  BY <1>4 DEF ProfFileRead, ProfileNames
<1>5. ASSUME ProfSave PROVE AccTypes' /\ AccOne'
  <2>1. setMoves' \in 1..MaxSetMoves
    BY <1>5, SetMoveCounts DEF ProfSave
  <2>2. ~profSaving
    BY <1>5 DEF ProfSave, ProfOffers
  <2>3. profAsks = {}
    BY <2>2
  <2> DEFINE ask == [nr |-> setMoves', name |-> IF profDraft = "none" THEN profBase ELSE profDraft]
  <2>4. profAsks' = {ask}
    BY <1>5, <2>3 DEF ProfSave
  <2>5. ask \in [nr : 1..MaxSetMoves, name : ProfileNames]
    BY <2>1
  <2> HIDE DEF ask
  <2>. QED
    BY <1>5, <2>4, <2>5 DEF ProfSave
<1>6. ASSUME PwType PROVE AccTypes' /\ AccOne'
  BY <1>6 DEF PwType
<1>7. ASSUME PwSave PROVE AccTypes' /\ AccOne'
  <2>1. setMoves' \in 1..MaxSetMoves
    BY <1>7, SetMoveCounts DEF PwSave
  <2>2. ~pwSaving
    BY <1>7 DEF PwSave, PwOffers
  <2>3. pwAsks' = {setMoves'}
    BY <1>7, <2>2 DEF PwSave
  <2>4. AccTypes'
    BY <1>7, <2>1, <2>3 DEF PwSave
  <2>5. AccOne'
    BY <1>7, <2>3 DEF PwSave
  <2>. QED
    BY <2>4, <2>5
<1>8. ASSUME NEW a \in profAsks, ProfAnswered(a) PROVE AccTypes' /\ AccOne'
  BY <1>8 DEF ProfAnswered
<1>9. ASSUME NEW a \in pwAsks, PwAnswered(a) PROVE AccTypes' /\ AccOne'
  BY <1>9 DEF PwAnswered
<1>. QED
  BY <1>1, <1>2, <1>3, <1>4, <1>5, <1>6, <1>7, <1>8, <1>9 DEF AccNext

\* The agents' page.
LEMMA AgStep ==
  ASSUME setMoves \in 0..MaxSetMoves, AgTypes, AgOne, AgNext
  PROVE  AgTypes' /\ AgOne'
<1> USE DEF AgTypes, AgOne, AtMostOne, AgentCalls
<1>1. ASSUME AgLoaded \/ AgEdit PROVE AgTypes' /\ AgOne'
  BY <1>1 DEF AgLoaded, AgEdit
<1>2. ASSUME AgSave PROVE AgTypes' /\ AgOne'
  <2>1. setMoves' \in 1..MaxSetMoves
    BY <1>2, SetMoveCounts DEF AgSave
  <2>2. ~agSaving /\ agState = "ready"
    BY <1>2 DEF AgSave, AgOffers
  <2>3. /\ agAsks' = agAsks \cup {[nr |-> setMoves', mount |-> agMount]}
        /\ UNCHANGED <<agMount, agState>>
    BY <1>2 DEF AgSave
  <2>4. \A a \in agAsks : a.mount # agMount
    BY <2>2
  <2>5. AgTypes'
    BY <2>1, <2>3
  <2>6. AgentCalls' = {[nr |-> setMoves', mount |-> agMount]}
    BY <2>3, <2>4
  <2>7. agSaving'
    BY <1>2 DEF AgSave
  <2>. QED
    BY <2>5, <2>6, <2>7
<1>3. ASSUME AgRemount PROVE AgTypes' /\ AgOne'
  <2>1. agMount' = agMount + 1 /\ agState' = "loading" /\ agAsks' = agAsks
    BY <1>3 DEF AgRemount
  <2>2. \A a \in agAsks' : a.mount # agMount'
    BY <2>1
  <2>3. AgTypes'
    BY <2>1
  <2>. QED
    BY <1>3, <2>2, <2>3 DEF AgRemount
<1>4. ASSUME NEW a \in agAsks, AgSaved(a) PROVE AgTypes' /\ AgOne'
  <2>1. agAsks' = agAsks \ {a} /\ UNCHANGED <<agMount, agState>>
    BY <1>4 DEF AgSaved
  <2>2. AgTypes'
    BY <2>1
  <2>3. CASE a.mount = agMount
    BY <1>4, <2>1, <2>2, <2>3 DEF AgSaved
  <2>4. CASE a.mount # agMount
    BY <1>4, <2>1, <2>2, <2>4 DEF AgSaved
  <2>. QED
    BY <2>3, <2>4
<1>. QED
  BY <1>1, <1>2, <1>3, <1>4 DEF AgNext

\* The keys' tab.
LEMMA KeyStep ==
  ASSUME setMoves \in 0..MaxSetMoves, KeyTypes, KeyOne, KeyNext
  PROVE  KeyTypes' /\ KeyOne'
<1> USE DEF KeyTypes, KeyOne, AtMostOne, KeyCalls
<1>1. ASSUME KeyModal PROVE KeyTypes' /\ KeyOne'
  <2>1. UNCHANGED <<keyMount, keySubmitting, keyTasks>>
    BY <1>1 DEF KeyModal
  <2>2. keyRotating' \in Things \cup {0} /\ keyRevoking' \in Things \cup {0}
    BY <1>1 DEF KeyModal
  <2>3. keyText' \in Things \cup {0}
    BY <1>1 DEF KeyModal
  <2>4. keySecret' = keySecret \/ keySecret' = 0
    BY <1>1 DEF KeyModal
  <2>5. keySecret' \in 0..MaxSetMoves
    BY <2>4, SettingsConstantsOK
  <2>. QED
    BY <2>1, <2>2, <2>3, <2>5
<1>2. ASSUME KeyRemount PROVE KeyTypes' /\ KeyOne'
  <2>1. setMoves' \in 1..MaxSetMoves
    BY <1>2, SetMoveCounts DEF KeyRemount
  <2>2. /\ keyMount' = keyMount + 1
        /\ keyTasks' = keyTasks \cup {[nr |-> setMoves', mount |-> keyMount', kind |-> "load", phase |-> "reload"]}
        /\ keyRotating' = 0 /\ keyRevoking' = 0 /\ keyText' = 0 /\ keySecret' = 0
    BY <1>2 DEF KeyRemount
  <2>3. KeyTypes'
    <3>1. [nr |-> setMoves', mount |-> keyMount', kind |-> "load", phase |-> "reload"]
          \in [nr : 0..MaxSetMoves, mount : 1..keyMount', kind : KeyKinds, phase : {"asked", "reload"}]
      BY <2>1, <2>2 DEF KeyKinds
    <3>2. keyTasks \subseteq [nr : 0..MaxSetMoves, mount : 1..keyMount', kind : KeyKinds,
                              phase : {"asked", "reload"}]
      BY <2>2
    <3>3. 0 \in 0..MaxSetMoves /\ keyMount' \in Nat \ {0}
      BY <2>2, SettingsConstantsOK
    <3>. QED
      BY <2>2, <3>1, <3>2, <3>3
  <2>4. KeyCalls' = {}
    BY <2>2
  <2>. QED
    BY <1>2, <2>3, <2>4 DEF KeyRemount
<1>3. ASSUME NEW kind \in {"create", "confirmRotate", "confirmRevoke"}, KeySubmit(kind)
      PROVE  KeyTypes' /\ KeyOne'
  <2>1. setMoves' \in 1..MaxSetMoves
    BY <1>3, SetMoveCounts DEF KeySubmit
  <2>2. ~keySubmitting
    BY <1>3 DEF KeySubmit, KeyOffers
  <2>3. /\ keyTasks' = keyTasks \cup {[nr |-> setMoves', mount |-> keyMount, kind |-> kind, phase |-> "asked"]}
        /\ UNCHANGED <<keyMount, keyRotating, keyRevoking, keyText, keySecret>>
    BY <1>3 DEF KeySubmit, KeyTask
  <2> DEFINE task == [nr |-> setMoves', mount |-> keyMount, kind |-> kind, phase |-> "asked"]
  <2>6. /\ task \in [nr : 0..MaxSetMoves, mount : 1..keyMount, kind : KeyKinds, phase : {"asked", "reload"}]
        /\ task.mount = keyMount /\ task.kind # "load"
    BY <2>1 DEF KeyKinds
  <2>7. keyTasks' = keyTasks \cup {task}
    BY <2>3
  <2> HIDE DEF task
  <2>4. KeyTypes'
    BY <2>3, <2>6, <2>7
  <2>5. KeyCalls' = {task}
    <3>1. \A k \in keyTasks : ~(k.mount = keyMount /\ k.kind # "load")
      BY <2>2
    <3>. QED
      BY <2>3, <2>6, <2>7, <3>1
  <2>. QED
    BY <1>3, <2>4, <2>5 DEF KeySubmit
<1>4. ASSUME NEW k \in keyTasks, KeyCreated(k) \/ KeyRotated(k) \/ KeyRevoked(k)
      PROVE  KeyTypes' /\ KeyOne'
  <2>1. /\ keyTasks' = (keyTasks \ {k}) \cup {[k EXCEPT !.phase = "reload"]}
        /\ UNCHANGED <<keyMount, keySubmitting>> /\ k.kind # "load" /\ k.mount = keyMount
    BY <1>4 DEF KeyCreated, KeyRotated, KeyRevoked, Reloads
  <2>2. /\ keyRotating' \in Things \cup {0} /\ keyRevoking' \in Things \cup {0}
        /\ keyText' \in Things \cup {0} /\ keySecret' \in 0..MaxSetMoves
    BY <1>4, SettingsConstantsOK DEF KeyCreated, KeyRotated, KeyRevoked
  <2>3. [k EXCEPT !.phase = "reload"] \in [nr : 0..MaxSetMoves, mount : 1..keyMount, kind : KeyKinds,
                                           phase : {"asked", "reload"}]
    OBVIOUS
  <2>4. KeyTypes'
    BY <2>1, <2>2, <2>3
  <2>5. KeyCalls = {k}
    BY <2>1
  <2>6. KeyCalls' = {[k EXCEPT !.phase = "reload"]}
    BY <2>1, <2>5
  <2>. QED
    BY <2>1, <2>4, <2>5, <2>6
<1>5. ASSUME NEW k \in keyTasks, KeyTaskEnds(k) PROVE KeyTypes' /\ KeyOne'
  <2>1. /\ keyTasks' = keyTasks \ {k}
        /\ UNCHANGED <<keyMount, keyRotating, keyRevoking, keyText, keySecret>>
    BY <1>5 DEF KeyTaskEnds
  <2>2. KeyTypes'
    BY <2>1
  <2>3. CASE k.mount = keyMount /\ k.kind # "load"
    <3>1. KeyCalls' = {}
      BY <2>1, <2>3
    <3>2. ~keySubmitting'
      BY <1>5, <2>3 DEF KeyTaskEnds
    <3>. QED
      BY <2>2, <3>1, <3>2
  <2>4. CASE k.mount # keyMount \/ k.kind = "load"
    <3>1. KeyCalls' = KeyCalls
      BY <2>1, <2>4
    <3>2. keySubmitting' <=> keySubmitting
      BY <1>5, <2>4 DEF KeyTaskEnds
    <3>. QED
      BY <2>2, <3>1, <3>2
  <2>. QED
    BY <2>3, <2>4
<1>. QED
  BY <1>1, <1>2, <1>3, <1>4, <1>5 DEF KeyNext

\* The webhooks' tab.
LEMMA HookStep ==
  ASSUME setMoves \in 0..MaxSetMoves, HkTypes, HookOne, HkNext
  PROVE  HkTypes' /\ HookOne'
<1> USE DEF HkTypes, HookOne, AtMostOne, HookCalls
<1> DEFINE Tasks == [nr : 0..MaxSetMoves, mount : 1..hkMount, kind : HkKinds, hook : Things \cup {0}]
<1>1. ASSUME HookModal PROVE HkTypes' /\ HookOne'
  <2>1. UNCHANGED <<hkMount, hkList, hkSelected, hkOf, hkSubmitting, hkTasks>>
    BY <1>1 DEF HookModal
  <2>2. hkSecret' \in {hkSecret, 0}
    BY <1>1 DEF HookModal
  <2>3. hkSecret' \in 0..MaxSetMoves
    BY <2>2, SettingsConstantsOK
  <2>. QED
    BY <2>1, <2>3
<1>2. ASSUME HookRetry PROVE HkTypes' /\ HookOne'
  <2>1. setMoves' \in 1..MaxSetMoves
    BY <1>2, SetMoveCounts DEF HookRetry
  <2> DEFINE task == [nr |-> setMoves', mount |-> hkMount, kind |-> "retry", hook |-> hkSelected]
  <2>2. /\ hkTasks' = hkTasks \cup {task}
        /\ UNCHANGED <<hkMount, hkList, hkSelected, hkOf, hkSubmitting, hkSecret>>
    BY <1>2 DEF HookRetry, HkTask
  <2>3. task \in Tasks /\ task.kind = "retry"
    BY <2>1 DEF HkKinds
  <2> HIDE DEF task
  <2>4. HkTypes'
    BY <2>2, <2>3
  <2>5. HookCalls' = HookCalls
    BY <2>2, <2>3
  <2>. QED
    BY <2>2, <2>4, <2>5
<1>3. ASSUME HookRemount PROVE HkTypes' /\ HookOne'
  <2>1. setMoves' \in 1..MaxSetMoves
    BY <1>3, SetMoveCounts DEF HookRemount
  <2> DEFINE task == [nr |-> setMoves', mount |-> hkMount', kind |-> "load", hook |-> 0]
  <2>2. /\ hkMount' = hkMount + 1 /\ hkTasks' = hkTasks \cup {task}
        /\ hkList' = {} /\ hkSelected' = 0 /\ hkOf' = 0 /\ hkSecret' = 0
    BY <1>3 DEF HookRemount
  <2>3. task \in [nr : 0..MaxSetMoves, mount : 1..hkMount', kind : HkKinds, hook : Things \cup {0}]
        /\ task.kind = "load"
    BY <2>1, <2>2 DEF HkKinds
  <2>4. hkTasks \subseteq [nr : 0..MaxSetMoves, mount : 1..hkMount', kind : HkKinds, hook : Things \cup {0}]
    BY <2>2
  <2> HIDE DEF task
  <2>5. 0 \in 0..MaxSetMoves /\ hkMount' \in Nat \ {0}
    BY <2>2, SettingsConstantsOK
  <2>6. HkTypes'
    BY <2>2, <2>3, <2>4, <2>5
  <2>7. HookCalls' = {}
    BY <2>2, <2>3
  <2>8. ~hkSubmitting'
    BY <1>3 DEF HookRemount
  <2>. QED
    BY <2>6, <2>7, <2>8
<1>4. ASSUME NEW kind \in {"create", "regenerate"}, HookSubmit(kind) PROVE HkTypes' /\ HookOne'
  <2>1. setMoves' \in 1..MaxSetMoves
    BY <1>4, SetMoveCounts DEF HookSubmit
  <2>2. ~hkSubmitting
    BY <1>4 DEF HookSubmit, HookOffers
  <2> DEFINE task == [nr |-> setMoves', mount |-> hkMount, kind |-> kind, hook |-> hkSelected]
  <2>3. /\ hkTasks' = hkTasks \cup {task}
        /\ UNCHANGED <<hkMount, hkList, hkSelected, hkOf, hkSecret>>
    BY <1>4 DEF HookSubmit, HkTask
  <2>4. task \in Tasks /\ task.kind = kind /\ task.mount = hkMount
    BY <2>1 DEF HkKinds
  <2> HIDE DEF task
  <2>5. HkTypes'
    BY <2>3, <2>4
  <2>6. HookCalls' = {task}
    <3>1. \A k \in hkTasks : ~(k.mount = hkMount /\ k.kind \in {"create", "created", "regenerate"})
      BY <2>2
    <3>. QED
      BY <2>3, <2>4, <3>1
  <2>7. hkSubmitting'
    BY <1>4 DEF HookSubmit
  <2>. QED
    BY <2>5, <2>6, <2>7
\* A selection adds a request for deliveries at most.
<1>5. ASSUME NEW hook \in Things \cup {0}, NEW rest \in SUBSET hkTasks, Selects(hook, rest)
      PROVE  \E more \in SUBSET {k \in Tasks : k.kind = "deliveries"} :
               /\ hkTasks' = rest \cup more
               /\ hkSelected' \in Things \cup {0} /\ hkOf' \in Things \cup {0}
  <2> DEFINE task == [nr |-> setMoves, mount |-> hkMount, kind |-> "deliveries", hook |-> hook]
  <2>1. task \in {k \in Tasks : k.kind = "deliveries"}
    BY DEF HkKinds
  <2>2. hkTasks' = rest \/ hkTasks' = rest \cup {task}
    BY <1>5 DEF Selects
  <2>3. hkSelected' \in Things \cup {0} /\ hkOf' \in Things \cup {0}
    BY <1>5 DEF Selects
  <2> HIDE DEF task, Tasks
  <2>4. CASE hkTasks' = rest
    <3>1. hkTasks' = rest \cup {} /\ {} \in SUBSET {k \in Tasks : k.kind = "deliveries"}
      BY <2>4
    <3>. QED
      BY <2>3, <3>1
  <2>5. CASE hkTasks' = rest \cup {task}
    BY <2>1, <2>3, <2>5
  <2>. QED
    BY <2>2, <2>4, <2>5
<1>6. ASSUME NEW hook \in Things, HookSelect(hook) PROVE HkTypes' /\ HookOne'
  <2>1. UNCHANGED <<hkMount, hkList, hkSubmitting, hkSecret>> /\ Selects(hook, hkTasks)
    BY <1>6 DEF HookSelect
  <2>2. PICK more \in SUBSET {k \in Tasks : k.kind = "deliveries"} :
          hkTasks' = hkTasks \cup more /\ hkSelected' \in Things \cup {0} /\ hkOf' \in Things \cup {0}
    BY <2>1, <1>5
  <2>3. HkTypes'
    BY <2>1, <2>2
  <2>4. HookCalls' = HookCalls
    BY <2>1, <2>2
  <2>. QED
    BY <2>1, <2>3, <2>4
<1>7. ASSUME NEW k \in hkTasks, NEW list \in SUBSET Things, HookLoaded(k, list) PROVE HkTypes' /\ HookOne'
  <2>1. k.kind \in {"load", "created"} /\ k.mount = hkMount /\ UNCHANGED <<hkMount, hkSecret>>
    BY <1>7 DEF HookLoaded
  <2>2. hkSubmitting' <=> (hkSubmitting /\ k.kind = "load")
    BY <1>7 DEF HookLoaded
  <2>3. \E hook \in Things \cup {0} : Selects(hook, hkTasks \ {k})
    BY <1>7 DEF HookLoaded
  <2>4. hkList' \subseteq Things
    BY <1>7 DEF HookLoaded
  <2>5. PICK more \in SUBSET {m \in Tasks : m.kind = "deliveries"} :
          hkTasks' = (hkTasks \ {k}) \cup more /\ hkSelected' \in Things \cup {0} /\ hkOf' \in Things \cup {0}
    BY <2>3, <1>5
  <2>6. HkTypes'
    BY <2>1, <2>4, <2>5
  <2>7. CASE k.kind = "load"
    <3>1. HookCalls' = HookCalls
      BY <2>1, <2>5, <2>7
    <3>. QED
      BY <2>2, <2>6, <2>7, <3>1
  <2>8. CASE k.kind = "created"
    <3>1. HookCalls' = {}
      BY <2>1, <2>5, <2>8
    <3>. QED
      BY <2>2, <2>6, <2>8, <3>1
  <2>. QED
    BY <2>1, <2>7, <2>8
<1>8. ASSUME NEW k \in hkTasks, NEW hook \in Things, HookCreated(k, hook) PROVE HkTypes' /\ HookOne'
  <2> DEFINE task == [k EXCEPT !.kind = "created", !.hook = hook]
  <2>1. /\ k.kind = "create" /\ k.mount = hkMount /\ hkSecret' = k.nr
        /\ UNCHANGED <<hkMount, hkList, hkSelected, hkOf, hkSubmitting>>
        /\ hkTasks' = (hkTasks \ {k}) \cup {task}
    BY <1>8 DEF HookCreated
  <2>2. task \in Tasks /\ task.kind = "created" /\ task.mount = hkMount
    BY <2>1 DEF HkKinds
  <2> HIDE DEF task
  <2>3. HkTypes'
    BY <2>1, <2>2
  <2>4. HookCalls = {k}
    BY <2>1
  <2>5. HookCalls' = {task}
    BY <2>1, <2>2, <2>4
  <2>. QED
    BY <2>1, <2>3, <2>4, <2>5
<1>9. ASSUME NEW k \in hkTasks, HookRegenerated(k) PROVE HkTypes' /\ HookOne'
  <2>1. /\ k.kind = "regenerate" /\ k.mount = hkMount /\ hkSecret' = k.nr
        /\ UNCHANGED <<hkMount, hkList, hkSelected, hkOf>>
        /\ hkTasks' = hkTasks \ {k}
    BY <1>9 DEF HookRegenerated
  <2>2. HkTypes'
    BY <2>1
  <2>3. HookCalls' = {}
    BY <2>1
  <2>4. ~hkSubmitting'
    BY <1>9 DEF HookRegenerated
  <2>. QED
    BY <2>2, <2>3, <2>4
<1>10. ASSUME NEW k \in hkTasks, HookRetried(k) PROVE HkTypes' /\ HookOne'
  <2> DEFINE task == [k EXCEPT !.kind = "deliveries"]
  <2>1. /\ k.kind = "retry"
        /\ UNCHANGED <<hkMount, hkList, hkSelected, hkOf, hkSubmitting, hkSecret>>
        /\ hkTasks' = (hkTasks \ {k}) \cup {task}
    BY <1>10 DEF HookRetried
  <2>2. task \in Tasks /\ task.kind = "deliveries"
    BY DEF HkKinds
  <2> HIDE DEF task
  <2>3. HkTypes'
    BY <2>1, <2>2
  <2>4. HookCalls' = HookCalls
    BY <2>1, <2>2
  <2>. QED
    BY <2>1, <2>3, <2>4
<1>11. ASSUME NEW k \in hkTasks, HookDeliveries(k) PROVE HkTypes' /\ HookOne'
  <2>1. /\ k.kind = "deliveries" /\ hkOf' \in {k.hook, 0}
        /\ UNCHANGED <<hkMount, hkList, hkSelected, hkSubmitting, hkSecret>>
        /\ hkTasks' = hkTasks \ {k}
    BY <1>11 DEF HookDeliveries
  <2>2. HkTypes'
    BY <2>1
  <2>3. HookCalls' = HookCalls
    BY <2>1
  <2>. QED
    BY <2>1, <2>2, <2>3
<1>12. ASSUME NEW k \in hkTasks, HookTaskEnds(k) PROVE HkTypes' /\ HookOne'
  <2>1. /\ k.mount = hkMount => k.kind \in {"create", "regenerate", "retry"}
        /\ UNCHANGED <<hkMount, hkList, hkSelected, hkOf, hkSecret>>
        /\ hkTasks' = hkTasks \ {k}
    BY <1>12 DEF HookTaskEnds
  <2>2. hkSubmitting' <=> (hkSubmitting /\ ~(k.mount = hkMount /\ k.kind # "retry"))
    BY <1>12 DEF HookTaskEnds
  <2>3. HkTypes'
    BY <2>1
  <2>4. CASE k.mount = hkMount /\ k.kind # "retry"
    <3>1. HookCalls' = {}
      BY <2>1, <2>4
    <3>. QED
      BY <2>2, <2>3, <2>4, <3>1
  <2>5. CASE ~(k.mount = hkMount /\ k.kind # "retry")
    <3>1. HookCalls' = HookCalls
      BY <2>1, <2>5
    <3>. QED
      BY <2>2, <2>3, <2>5, <3>1
  <2>. QED
    BY <2>4, <2>5
<1>. QED
  BY <1>1, <1>2, <1>3, <1>4, <1>6, <1>7, <1>8, <1>9, <1>10, <1>11, <1>12 DEF HkNext

\* The secrets of the keys' tab: a request is newer than the secret shown when it is
\* sent, and it is the only one when its own is shown.
LEMMA KeySecretStep ==
  ASSUME setMoves \in 0..MaxSetMoves, setMoves' \in {setMoves, setMoves + 1},
         KeyTypes, KeyOne, KeySecretInv, KeyNext \/ UNCHANGED keyVars
  PROVE  KeySecretInv'
<1> USE DEF KeyTypes, KeySecretInv, KeyCalls
<1>1. CASE UNCHANGED keyVars
  BY <1>1 DEF keyVars
<1>2. CASE KeyModal
  <2>1. UNCHANGED <<keyMount, keyTasks>> /\ keySecret' \in {keySecret, 0}
    BY <1>2 DEF KeyModal
  <2>. QED
    BY <2>1
<1>3. CASE KeyRemount
  <2>1. keySecret' = 0 /\ \A k \in keyTasks' : k \in keyTasks \/ k.nr = setMoves'
    BY <1>3 DEF KeyRemount
  <2>2. \A k \in keyTasks' : k.nr \in 0..setMoves'
    BY <2>1
  <2>. QED
    BY <2>1, <2>2
<1>4. ASSUME NEW kind \in {"create", "confirmRotate", "confirmRevoke"}, KeySubmit(kind) PROVE KeySecretInv'
  <2>1. keySecret' = keySecret /\ keyMount' = keyMount
        /\ \A k \in keyTasks' : k \in keyTasks \/ k.nr = setMoves'
    BY <1>4 DEF KeySubmit, KeyTask
  <2>. QED
    BY <2>1
<1>5. ASSUME NEW k \in keyTasks, KeyCreated(k) \/ KeyRotated(k) \/ KeyRevoked(k) PROVE KeySecretInv'
  <2>1. /\ keyTasks' = (keyTasks \ {k}) \cup {[k EXCEPT !.phase = "reload"]}
        /\ keyMount' = keyMount /\ k \in KeyCalls /\ keySecret' \in {keySecret, k.nr}
        /\ setMoves' = setMoves
    BY <1>5 DEF KeyCreated, KeyRotated, KeyRevoked, Reloads
  <2>2. KeyCalls = {k}
    BY <2>1 DEF KeyOne, AtMostOne
  <2>3. [k EXCEPT !.phase = "reload"].nr = k.nr
    OBVIOUS
  <2>4. \A m \in KeyCalls' : m.nr = k.nr
    BY <2>1, <2>2, <2>3
  <2>. QED
    BY <2>1, <2>3, <2>4
<1>6. ASSUME NEW k \in keyTasks, KeyTaskEnds(k) PROVE KeySecretInv'
  BY <1>6 DEF KeyTaskEnds
<1>. QED
  BY <1>1, <1>2, <1>3, <1>4, <1>5, <1>6 DEF KeyNext

\* Those of the webhooks' tab.
LEMMA HookSecretStep ==
  ASSUME setMoves \in 0..MaxSetMoves, setMoves' \in {setMoves, setMoves + 1},
         HkTypes, HookOne, HookSecretInv, HkNext \/ UNCHANGED hkVars
  PROVE  HookSecretInv'
<1> USE DEF HkTypes, HookSecretInv, HookCalls
<1>1. CASE UNCHANGED hkVars
  BY <1>1 DEF hkVars
<1>2. CASE HookModal
  <2>1. UNCHANGED <<hkMount, hkTasks>> /\ hkSecret' \in {hkSecret, 0}
    BY <1>2 DEF HookModal
  <2>. QED
    BY <2>1
\* What only adds requests of now, or for deliveries, or takes requests away.
<1>3. ASSUME hkMount' = hkMount, hkSecret' = hkSecret,
             \A k \in hkTasks' : k \in hkTasks \/ k.nr = setMoves' \/ (k.nr = setMoves /\ k.kind = "deliveries")
      PROVE  HookSecretInv'
  BY <1>3
<1>4. CASE HookRetry
  BY <1>3, <1>4 DEF HookRetry, HkTask
<1>5. CASE HookRemount
  <2>1. hkSecret' = 0 /\ \A k \in hkTasks' : k \in hkTasks \/ k.nr = setMoves'
    BY <1>5 DEF HookRemount
  <2>2. \A k \in hkTasks' : k.nr \in 0..setMoves'
    BY <2>1
  <2>. QED
    BY <2>1, <2>2
<1>6. ASSUME NEW kind \in {"create", "regenerate"}, HookSubmit(kind) PROVE HookSecretInv'
  BY <1>3, <1>6 DEF HookSubmit, HkTask
<1>7. ASSUME NEW hook, NEW rest \in SUBSET hkTasks, Selects(hook, rest)
      PROVE  \A k \in hkTasks' : k \in hkTasks \/ (k.nr = setMoves /\ k.kind = "deliveries")
  BY <1>7 DEF Selects
<1>8. ASSUME NEW hook \in Things, HookSelect(hook) PROVE HookSecretInv'
  <2>1. UNCHANGED <<hkMount, hkSecret>> /\ Selects(hook, hkTasks)
    BY <1>8 DEF HookSelect
  <2>. QED
    BY <1>3, <1>7, <2>1
<1>9. ASSUME NEW k \in hkTasks, NEW list \in SUBSET Things, HookLoaded(k, list) PROVE HookSecretInv'
  <2>1. UNCHANGED <<hkMount, hkSecret>>
    BY <1>9 DEF HookLoaded
  <2>2. \E hook : Selects(hook, hkTasks \ {k})
    BY <1>9 DEF HookLoaded
  <2>. QED
    BY <1>3, <1>7, <2>1, <2>2
<1>10. ASSUME NEW k \in hkTasks, NEW hook \in Things, HookCreated(k, hook) PROVE HookSecretInv'
  <2> DEFINE task == [k EXCEPT !.kind = "created", !.hook = hook]
  <2>1. /\ hkTasks' = (hkTasks \ {k}) \cup {task} /\ task.nr = k.nr
        /\ hkMount' = hkMount /\ k \in HookCalls /\ hkSecret' = k.nr
        /\ setMoves' = setMoves
    BY <1>10 DEF HookCreated
  <2> HIDE DEF task
  <2>2. HookCalls = {k}
    BY <2>1 DEF HookOne, AtMostOne
  <2>3. \A m \in HookCalls' : m.nr = k.nr
    BY <2>1, <2>2
  <2>. QED
    BY <2>1, <2>3
<1>11. ASSUME NEW k \in hkTasks, HookRegenerated(k) PROVE HookSecretInv'
  <2>1. /\ hkTasks' = hkTasks \ {k} /\ hkMount' = hkMount /\ k \in HookCalls /\ hkSecret' = k.nr
        /\ setMoves' = setMoves
    BY <1>11 DEF HookRegenerated
  <2>2. HookCalls = {k}
    BY <2>1 DEF HookOne, AtMostOne
  <2>3. HookCalls' = {}
    BY <2>1, <2>2
  <2>. QED
    BY <2>1, <2>3
<1>12. ASSUME NEW k \in hkTasks, HookRetried(k) PROVE HookSecretInv'
  <2> DEFINE task == [k EXCEPT !.kind = "deliveries"]
  <2>1. /\ hkTasks' = (hkTasks \ {k}) \cup {task} /\ task.nr = k.nr /\ task.kind = "deliveries"
        /\ UNCHANGED <<hkMount, hkSecret, setMoves>>
    BY <1>12 DEF HookRetried
  <2> HIDE DEF task
  <2>. QED
    BY <2>1
<1>13. ASSUME NEW k \in hkTasks, HookDeliveries(k) \/ HookTaskEnds(k) PROVE HookSecretInv'
  BY <1>3, <1>13 DEF HookDeliveries, HookTaskEnds
<1>. QED
  BY <1>1, <1>2, <1>4, <1>5, <1>6, <1>8, <1>9, <1>10, <1>11, <1>12, <1>13 DEF HkNext

\* The integrations' page.
LEMMA InStep ==
  ASSUME setMoves \in 0..MaxSetMoves, InTypes, InOne, InNext
  PROVE  InTypes' /\ InOne'
<1> USE DEF InTypes, InOne, AtMostOne, Additions
<1> DEFINE Tasks == [nr : 0..MaxSetMoves, kind : {"load", "create", "remove"},
                     thing : Things \cup {0}, phase : {"asked", "answered"}, list : SUBSET Things]
<1>1. ASSUME InModal PROVE InTypes' /\ InOne'
  BY <1>1 DEF InModal
<1>2. ASSUME NEW kind \in {"load", "create", "remove"}, NEW thing \in Things \cup {0}, SetMove
      PROVE  InTask(setMoves', kind, thing) \in Tasks /\ InTask(setMoves', kind, thing).kind = kind
  <2>1. setMoves' \in 1..MaxSetMoves
    BY <1>2, SetMoveCounts
  <2>. QED
    BY <2>1 DEF InTask
<1>3. ASSUME InReload PROVE InTypes' /\ InOne'
  <2>1. /\ SetMove /\ UNCHANGED <<inStored, inList, inAdding>>
        /\ inTasks' = inTasks \cup {InTask(setMoves', "load", 0)}
    BY <1>3 DEF InReload
  <2>2. InTask(setMoves', "load", 0) \in Tasks /\ InTask(setMoves', "load", 0).kind = "load"
    BY <1>2, <2>1
  <2>3. Additions' = Additions
    BY <2>1, <2>2
  <2>4. InTypes'
    BY <2>1, <2>2
  <2>. QED
    BY <2>1, <2>3, <2>4
<1>4. ASSUME NEW thing \in Things, InCreate(thing) PROVE InTypes' /\ InOne'
  <2>1. /\ SetMove /\ UNCHANGED <<inStored, inList>>
        /\ inTasks' = inTasks \cup {InTask(setMoves', "create", thing)}
    BY <1>4 DEF InCreate
  <2>2. InTask(setMoves', "create", thing) \in Tasks /\ InTask(setMoves', "create", thing).kind = "create"
    BY <1>2, <2>1
  <2>6. InTask(setMoves', "create", thing).thing = thing
    BY DEF InTask
  <2>3. ~inAdding /\ inAdding'
    BY <1>4 DEF InCreate, InOffers
  <2>4. Additions' = {InTask(setMoves', "create", thing)}
    BY <2>1, <2>2, <2>3
  <2>5. InTypes'
    BY <2>1, <2>2
  <2>. QED
    BY <2>3, <2>4, <2>5, <2>6
<1>5. ASSUME NEW thing \in Things, InRemove(thing) PROVE InTypes' /\ InOne'
  <2>1. /\ SetMove /\ UNCHANGED <<inStored, inList, inAdding>>
        /\ inTasks' = inTasks \cup {InTask(setMoves', "remove", thing)}
    BY <1>5 DEF InRemove
  <2>2. InTask(setMoves', "remove", thing) \in Tasks /\ InTask(setMoves', "remove", thing).kind = "remove"
    BY <1>2, <2>1
  <2>3. Additions' = Additions
    BY <2>1, <2>2
  <2>4. InTypes'
    BY <2>1, <2>2
  <2>. QED
    BY <2>1, <2>3, <2>4
<1>6. ASSUME NEW k \in inTasks, InServed(k) PROVE InTypes' /\ InOne'
  <2> DEFINE task == [k EXCEPT !.phase = "answered", !.list = inStored']
  <2>1. inTasks' = (inTasks \ {k}) \cup {task} /\ UNCHANGED <<inList, inAdding>>
    BY <1>6 DEF InServed
  <2>2. /\ k \in Tasks /\ (k.kind = "create" => k.thing \in Things)
        /\ inStored' = CASE k.kind = "create" -> inStored \cup {k.thing}
                         [] k.kind = "remove" -> inStored \ {k.thing}
                         [] OTHER -> inStored
    BY <1>6 DEF InServed
  <2>3. inStored' \subseteq Things
    BY <2>2
  <2>4. task \in Tasks /\ task.kind = k.kind /\ task.thing = k.thing
    BY <2>2, <2>3
  <2> HIDE DEF task
  <2>5. InTypes'
    BY <2>1, <2>3, <2>4
  <2>6. CASE k.kind = "create"
    <3>1. Additions = {k}
      BY <2>6
    <3>2. Additions' = {task}
      BY <2>1, <2>4, <2>6, <3>1
    <3>. QED
      BY <2>1, <2>2, <2>4, <2>5, <2>6, <3>1, <3>2
  <2>7. CASE k.kind # "create"
    <3>1. Additions' = Additions
      BY <2>1, <2>4, <2>7
    <3>. QED
      BY <2>1, <2>5, <3>1
  <2>. QED
    BY <2>6, <2>7
<1>7. ASSUME NEW k \in inTasks, InLoaded(k) PROVE InTypes' /\ InOne'
  <2>1. /\ k.kind = "load" /\ inList' = k.list /\ inTasks' = inTasks \ {k}
        /\ UNCHANGED <<inStored, inAdding>>
    BY <1>7 DEF InLoaded
  <2>2. InTypes'
    BY <2>1
  <2>3. Additions' = Additions
    BY <2>1
  <2>. QED
    BY <2>1, <2>2, <2>3
<1>8. ASSUME NEW k \in inTasks, InCreated(k) PROVE InTypes' /\ InOne'
  <2>1. /\ k.kind = "create" /\ inList' = inList \cup {k.thing} /\ inTasks' = inTasks \ {k}
        /\ UNCHANGED inStored
    BY <1>8 DEF InCreated
  <2>2. InTypes'
    BY <2>1
  <2>3. Additions' = {}
    BY <2>1
  <2>4. ~inAdding'
    BY <1>8 DEF InCreated
  <2>. QED
    BY <2>2, <2>3, <2>4
<1>9. ASSUME NEW k \in inTasks, InRemoved(k) PROVE InTypes' /\ InOne'
  <2>1. /\ k.kind = "remove" /\ inList' = inList \ {k.thing} /\ inTasks' = inTasks \ {k}
        /\ UNCHANGED <<inStored, inAdding>>
    BY <1>9 DEF InRemoved
  <2>2. InTypes'
    BY <2>1
  <2>3. Additions' = Additions
    BY <2>1
  <2>. QED
    BY <2>1, <2>2, <2>3
<1>10. ASSUME NEW k \in inTasks, InFails(k) PROVE InTypes' /\ InOne'
  <2>1. inTasks' = inTasks \ {k} /\ UNCHANGED <<inStored, inList>>
    BY <1>10 DEF InFails
  <2>2. inAdding' <=> (inAdding /\ k.kind # "create")
    BY <1>10 DEF InFails
  <2>3. InTypes'
    BY <2>1
  <2>4. CASE k.kind = "create"
    <3>1. Additions' = {}
      BY <2>1, <2>4
    <3>. QED
      BY <2>2, <2>3, <2>4, <3>1
  <2>5. CASE k.kind # "create"
    <3>1. Additions' = Additions
      BY <2>1, <2>5
    <3>. QED
      BY <2>2, <2>3, <2>5, <3>1
  <2>. QED
    BY <2>4, <2>5
<1>. QED
  BY <1>1, <1>3, <1>4, <1>5, <1>6, <1>7, <1>8, <1>9, <1>10 DEF InNext

\* The moves of all pages are counted alike.
LEMMA SettingsMoves ==
  ASSUME setMoves \in 0..MaxSetMoves, SettingsNext
  PROVE  setMoves' \in 0..MaxSetMoves /\ setMoves' \in {setMoves, setMoves + 1}
<1>1. AccNext => SetMove \/ UNCHANGED setMoves
  BY DEF AccNext, MeLoaded, AccReload, AccTab, ProfType, ProfFile, ProfFileRead, ProfSave,
     ProfAnswered,
         PwType, PwSave, PwAnswered, SavedGoes
<1>2. AgNext => SetMove \/ UNCHANGED setMoves
  BY DEF AgNext, AgLoaded, AgEdit, AgSave, AgSaved, AgRemount
<1>3. KeyNext => SetMove \/ UNCHANGED setMoves
  BY DEF KeyNext, KeyModal, KeyRemount, KeySubmit, KeyCreated, KeyRotated, KeyRevoked,
     KeyTaskEnds
<1>4. HkNext => SetMove \/ UNCHANGED setMoves
  BY DEF HkNext, HookModal, HookRetry, HookRemount, HookSelect, HookSubmit, HookLoaded,
     HookCreated,
         HookRegenerated, HookRetried, HookDeliveries, HookTaskEnds
<1>5. InNext => SetMove \/ UNCHANGED setMoves
  BY DEF InNext, InModal, InReload, InCreate, InRemove, InServed, InLoaded, InCreated,
     InRemoved, InFails
<1>6. SetMove \/ UNCHANGED setMoves
  BY <1>1, <1>2, <1>3, <1>4, <1>5 DEF SettingsNext, OnlyAcc, OnlyAg, OnlyKey, OnlyHk, OnlyIn
<1>. QED
  BY <1>6, SetMoveCounts DEF SetMove

LEMMA FlagsStep == FlagsInv /\ [SettingsNext]_settingsVars => FlagsInv'
<1> SUFFICES ASSUME FlagsInv, [SettingsNext]_settingsVars PROVE FlagsInv'
  OBVIOUS
<1>1. /\ setMoves \in 0..MaxSetMoves /\ SettingsFlags
      /\ AccTypes /\ AgTypes /\ KeyTypes /\ HkTypes /\ InTypes
      /\ AccOne /\ AgOne /\ KeyOne /\ HookOne /\ InOne
  BY DEF FlagsInv, SettingsTypeOK
<1>2. ASSUME UNCHANGED accVars
      PROVE  /\ AccTypes' /\ AccOne'
             /\ profReading' \in BOOLEAN /\ profSaving' \in BOOLEAN /\ profSaved' \in BOOLEAN
             /\ pwSaving' \in BOOLEAN /\ pwSaved' \in BOOLEAN
  BY <1>1, <1>2 DEF accVars, AccTypes, AccOne, SettingsFlags
<1>3. ASSUME UNCHANGED agVars
      PROVE  /\ AgTypes' /\ AgOne'
             /\ agEditing' \in BOOLEAN /\ agDirty' \in BOOLEAN /\ agSaving' \in BOOLEAN
  BY <1>1, <1>3 DEF agVars, AgTypes, AgOne, AgentCalls, SettingsFlags
<1>4. ASSUME UNCHANGED keyVars
      PROVE  /\ KeyTypes' /\ KeyOne'
             /\ keyLoading' \in BOOLEAN /\ keySubmitting' \in BOOLEAN /\ keyCreateOpen' \in BOOLEAN
  BY <1>1, <1>4 DEF keyVars, KeyTypes, KeyOne, KeyCalls, SettingsFlags
<1>5. ASSUME UNCHANGED hkVars
      PROVE  /\ HkTypes' /\ HookOne'
             /\ hkLoading' \in BOOLEAN /\ hkOfLoading' \in BOOLEAN
             /\ hkCreateOpen' \in BOOLEAN /\ hkSubmitting' \in BOOLEAN
  BY <1>1, <1>5 DEF hkVars, HkTypes, HookOne, HookCalls, SettingsFlags
<1>6. ASSUME UNCHANGED inVars
      PROVE  /\ InTypes' /\ InOne'
             /\ inLoading' \in BOOLEAN /\ inAddOpen' \in BOOLEAN
             /\ inAdding' \in BOOLEAN /\ inKey' \in BOOLEAN
  BY <1>1, <1>6 DEF inVars, InTypes, InOne, Additions, SettingsFlags
<1>7. CASE UNCHANGED settingsVars
  <2>1. UNCHANGED setMoves /\ UNCHANGED accVars /\ UNCHANGED agVars /\ UNCHANGED keyVars
        /\ UNCHANGED hkVars /\ UNCHANGED inVars
    BY <1>7 DEF settingsVars
  <2>2. SettingsFlags'
    BY <2>1, <1>2, <1>3, <1>4, <1>5, <1>6, Zenon DEF SettingsFlags
  <2>3. setMoves' \in 0..MaxSetMoves
    BY <1>1, <2>1
  <2>. QED
    BY <2>1, <2>2, <2>3, <1>2, <1>3, <1>4, <1>5, <1>6, Zenon DEF FlagsInv, SettingsTypeOK
<1>8. CASE SettingsNext
  <2>1. setMoves' \in 0..MaxSetMoves
    BY <1>1, <1>8, SettingsMoves
  <2>2. ASSUME AccNext, UNCHANGED <<agVars, keyVars, hkVars, inVars>> PROVE FlagsInv'
    <3>1. AccTypes' /\ AccOne'
      BY <1>1, <2>2, AccStep
    <3>2. SettingsFlags'
      BY <1>1, <2>2, <1>3, <1>4, <1>5, <1>6, AccFlags, Zenon DEF SettingsFlags
    <3>. QED
      BY <2>1, <2>2, <3>1, <3>2, <1>3, <1>4, <1>5, <1>6, Zenon DEF FlagsInv, SettingsTypeOK
  <2>3. ASSUME AgNext, UNCHANGED <<accVars, keyVars, hkVars, inVars>> PROVE FlagsInv'
    <3>1. AgTypes' /\ AgOne'
      BY <1>1, <2>3, AgStep
    <3>2. SettingsFlags'
      BY <1>1, <2>3, <1>2, <1>4, <1>5, <1>6, AgFlags, Zenon DEF SettingsFlags
    <3>. QED
      BY <2>1, <2>3, <3>1, <3>2, <1>2, <1>4, <1>5, <1>6, Zenon DEF FlagsInv, SettingsTypeOK
  <2>4. ASSUME KeyNext, UNCHANGED <<accVars, agVars, hkVars, inVars>> PROVE FlagsInv'
    <3>1. KeyTypes' /\ KeyOne'
      BY <1>1, <2>4, KeyStep
    <3>2. SettingsFlags'
      BY <1>1, <2>4, <1>2, <1>3, <1>5, <1>6, KeyFlags, Zenon DEF SettingsFlags
    <3>. QED
      BY <2>1, <2>4, <3>1, <3>2, <1>2, <1>3, <1>5, <1>6, Zenon DEF FlagsInv, SettingsTypeOK
  <2>5. ASSUME HkNext, UNCHANGED <<accVars, agVars, keyVars, inVars>> PROVE FlagsInv'
    <3>1. HkTypes' /\ HookOne'
      BY <1>1, <2>5, HookStep
    <3>2. SettingsFlags'
      BY <1>1, <2>5, <1>2, <1>3, <1>4, <1>6, HookFlags, Zenon DEF SettingsFlags
    <3>. QED
      BY <2>1, <2>5, <3>1, <3>2, <1>2, <1>3, <1>4, <1>6, Zenon DEF FlagsInv, SettingsTypeOK
  <2>6. ASSUME InNext, UNCHANGED <<accVars, agVars, keyVars, hkVars>> PROVE FlagsInv'
    <3>1. InTypes' /\ InOne'
      BY <1>1, <2>6, InStep
    <3>2. SettingsFlags'
      BY <1>1, <2>6, <1>2, <1>3, <1>4, <1>5, InFlags, Zenon DEF SettingsFlags
    <3>. QED
      BY <2>1, <2>6, <3>1, <3>2, <1>2, <1>3, <1>4, <1>5, Zenon DEF FlagsInv, SettingsTypeOK
  <2>. QED
    BY <1>8, <2>2, <2>3, <2>4, <2>5, <2>6 DEF SettingsNext, OnlyAcc, OnlyAg, OnlyKey, OnlyHk,
       OnlyIn
<1>. QED
  BY <1>7, <1>8

LEMMA SettingsStep == SettingsInv /\ [SettingsNext]_settingsVars => SettingsInv'
<1> SUFFICES ASSUME SettingsInv, [SettingsNext]_settingsVars PROVE SettingsInv'
  OBVIOUS
<1>1. FlagsInv /\ FlagsInv'
  BY FlagsStep DEF SettingsInv
<1>2. setMoves \in 0..MaxSetMoves /\ KeyTypes /\ KeyOne /\ HkTypes /\ HookOne
  BY <1>1, Zenon DEF FlagsInv, SettingsTypeOK
<1>3. setMoves' \in {setMoves, setMoves + 1}
  BY <1>2, SettingsMoves DEF settingsVars
<1>4. KeyNext \/ UNCHANGED keyVars
  BY Zenon DEF SettingsNext, OnlyAcc, OnlyAg, OnlyKey, OnlyHk, OnlyIn, settingsVars
<1>5. HkNext \/ UNCHANGED hkVars
  BY Zenon DEF SettingsNext, OnlyAcc, OnlyAg, OnlyKey, OnlyHk, OnlyIn, settingsVars
<1>6. KeySecretInv'
  BY <1>2, <1>3, <1>4, KeySecretStep DEF SettingsInv
<1>7. HookSecretInv'
  BY <1>2, <1>3, <1>5, HookSecretStep DEF SettingsInv
<1>. QED
  BY <1>1, <1>6, <1>7 DEF SettingsInv

\* For any number of clicks, cancelled modals and mounts: of the requests that one
\* saving flag guards, one at most is under way, the flag is set exactly while it or
\* the loading after it runs, and a secret that is shown is not replaced by that of an
\* older request (UserSettingsPage, ProfileTab, ApiKeysTab, WebhooksTab,
\* AddIntegrationModal).
THEOREM FlagGuardsOneCall == SettingsSpec => []OneCallPerFlag
<1>. QED
  BY SettingsInitially, SettingsStep, SettingsInvCounts, PTL DEF SettingsSpec

-----------------------------------------------------------------------------
(* What is paid for.  That a name shown as free was asked for rests on the  *)
(* answers of earlier inputs having an earlier number; that the welcome     *)
(* page settles, on what its first answer finds and its timer's end.        *)

\* The check under way last is about the name that is typed, if it can be claimed.
SubInv ==
  /\ subMount \in Nat
  /\ subState \in {"available", "taken"} /\ subInput \in SubNames => subFor = subInput
  /\ subClaiming => [name |-> subInput, mount |-> subMount] \in subClaims
  /\ subDue # 0 => subDue = subId /\ subInput \in SubNames
  /\ \A a \in subAsks : a.id = subId /\ subInput \in SubNames => a.name = subInput

\* Nothing has happened before the first answer.
WelcomeInv ==
  /\ wlFirst => ~wlInterval /\ ~wlConfirmed /\ ~wlTimedOut /\ wlLoading /\ wlPolls = 0
  /\ ~wlGone => /\ wlConfirmed => ~wlLoading /\ ~wlTimedOut /\ ~wlInterval
                /\ ~wlConfirmed => (wlTimedOut <=> ~wlLoading)
                /\ wlTimedOut => wlElapsed /\ ~wlInterval
                /\ wlLoading => wlFirst \/ wlInterval \/ wlSafety = "fired"

BillInv == BillingTypeOK /\ SubInv /\ WelcomeInv

\* The invariant implies the properties.
LEMMA BillInvImplies == BillInv => SubdomainOfName /\ WelcomeSettles
<1> SUFFICES ASSUME BillInv PROVE SubdomainOfName /\ WelcomeSettles
  OBVIOUS
<1>1. SubdomainOfName
  BY DEF BillInv, SubInv, SubdomainOfName
<1>2. WelcomeSettles
  BY DEF BillInv, BillingTypeOK, WelcomeInv, WelcomeTypes, WelcomeSettles, WelcomeView
<1>. QED
  BY <1>1, <1>2

LEMMA BillInitially == BillingInit => BillInv
<1> SUFFICES ASSUME BillingInit PROVE BillInv
  OBVIOUS
<1>1. 0 \in 0..MaxBillMoves
  BY BillConstantsOK DEF BillConstantsOK
<1>2. BillTypes /\ SubTypes /\ SubInv
  <2>1. BillInit /\ SubInit
    BY DEF BillingInit, BillInit
  <2>2. billLoads \in Nat /\ subId \in Nat /\ subDue \in 0..subId /\ checkouts \in Nat
    BY <2>1 DEF BillInit, SubInit
  <2>3. subInput \in Typed /\ subFor \in Typed
    BY <2>1 DEF SubInit, Typed
  <2>4. SubTypes /\ BillTypes
    BY <2>1, <2>2, <2>3 DEF BillInit, SubInit, SubTypes, BillTypes
  <2>. QED
    BY <2>1, <2>4 DEF BillInit, SubInit, SubInv
<1>3. PriceTypes
  BY DEF BillingInit, PriceInit, PriceTypes
<1>4. WelcomeTypes /\ WelcomeInv
  BY DEF BillingInit, WelcomeInit, WelcomeTypes, WelcomeInv
<1>5. TunnelTypes
  BY DEF BillingInit, TunnelInit, TunnelTypes
<1>6. PairTypes
  BY <1>1 DEF BillingInit, PairInit, PairTypes
<1>. QED
  BY <1>1, <1>2, <1>3, <1>4, <1>5, <1>6 DEF BillingInit, BillInv, BillingTypeOK

\* Every move keeps the count of moves within its bound.
LEMMA BillMoveCounts ==
  ASSUME billMoves \in 0..MaxBillMoves, BillMove
  PROVE  billMoves' \in 0..MaxBillMoves /\ billMoves' \in 1..MaxBillMoves
BY BillConstantsOK DEF BillConstantsOK, BillMove

\* The effect of the typed name starts a new check, or none.
LEMMA EffectKeeps ==
  ASSUME SubTypes, SubInv, NEW plan, NEW claimed, NEW change, NEW name \in Typed,
         SubEffect(plan, claimed, change, name), UNCHANGED subAsks,
         name = subInput \/ subState' # "idle" \/ name \notin SubNames
  PROVE  /\ subState' \in {"idle", "invalid", "checking"}
         /\ subId' \in Nat /\ subDue' \in 0..subId'
         /\ subDue' # 0 => subDue' = subId' /\ name \in SubNames
         /\ \A a \in subAsks' : /\ a.id \in 1..subId' /\ a.name \in SubNames
                                /\ a.id = subId' /\ name \in SubNames => a.name = name
<1> USE DEF SubTypes, SubInv
<1>1. CASE subState' = "checking"
  <2>1. name \in SubNames /\ subId' = subId + 1 /\ subDue' = subId'
    BY <1>1 DEF SubEffect, Verdict
  <2>. QED
    BY <1>1, <2>1
<1>2. CASE subState' # "checking"
  <2>1. subId' = subId /\ subDue' = 0 /\ subState' \in {"idle", "invalid"}
    BY <1>2 DEF SubEffect, Verdict
  <2>2. name \notin SubNames \/ name = subInput
    BY <1>2, BillConstantsOK DEF SubEffect, Verdict, BillConstantsOK, Typed
  <2>. QED
    BY <2>1, <2>2
<1>. QED
  BY <1>1, <1>2

\* A section that is left starts again with nothing under way.
LEMMA LeftKeeps ==
  ASSUME SubTypes, SubInv, SubLeft
  PROVE  /\ SubInv' /\ subInput' \in Typed /\ subFor' \in Typed /\ subState' = "idle"
         /\ subId' = 0 /\ subDue' \in 0..subId' /\ subAsks' = {}
         /\ subClaiming' = FALSE /\ subChange' = FALSE /\ subMount' \in Nat /\ subMount' > subMount
BY DEF SubTypes, SubInv, SubLeft, Typed

\* The section's steps that start a check, or change what it may check.
LEMMA EffectSteps ==
  ASSUME billMoves \in 0..MaxBillMoves, SubTypes, SubInv,
         SubType \/ SubChangeAsked
  PROVE  SubTypes' /\ SubInv' /\ billMoves' \in 0..MaxBillMoves
<1> USE DEF payVars
<1>1. PICK change \in BOOLEAN : /\ SubEffect(billPlan, billClaimed, change, subInput')
                                /\ subChange' \in BOOLEAN
  BY DEF SubType, SubChangeAsked, SubTypes
<1>2. UNCHANGED <<setTab, billPlan, billClaimed, billLoads, billLoading, billError, payVars,
                  subFor, subAsks, subClaiming, subMount, subClaims>>
  BY DEF SubType, SubChangeAsked
<1>3. subInput' \in Typed /\ billMoves' \in 0..MaxBillMoves
  <2>1. subInput' \in Typed
    BY DEF SubType, SubChangeAsked, SubTypes
  <2>2. BillMove
    BY DEF SubType, SubChangeAsked
  <2>. QED
    BY <2>1, <2>2, BillMoveCounts
<1>4. subInput' = subInput \/ (~subClaiming /\ subState' # "idle") \/ (~subClaiming /\ subInput' \notin SubNames)
  BY DEF SubType, SubChangeAsked, SubEffect, SubForm, Verdict
<1>5. /\ subState' \in {"idle", "invalid", "checking"}
      /\ subId' \in Nat /\ subDue' \in 0..subId'
      /\ subDue' # 0 => subDue' = subId' /\ subInput' \in SubNames
      /\ \A a \in subAsks' : /\ a.id \in 1..subId' /\ a.name \in SubNames
                             /\ a.id = subId' /\ subInput' \in SubNames => a.name = subInput'
  BY <1>1, <1>2, <1>3, <1>4, EffectKeeps
<1>. QED
  BY <1>1, <1>2, <1>3, <1>4, <1>5 DEF SubTypes, SubInv

\* The steps of the billing tab beside it.
LEMMA BillTabStep ==
  ASSUME billMoves \in 0..MaxBillMoves, BillTypes, BillNext
  PROVE  BillTypes' /\ billMoves' \in 0..MaxBillMoves
<1> USE DEF payVars
<1>1. BillMove \/ UNCHANGED billMoves
  BY DEF BillNext, SubType, SubChangeAsked, SubTimer, SubClaim, SubAnswered, SubClaimed,
     SubClaimFails, SetTab,
         BillLoaded, BillLoadFails, BillRetry, CheckoutStart, CheckoutAnswered, PortalOpen, PortalAnswered
<1>2. ASSUME UNCHANGED <<setTab, billPlan, billClaimed, billLoads, billLoading, billError, payVars>>
      PROVE  BillTypes'
  BY <1>2 DEF BillTypes
<1>3. billLoads' \in Nat /\ checkouts' \in Nat
  <2>1. billLoads' \in {billLoads, billLoads + 1, 1} \/ (billLoads > 0 /\ billLoads' = billLoads - 1)
    BY DEF BillNext, SubType, SubChangeAsked, SubTimer, SubClaim, SubAnswered, SubClaimed,
       SubClaimFails, SetTab,
           BillLoaded, BillLoadFails, BillRetry, CheckoutStart, CheckoutAnswered, PortalOpen, PortalAnswered,
           LoadStarts, BillReturns
  <2>2. checkouts' \in {checkouts, checkouts + 1, 0} \/ (checkouts > 0 /\ checkouts' = checkouts - 1)
    BY DEF BillNext, SubType, SubChangeAsked, SubTimer, SubClaim, SubAnswered, SubClaimed,
       SubClaimFails, SetTab,
           BillLoaded, BillLoadFails, BillRetry, CheckoutStart, CheckoutAnswered, PortalOpen, PortalAnswered,
           LoadStarts, BillReturns
  <2>. QED
    BY <2>1, <2>2 DEF BillTypes
<1>4. ASSUME NEW c \in subClaims, SubClaimed(c) PROVE BillTypes'
  BY <1>3, <1>4, Zenon DEF SubClaimed, LoadStarts, BillTypes
<1>5. ASSUME NEW t \in {"profile", "billing"}, SetTab(t) PROVE BillTypes'
  BY <1>3, <1>5, Zenon DEF SetTab, LoadStarts, BillTypes
<1>6. ASSUME NEW plan \in Plans, NEW claimed \in BOOLEAN, BillLoaded(plan, claimed) PROVE BillTypes'
  BY <1>3, <1>6, Zenon DEF BillLoaded, BillTypes
<1>7. ASSUME BillLoadFails \/ BillRetry PROVE BillTypes'
  BY <1>3, <1>7, Zenon DEF BillLoadFails, BillRetry, LoadStarts, BillTypes
<1>8. ASSUME BillReturns PROVE BillTypes'
  BY <1>3, <1>8, Zenon DEF BillReturns, BillTypes
<1>9. ASSUME CheckoutStart \/ CheckoutAnswered \/ PortalOpen \/ PortalAnswered PROVE BillTypes'
  BY <1>3, <1>8, <1>9, Zenon DEF CheckoutStart, CheckoutAnswered, PortalOpen, PortalAnswered,
     BillTypes
<1>10. BillTypes'
  BY <1>2, <1>4, <1>5, <1>6, <1>7, <1>9 DEF BillNext, SubType, SubChangeAsked, SubTimer,
     SubClaim,
     SubAnswered, SubClaimFails
<1>. QED
  BY <1>1, <1>10, BillMoveCounts

\* The steps of the subdomain's section, and those that leave or renew it.
LEMMA SubStep ==
  ASSUME billMoves \in 0..MaxBillMoves, BillTypes, SubTypes, SubInv, BillNext
  PROVE  SubTypes' /\ SubInv'
<1> USE DEF payVars
<1>1. ASSUME SubTimer PROVE SubTypes' /\ SubInv'
  BY <1>1 DEF SubTimer, SubTypes, SubInv
<1>2. ASSUME SubClaim PROVE SubTypes' /\ SubInv'
  BY <1>2 DEF SubClaim, SubTypes, SubInv
<1>3. ASSUME NEW a \in subAsks, SubAnswered(a) PROVE SubTypes' /\ SubInv'
  <2>1. a.id \in 1..subId /\ a.name \in SubNames /\ subAsks' \subseteq subAsks
    BY <1>3 DEF SubAnswered, SubTypes
  <2>2. SubTypes'
    BY <1>3, <2>1 DEF SubAnswered, SubTypes, Typed
  <2>3. SubInv'
    BY <1>3, <2>1 DEF SubAnswered, Current, SubInv
  <2>. QED
    BY <2>2, <2>3
<1>4. ASSUME NEW c \in subClaims, SubClaimFails(c) PROVE SubTypes' /\ SubInv'
  <2>1. subClaiming' \in BOOLEAN /\ (subClaiming' => subClaiming /\ c # [name |-> subInput, mount |-> subMount])
    <3>1. subClaiming' = (subClaiming /\ c.mount # subMount)
      BY <1>4 DEF SubClaimFails
    <3>2. c.mount # subMount => c # [name |-> subInput, mount |-> subMount]
      OBVIOUS
    <3>. QED
      BY <3>1, <3>2, Zenon
  <2>2. /\ UNCHANGED <<subMount, subState, subInput, subFor, subDue, subId, subAsks, subChange>>
        /\ subClaims' = subClaims \ {c}
    BY <1>4 DEF SubClaimFails
  <2>. QED
    BY <2>1, <2>2 DEF SubInv, SubTypes
<1>5. ASSUME SubLeft, subClaims' \subseteq subClaims PROVE SubTypes' /\ SubInv'
  <2>1. \A c \in subClaims' : c.name \in Typed /\ c.mount \in 0..subMount'
    <3>1. subMount \in Nat /\ subMount' \in Nat /\ subMount' > subMount
      BY <1>5, LeftKeeps DEF SubInv
    <3>2. \A c \in subClaims : c.name \in Typed /\ c.mount \in 0..subMount
      BY DEF SubTypes
    <3>. QED
      BY <1>5, <3>1, <3>2
  <2>2. subId' \in Nat
    BY <1>5, LeftKeeps
  <2>. QED
    BY <1>5, <2>1, <2>2, LeftKeeps DEF SubTypes
<1>6. ASSUME NEW plan \in Plans, NEW claimed \in BOOLEAN, BillLoaded(plan, claimed) PROVE SubTypes' /\ SubInv'
  <2>1. UNCHANGED <<subInput, subFor, subAsks, subClaiming, subChange, subMount, subClaims>>
    BY <1>6 DEF BillLoaded
  <2>2. CASE UNCHANGED <<subState, subId, subDue>>
    BY <2>1, <2>2 DEF SubTypes, SubInv
  <2>3. CASE SubEffect(plan, claimed, subChange, subInput)
    <3>1. subInput \in Typed
      BY DEF SubTypes
    <3>2. /\ subState' \in {"idle", "invalid", "checking"}
          /\ subId' \in Nat /\ subDue' \in 0..subId'
          /\ subDue' # 0 => subDue' = subId' /\ subInput \in SubNames
          /\ \A a \in subAsks' : /\ a.id \in 1..subId' /\ a.name \in SubNames
                                 /\ a.id = subId' /\ subInput \in SubNames => a.name = subInput
      BY <2>1, <2>3, <3>1, EffectKeeps
    <3>. QED
      BY <2>1, <3>2 DEF SubTypes, SubInv
  <2>. QED
    BY <1>6, <2>2, <2>3 DEF BillLoaded
<1>7. ASSUME CheckoutStart \/ CheckoutAnswered \/ PortalOpen \/ PortalAnswered
      PROVE  (SubLeft /\ subClaims' = {}) \/ UNCHANGED <<subVars, subClaims>>
  BY <1>7, Zenon DEF CheckoutStart, CheckoutAnswered, PortalOpen, PortalAnswered, BillReturns
<1>8. ASSUME \/ \E c \in subClaims : SubClaimed(c)
             \/ \E t \in {"profile", "billing"} : SetTab(t)
             \/ BillLoadFails \/ BillRetry
      PROVE  SubLeft /\ subClaims' \subseteq subClaims
  BY <1>8 DEF SubClaimed, SetTab, BillLoadFails, BillRetry, LoadStarts
<1>9. ASSUME UNCHANGED <<subVars, subClaims>> PROVE SubTypes' /\ SubInv'
  BY <1>9 DEF subVars, SubTypes, SubInv
<1>. QED
  BY <1>1, <1>2, <1>3, <1>4, <1>5, <1>6, <1>7, <1>8, <1>9, EffectSteps DEF BillNext

\* The other pages.
LEMMA PriceStep ==
  ASSUME PriceTypes, PriceNext
  PROVE  PriceTypes'
<1>1. prAsks' \in Nat
  BY DEF PriceNext, PricePlan, PriceCheckout, PriceBannerGoes, PriceAnswered, PriceReturns,
     PriceTypes
<1>2. prPlan' \in Plans \cup {"none"} /\ prBanner' \in {"none", "upgraded", "canceled"}
  BY DEF PriceNext, PricePlan, PriceCheckout, PriceBannerGoes, PriceAnswered, PriceReturns,
     PriceTypes
<1>3. prAuthed' \in BOOLEAN /\ prAsked' \in BOOLEAN /\ prLoading' \in BOOLEAN
  BY Zenon DEF PriceNext, PricePlan, PriceCheckout, PriceBannerGoes, PriceAnswered,
     PriceReturns, PriceTypes
<1>. QED
  BY <1>1, <1>2, <1>3 DEF PriceTypes

\* The page after a payment.
LEMMA WelcomeStep ==
  ASSUME WelcomeTypes, WelcomeInv, WelcomeNext
  PROVE  WelcomeTypes' /\ WelcomeInv'
<1> USE DEF WelcomeTypes, WelcomeInv
<1>1. ASSUME NEW paid \in BOOLEAN, WelcomeFirst(paid) PROVE WelcomeTypes' /\ WelcomeInv'
  BY <1>1 DEF WelcomeFirst, PollApplied
<1>2. ASSUME NEW paid \in BOOLEAN, WelcomePolled(paid) PROVE WelcomeTypes' /\ WelcomeInv'
  <2>1. wlPolls' \in Nat /\ ~wlFirst /\ ~wlFirst'
    BY <1>2 DEF WelcomePolled
  <2>. QED
    BY <1>2, <2>1 DEF WelcomePolled, PollApplied
<1>3. ASSUME WelcomeTick PROVE WelcomeTypes' /\ WelcomeInv'
  <2>1. CASE wlElapsed
    <3>1. wlPolls' = wlPolls /\ wlConfirmed' = wlConfirmed /\ wlFirst' = wlFirst
          /\ wlElapsed' = wlElapsed /\ wlGone' = wlGone /\ wlInterval /\ wlInterval' = FALSE
          /\ wlSafety' = wlSafety
      BY <1>3, <2>1, Zenon DEF WelcomeTick
    <3>2. \/ wlGone /\ wlTimedOut' = wlTimedOut /\ wlLoading' = wlLoading
          \/ ~wlGone /\ wlTimedOut' = TRUE /\ wlLoading' = FALSE
      BY <1>3, <2>1, Zenon DEF WelcomeTick
    <3>3. wlTimedOut' \in BOOLEAN /\ wlLoading' \in BOOLEAN
      BY <3>2
    <3>4. wlPolls' \in Nat /\ wlInterval' \in BOOLEAN
      BY <3>1
    <3>5. WelcomeTypes'
      BY <3>1, <3>3, <3>4, Zenon
    <3>6. ~wlFirst
      BY <3>1
    <3>7. wlGone' \/ (~wlConfirmed' /\ wlTimedOut' /\ ~wlLoading' /\ ~wlInterval')
      BY <3>1, <3>2
    <3>. QED
      BY <2>1, <3>1, <3>5, <3>6, <3>7
  <2>2. CASE ~wlElapsed
    <3>1. wlConfirmed' = wlConfirmed /\ wlFirst' = wlFirst /\ wlTimedOut' = wlTimedOut
          /\ wlElapsed' = wlElapsed /\ wlGone' = wlGone /\ wlInterval' = wlInterval
          /\ wlLoading' = wlLoading /\ wlInterval /\ wlPolls' = wlPolls + 1 /\ wlSafety' = wlSafety
      BY <1>3, <2>2, Zenon DEF WelcomeTick
    <3>2. wlPolls' \in Nat
      BY <3>1
    <3>3. WelcomeTypes'
      BY <3>1, <3>2, Zenon
    <3>. QED
      BY <3>1, <3>3, Zenon
  <2>. QED
    BY <2>1, <2>2
<1>4. ASSUME WelcomeElapses \/ WelcomeLeft PROVE WelcomeTypes' /\ WelcomeInv'
  <2>1. wlPolls' = wlPolls /\ wlFirst' = wlFirst /\ wlInterval' = wlInterval /\ wlConfirmed' = wlConfirmed
        /\ wlTimedOut' = wlTimedOut /\ wlLoading' = wlLoading /\ wlSafety' = wlSafety
        /\ wlElapsed' \in BOOLEAN /\ wlGone' \in BOOLEAN /\ (wlGone => wlGone')
        /\ (wlElapsed => wlElapsed')
    BY <1>4, Zenon DEF WelcomeElapses, WelcomeLeft
  <2>. QED
    BY <2>1, Zenon
<1>5. ASSUME WelcomeSafety PROVE WelcomeTypes' /\ WelcomeInv'
  BY <1>5 DEF WelcomeSafety
<1>. QED
  BY <1>1, <1>2, <1>3, <1>4, <1>5 DEF WelcomeNext

\* The tunnel's and the pairing page: only types.
LEMMA TunnelStep ==
  ASSUME TunnelTypes, TunnelNext
  PROVE  TunnelTypes'
BY DEF TunnelTypes, TunnelNext, TunnelType, TunnelCheck, TunnelSave, TunnelCheckout,
   TunnelCheckoutFails,
       TunnelChecked, TunnelSaved

LEMMA PairStep ==
  ASSUME PairTypes, billMoves \in 0..MaxBillMoves, PairNext
  PROVE  PairTypes'
<1>1. ASSUME NEW how \in {"refresh", "reload"}, PairAsk(how) PROVE PairTypes'
  <2>1. billMoves' \in 0..MaxBillMoves
    BY <1>1, BillMoveCounts DEF PairAsk
  <2>2. pairLoading' \in BOOLEAN
    BY <1>1 DEF PairAsk
  <2>3. pairShown' = pairShown /\ pairAsks' = pairAsks \cup {[how |-> how, nr |-> billMoves']}
    BY <1>1 DEF PairAsk
  <2>. QED
    BY <2>1, <2>2, <2>3 DEF PairTypes
<1>2. ASSUME NEW a \in pairAsks, PairAnswered(a) PROVE PairTypes'
  BY <1>2 DEF PairAnswered, PairTypes
<1>. QED
  BY <1>1, <1>2 DEF PairNext

\* The moves of all pages are counted alike.
LEMMA OtherMoves ==
  ASSUME billMoves \in 0..MaxBillMoves, PriceNext \/ WelcomeNext \/ TunnelNext \/ PairNext
  PROVE  billMoves' \in 0..MaxBillMoves
<1>1. BillMove \/ UNCHANGED billMoves
  BY DEF PriceNext, PricePlan, PriceCheckout, PriceBannerGoes, PriceAnswered,
         WelcomeNext, WelcomeFirst, WelcomePolled, WelcomeTick, WelcomeElapses, WelcomeSafety,
         WelcomeLeft, TunnelNext, TunnelType, TunnelCheck, TunnelSave, TunnelCheckout, TunnelCheckoutFails,
         TunnelChecked, TunnelSaved, PairNext, PairAsk, PairAnswered
<1>. QED
  BY <1>1, BillMoveCounts

LEMMA BillingStep == BillInv /\ [BillingNext]_billingVars => BillInv'
<1> SUFFICES ASSUME BillInv, [BillingNext]_billingVars PROVE BillInv'
  OBVIOUS
<1> USE DEF BillInv, BillingTypeOK
<1>1. ASSUME UNCHANGED billVars PROVE BillTypes' /\ SubTypes' /\ SubInv'
  BY <1>1 DEF billVars, payVars, subVars, BillTypes, SubTypes, SubInv
<1>2. ASSUME UNCHANGED priceVars PROVE PriceTypes'
  BY <1>2 DEF priceVars, PriceTypes
<1>3. ASSUME UNCHANGED welcomeVars PROVE WelcomeTypes' /\ WelcomeInv'
  BY <1>3 DEF welcomeVars, WelcomeTypes, WelcomeInv
<1>4. ASSUME UNCHANGED tunnelVars PROVE TunnelTypes'
  BY <1>4 DEF tunnelVars, TunnelTypes
<1>5. ASSUME UNCHANGED pairVars PROVE PairTypes'
  BY <1>5 DEF pairVars, PairTypes
<1>6. CASE OnlyBill(BillNext)
  BY <1>2, <1>3, <1>4, <1>5, <1>6, BillTabStep, SubStep DEF OnlyBill
<1>7. CASE OnlyPrice(PriceNext)
  BY <1>1, <1>3, <1>4, <1>5, <1>7, PriceStep, OtherMoves DEF OnlyPrice
<1>8. CASE OnlyWelcome(WelcomeNext)
  BY <1>1, <1>2, <1>4, <1>5, <1>8, WelcomeStep, OtherMoves DEF OnlyWelcome
<1>9. CASE OnlyTunnel(TunnelNext)
  BY <1>1, <1>2, <1>3, <1>5, <1>9, TunnelStep, OtherMoves DEF OnlyTunnel
<1>10. CASE OnlyPair(PairNext)
  BY <1>1, <1>2, <1>3, <1>4, <1>10, PairStep, OtherMoves DEF OnlyPair
<1>11. CASE UNCHANGED billingVars
  BY <1>1, <1>2, <1>3, <1>4, <1>5, <1>11 DEF billingVars
<1>. QED
  BY <1>6, <1>7, <1>8, <1>9, <1>10, <1>11 DEF BillingNext

\* For any set of names and any number of edits: a name that could be claimed is said
\* to be available, or taken, only on an answer about this very name, and stays in
\* the box while it is claimed (UserSettingsPage's subdomain section).
THEOREM SubdomainChecked == BillingSpec => []SubdomainOfName
<1>. QED
  BY BillInitially, BillingStep, BillInvImplies, PTL DEF BillingSpec

\* For any number of polls: the page after a payment, once it has confirmed, welcomes
\* for good and polls no more, gives up only after 30 s, and goes on confirming
\* without a poll to come only if its first one is unanswered or the safety timeout
\* came before the last tick (WelcomePage.tsx).
THEOREM WelcomeStays == BillingSpec => []WelcomeSettles
<1>. QED
  BY BillInitially, BillingStep, BillInvImplies, PTL DEF BillingSpec
=============================================================================
