----------------------------- MODULE WebSession -----------------------------
(***************************************************************************)
(* Browser tabs of the web client up to the chat page: which instance each *)
(* talks to (services/apiConfig.ts), the token they share in localStorage  *)
(* (services/authService.ts), and the pages that obtain one: sign in,      *)
(* invite, forgotten password, new password.  A tab keeps its instance in  *)
(* memory from its start; what is stored may be changed by another tab.    *)
(* A token is the instance that issued it and a number; whether it has      *)
(* expired by the time it is looked at, and the validity of what is typed  *)
(* into a form, are choices.                                               *)
(***************************************************************************)
EXTENDS Integers, FiniteSets

CONSTANTS Tabs, Instances, DefaultInstance, SessNone,
          MaxOpens,    \* links opened
          MaxTokens,   \* tokens issued
          MaxAsks,     \* requests sent
          MaxPages     \* pages a tab goes through

ASSUME SessionConstantsOK ==
  /\ DefaultInstance \in Instances /\ SessNone \notin Instances
  /\ MaxOpens \in Nat /\ MaxTokens \in Nat /\ MaxAsks \in Nat /\ MaxPages \in Nat

VARIABLES
  stInstance, stToken, stUser,  \* localStorage: instance, auth-token, user-id
  tabPage,      \* the page of each tab, "loading" before its start
  tabLink,      \* the link it was opened with: page, instance, token
  tabInstance,  \* ApiConfig.instanceUrl
  tabForm,      \* the form of the page: "idle", "sending", "done", "error"
  tabInvite,    \* InviteAcceptPage: "none", "asked", "known", "unknown"
  tabAsks,      \* requests under way: kind, instance, token, and the page's number
  tabMount,     \* how many pages the tab has shown
  tabLeaves,    \* ResetPasswordPage's timer to the sign-in page runs
  sessOpens, sessTokens, sessAsks,
  sessSent      \* history: link and instance of every request of a link with a token

sessStore == <<stInstance, stToken, stUser>>
sessCounts == <<sessOpens, sessTokens, sessAsks>>
sessVars == <<sessStore, tabPage, tabLink, tabInstance, tabForm, tabInvite, tabAsks, tabMount,
              tabLeaves, sessCounts, sessSent>>

NoToken == [at |-> SessNone, nr |-> 0]
NoLink == [page |-> "closed", instance |-> SessNone, token |-> "none"]

\* A link names no instance, one that is no http URL, or one.
Links == {l \in [page : {"login", "chat", "invite", "reset", "forgot"},
                 instance : Instances \cup {SessNone, "bad"}, token : {"none", "jwt", "other"}] :
            /\ l.token = "jwt" => l.page = "chat"
            /\ l.token = "other" => l.page \in {"invite", "reset"}}

\* loadInstanceUrl
StoredInstance == IF stInstance = SessNone THEN DefaultInstance ELSE stInstance

SessInit ==
  /\ stInstance \in Instances \cup {SessNone}
  /\ stToken = NoToken /\ stUser = 0
  /\ tabPage = [t \in Tabs |-> "closed"] /\ tabLink = [t \in Tabs |-> NoLink]
  /\ tabInstance = [t \in Tabs |-> StoredInstance]
  /\ tabForm = [t \in Tabs |-> "idle"] /\ tabInvite = [t \in Tabs |-> "none"]
  /\ tabAsks = [t \in Tabs |-> {}] /\ tabMount = [t \in Tabs |-> 0]
  /\ tabLeaves = [t \in Tabs |-> FALSE]
  /\ sessOpens = 0 /\ sessTokens = 0 /\ sessAsks = 0 /\ sessSent = {}

\* The page is loaded from its address: memory is lost, requests and timers with it.
Load(t, link) ==
  /\ tabPage' = [tabPage EXCEPT ![t] = "loading"]
  /\ tabLink' = [tabLink EXCEPT ![t] = link]
  /\ tabMount' = [tabMount EXCEPT ![t] = @ + 1]
  /\ tabForm' = [tabForm EXCEPT ![t] = "idle"]
  /\ tabInvite' = [tabInvite EXCEPT ![t] = "none"]
  /\ tabAsks' = [tabAsks EXCEPT ![t] = {}]
  /\ tabLeaves' = [tabLeaves EXCEPT ![t] = FALSE]

TabOpens(t, link) ==
  /\ sessOpens < MaxOpens
  /\ sessOpens' = sessOpens + 1
  /\ Load(t, link)
  /\ tabInstance' = [tabInstance EXCEPT ![t] = StoredInstance]
  /\ UNCHANGED <<sessStore, sessTokens, sessAsks, sessSent>>

\* parseFromUrlParams: an address that is no http URL counts as none.
NamedInstance(link) == IF link.instance \in Instances THEN link.instance ELSE SessNone

\* Mutant of Applied: a link with a token and no instance keeps the last one.
AppliedWithoutReset(link, current) ==
  IF NamedInstance(link) # SessNone THEN NamedInstance(link) ELSE current

\* applyUrlParams: the instance the link names; the default for a token without one.
Applied(link, current) ==
  CASE NamedInstance(link) # SessNone -> NamedInstance(link)
    [] NamedInstance(link) = SessNone /\ link.token # "none" -> DefaultInstance
    [] OTHER -> current

\* setBaseUrl stores it, resetToDefault removes what is stored; no change, no write.
Stored(t, link) ==
  LET now == Applied(link, tabInstance[t]) IN
  CASE now = tabInstance[t] -> stInstance
    [] now # tabInstance[t] /\ NamedInstance(link) # SessNone -> now
    [] OTHER -> SessNone

\* Where an address leads: ProtectedRoute lets a tab with a token through to the chat,
\* unless the token has expired by now.
Routes(page, token) ==
  IF page # "chat" THEN {page} ELSE IF token = NoToken THEN {"login"} ELSE {"chat", "login"}

\* autoLogin stores a JWT unasked.
AutoLogin(instance) ==
  /\ sessTokens < MaxTokens
  /\ sessTokens' = sessTokens + 1
  /\ stToken' = [at |-> instance, nr |-> sessTokens']

\* initializeApp: a JWT in the address leads to the chat.
TabStarts(t) ==
  /\ tabPage[t] = "loading"
  /\ tabInstance' = [tabInstance EXCEPT ![t] = Applied(tabLink[t], @)]
  /\ stInstance' = Stored(t, tabLink[t])
  /\ IF tabLink[t].token = "jwt" THEN AutoLogin(tabInstance'[t]) ELSE UNCHANGED <<sessTokens, stToken>>
  /\ \E page \in Routes(tabLink[t].page, stToken') : tabPage' = [tabPage EXCEPT ![t] = page]
  /\ UNCHANGED <<stUser, tabLink, tabForm, tabInvite, tabAsks, tabMount, tabLeaves, sessOpens, sessAsks,
                 sessSent>>

\* A request of the tab goes to an instance, with the token as it is now.
Ask(t, kind, instance) ==
  /\ sessAsks < MaxAsks
  /\ sessAsks' = sessAsks + 1
  /\ tabAsks' = [tabAsks EXCEPT ![t] =
                   @ \cup {[kind |-> kind, at |-> instance, token |-> stToken, page |-> tabMount[t]]}]
  /\ sessSent' = IF kind \in {"lookup", "accept", "reset"}
                 THEN sessSent \cup {[link |-> tabLink[t], at |-> instance]} ELSE sessSent

\* The page that asked is still there.
Shows(t, a) == a.page = tabMount[t]

Answered(t, a) == tabAsks' = [tabAsks EXCEPT ![t] = @ \ {a}]

\* A token is issued, stored, and the tab goes on to the chat: it has not expired yet.
SignedIn(t, a) ==
  /\ sessTokens < MaxTokens
  /\ sessTokens' = sessTokens + 1
  /\ stToken' = [at |-> a.at, nr |-> sessTokens']
  /\ stUser' = sessTokens'
  /\ tabPage' = [tabPage EXCEPT ![t] = "chat"]
  /\ tabForm' = [tabForm EXCEPT ![t] = "idle"]
  /\ tabMount' = [tabMount EXCEPT ![t] = @ + 1]

-----------------------------------------------------------------------------
(* The invite page *)

\* Its effect applies the address once more and looks the invite up.
InviteLooksUp(t) ==
  /\ tabPage[t] = "invite" /\ tabInvite[t] = "none"
  /\ tabInstance' = [tabInstance EXCEPT ![t] = Applied(tabLink[t], @)]
  /\ stInstance' = Stored(t, tabLink[t])
  /\ IF tabLink[t].token = "none"
     THEN tabInvite' = [tabInvite EXCEPT ![t] = "unknown"] /\ UNCHANGED <<sessAsks, sessSent, tabAsks>>
     ELSE tabInvite' = [tabInvite EXCEPT ![t] = "asked"] /\ Ask(t, "lookup", tabInstance'[t])
  /\ UNCHANGED <<stToken, stUser, tabPage, tabLink, tabForm, tabMount, tabLeaves, sessOpens,
                 sessTokens>>

InviteInfo(t, a) ==
  /\ a \in tabAsks[t] /\ a.kind = "lookup"
  /\ Answered(t, a)
  /\ tabInvite' = [tabInvite EXCEPT ![t] = IF Shows(t, a) THEN "known" ELSE @]
  /\ UNCHANGED <<sessStore, tabPage, tabLink, tabInstance, tabForm, tabMount, tabLeaves, sessCounts,
                 sessSent>>

\* Not found, expired, or the instance could not be reached.
InviteUnknown(t, a) ==
  /\ a \in tabAsks[t] /\ a.kind = "lookup"
  /\ Answered(t, a)
  /\ tabInvite' = [tabInvite EXCEPT ![t] = IF Shows(t, a) THEN "unknown" ELSE @]
  /\ UNCHANGED <<sessStore, tabPage, tabLink, tabInstance, tabForm, tabMount, tabLeaves, sessCounts,
                 sessSent>>

\* The form is there unless the invite is being looked up or could not be found.
InviteForm(t) == tabPage[t] = "invite" /\ tabInvite[t] = "known"

\* handleSubmit with a valid name and two equal passwords.
InviteSubmit(t) ==
  /\ InviteForm(t) /\ tabForm[t] # "sending"
  /\ tabForm' = [tabForm EXCEPT ![t] = "sending"]
  /\ Ask(t, "accept", tabInstance[t])
  /\ UNCHANGED <<sessStore, tabPage, tabLink, tabInstance, tabInvite, tabMount, tabLeaves, sessOpens,
                 sessTokens>>

InviteAccepted(t, a) ==
  /\ a \in tabAsks[t] /\ a.kind = "accept"
  /\ Answered(t, a)
  /\ SignedIn(t, a)
  /\ UNCHANGED <<stInstance, tabLink, tabInstance, tabInvite, tabLeaves, sessOpens, sessAsks,
                 sessSent>>

-----------------------------------------------------------------------------
(* The other forms *)

\* The button is disabled during a request; it may be tried again after an error.
LoginForm(t) == tabPage[t] = "login" /\ tabForm[t] # "sending"

\* LoginPage.onSubmit; the address is fixed when the page is built.
LoginSubmit(t) ==
  /\ LoginForm(t)
  /\ tabForm' = [tabForm EXCEPT ![t] = "sending"]
  /\ Ask(t, "login", DefaultInstance)
  /\ UNCHANGED <<sessStore, tabPage, tabLink, tabInstance, tabInvite, tabMount, tabLeaves, sessOpens,
                 sessTokens>>

LoginSucceeds(t, a) ==
  /\ a \in tabAsks[t] /\ a.kind = "login"
  /\ Answered(t, a)
  /\ SignedIn(t, a)
  /\ UNCHANGED <<stInstance, tabLink, tabInstance, tabInvite, tabLeaves, sessOpens, sessAsks,
                 sessSent>>

\* The form gives way to a notice once the mail is on its way.
ForgotForm(t) == tabPage[t] = "forgot" /\ tabForm[t] \in {"idle", "error"}

ForgotSubmit(t) ==
  /\ ForgotForm(t)
  /\ tabForm' = [tabForm EXCEPT ![t] = "sending"]
  /\ Ask(t, "forgot", tabInstance[t])
  /\ UNCHANGED <<sessStore, tabPage, tabLink, tabInstance, tabInvite, tabMount, tabLeaves, sessOpens,
                 sessTokens>>

\* Without a token the page has no form, and none once the password is set.
ResetForm(t) ==
  /\ tabPage[t] = "reset" /\ tabLink[t].token # "none"
  /\ tabForm[t] \in {"idle", "error"}

ResetSubmit(t) ==
  /\ ResetForm(t)
  /\ tabForm' = [tabForm EXCEPT ![t] = "sending"]
  /\ Ask(t, "reset", tabInstance[t])
  /\ UNCHANGED <<sessStore, tabPage, tabLink, tabInstance, tabInvite, tabMount, tabLeaves, sessOpens,
                 sessTokens>>

\* A new password also starts the timer of 2 s, whether or not its page is still shown.
FormDone(t, a) ==
  /\ a \in tabAsks[t] /\ a.kind \in {"forgot", "reset"}
  /\ Answered(t, a)
  /\ tabForm' = [tabForm EXCEPT ![t] = IF Shows(t, a) THEN "done" ELSE @]
  /\ tabLeaves' = [tabLeaves EXCEPT ![t] = @ \/ a.kind = "reset"]
  /\ UNCHANGED <<sessStore, tabPage, tabLink, tabInstance, tabInvite, tabMount, sessCounts, sessSent>>

\* It ends: from whatever page the tab shows by now, the sign-in page stays mounted.
ResetNavigates(t) ==
  /\ tabLeaves[t]
  /\ tabLeaves' = [tabLeaves EXCEPT ![t] = FALSE]
  /\ tabPage' = [tabPage EXCEPT ![t] = "login"]
  /\ IF tabPage[t] = "login" THEN UNCHANGED <<tabMount, tabForm>>
     ELSE /\ tabMount' = [tabMount EXCEPT ![t] = @ + 1]
          /\ tabForm' = [tabForm EXCEPT ![t] = "idle"]
  /\ UNCHANGED <<sessStore, tabLink, tabInstance, tabInvite, tabAsks, sessCounts, sessSent>>

FormFails(t, a) ==
  /\ a \in tabAsks[t] /\ a.kind \in {"login", "accept", "forgot", "reset"}
  /\ Answered(t, a)
  /\ tabForm' = [tabForm EXCEPT ![t] = IF Shows(t, a) THEN "error" ELSE @]
  /\ UNCHANGED <<sessStore, tabPage, tabLink, tabInstance, tabInvite, tabMount, tabLeaves, sessCounts,
                 sessSent>>

\* The links between the pages, and from the chat, when another page led away from it
\* and the token has expired since, to the sign-in page.  A form that is left does not
\* stop its request.
TabGoes(t) ==
  /\ tabMount[t] < MaxPages
  /\ \/ tabPage[t] = "login" /\ tabPage' = [tabPage EXCEPT ![t] = "forgot"]
     \/ /\ tabPage[t] \in {"forgot", "reset", "chat"} \/ (tabPage[t] = "invite" /\ tabInvite[t] = "unknown")
        /\ tabPage' = [tabPage EXCEPT ![t] = "login"]
  /\ tabMount' = [tabMount EXCEPT ![t] = @ + 1]
  /\ tabForm' = [tabForm EXCEPT ![t] = "idle"]
  /\ UNCHANGED <<sessStore, tabLink, tabInstance, tabInvite, tabAsks, tabLeaves, sessCounts,
                 sessSent>>

-----------------------------------------------------------------------------
(* The chat's requests *)

ChatAsks(t) ==
  /\ tabPage[t] = "chat"
  /\ Ask(t, "chat", tabInstance[t])
  /\ UNCHANGED <<sessStore, tabPage, tabLink, tabInstance, tabForm, tabInvite, tabMount, tabLeaves,
                 sessOpens, sessTokens>>

\* apiFetch: 401, for a token of another instance or one it knows no more, drops
\* the token there is by now and loads the sign-in page.
Unauthorized(t, a) ==
  /\ a \in tabAsks[t] /\ a.kind = "chat"
  /\ stToken' = NoToken
  /\ Load(t, [page |-> "login", instance |-> SessNone, token |-> "none"])
  /\ tabInstance' = [tabInstance EXCEPT ![t] = StoredInstance]
  /\ UNCHANGED <<stInstance, stUser, sessCounts, sessSent>>

ChatAnswered(t, a) ==
  /\ a \in tabAsks[t] /\ a.kind = "chat" /\ a.token.at = a.at
  /\ Answered(t, a)
  /\ UNCHANGED <<sessStore, tabPage, tabLink, tabInstance, tabForm, tabInvite, tabMount, tabLeaves,
                 sessCounts, sessSent>>

-----------------------------------------------------------------------------
SessNext ==
  \E t \in Tabs :
    \/ \E link \in Links : TabOpens(t, link)
    \/ TabStarts(t) \/ TabGoes(t) \/ ResetNavigates(t) \/ ChatAsks(t)
    \/ InviteLooksUp(t) \/ InviteSubmit(t) \/ LoginSubmit(t) \/ ForgotSubmit(t) \/ ResetSubmit(t)
    \/ \E a \in tabAsks[t] :
         \/ InviteInfo(t, a) \/ InviteUnknown(t, a) \/ InviteAccepted(t, a)
         \/ LoginSucceeds(t, a) \/ FormDone(t, a) \/ FormFails(t, a)
         \/ Unauthorized(t, a) \/ ChatAnswered(t, a)

SessSpec == SessInit /\ [][SessNext]_sessVars

Tokens == [at : Instances \cup {SessNone}, nr : 0..MaxTokens]
Requests == [kind : {"lookup", "accept", "login", "forgot", "reset", "chat"}, at : Instances,
             token : Tokens, page : Nat]

StoreTypes ==
  /\ stInstance \in Instances \cup {SessNone} /\ stToken \in Tokens /\ stUser \in 0..MaxTokens
  /\ sessOpens \in 0..MaxOpens /\ sessTokens \in 0..MaxTokens /\ sessAsks \in 0..MaxAsks

TabTypes ==
  /\ tabPage \in [Tabs -> {"closed", "loading", "login", "chat", "invite", "reset", "forgot"}]
  /\ tabLink \in [Tabs -> Links \cup {NoLink}]
  /\ tabInstance \in [Tabs -> Instances]
  /\ tabMount \in [Tabs -> Nat] /\ tabLeaves \in [Tabs -> BOOLEAN]
  /\ tabForm \in [Tabs -> {"idle", "sending", "done", "error"}]
  /\ tabInvite \in [Tabs -> {"none", "asked", "known", "unknown"}]
  /\ tabAsks \in [Tabs -> SUBSET Requests]

SessTypeOK == StoreTypes /\ TabTypes

\* Whatever instance earlier links and other tabs have stored, the invite and
\* the new password of a link go to the instance that link names, or to the
\* default when it names none.
LinkReachesItsInstance ==
  /\ SessTypeOK
  /\ \A s \in sessSent :
       s.at = IF s.link.instance \in Instances THEN s.link.instance ELSE DefaultInstance
=============================================================================
