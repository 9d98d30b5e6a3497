------------------------------ MODULE ChatPage ------------------------------
(***************************************************************************)
(* The chat page (apps/web/src/pages/ChatPage.tsx): what is listed, what   *)
(* is selected and for which channel the members are known, while the      *)
(* loads of the mount, the requests of the modals and the user's clicks    *)
(* overtake each other.  Requests are never cancelled; a handler sees the  *)
(* state of the render it was made in.  Unread counts, names and topics    *)
(* are left out, and the order of a list: its first element is any.        *)
(***************************************************************************)
EXTENDS Integers, FiniteSets

CONSTANTS PageChannels,   \* channels there are or may come to be
          General,        \* the channel whose menu does not offer deletion
          PageDMs,        \* direct conversations, one for each other user
          StarterDM,      \* the one with the first agent
          PageNone,
          MaxClicks       \* what the user does

ASSUME PageConstantsOK ==
  /\ General \in PageChannels /\ StarterDM \in PageDMs
  /\ PageNone \notin PageChannels \cup PageDMs
  /\ MaxClicks \in Nat

VARIABLES
  srvChannels, srvDMs,       \* at the instance: the user's channels and conversations
  pgStart, pgRoute,          \* the route's dmId at the mount and now
  pgLoading, pgFetched,      \* channelsLoading; the answer of that load, if it came
  pgChannels, pgDMs,         \* channels, directMessages
  pgSelCh, pgSelDM,          \* selectedChannelId, selectedDMId
  pgFirst, pgUsers,          \* first_login=1 in the query; the users are loaded
  pgDmLoads,                 \* loads of the conversations: for which new one, answered, list
  pgMembers, pgMemberLoads,  \* the channel channelMembers are of; loads under way
  pgMaking,                  \* requests for a conversation: which, by whom, answered
  pgCreating,                \* a new channel on its way: none, asked or stored
  pgMenu,                    \* the channel whose delete modal is open
  pgDeleting,                \* deletions: the channel and what the handler's render saw
  pgClicks,
  pgMade                     \* history: channels created here and not deleted here

pgLists == <<pgChannels, pgDMs, srvChannels, srvDMs>>
pgShown == <<pgSelCh, pgSelDM, pgMemberLoads>>
pgRest == <<pgStart, pgUsers>>
pgPlace == <<pgRoute, pgFirst>>
pgMount == <<pgLoading, pgFetched>>
pgVars == <<pgLists, pgShown, pgRest, pgPlace, pgMount, pgMenu, pgDmLoads, pgMembers, pgMaking,
            pgCreating, pgDeleting, pgClicks, pgMade>>

InitialLoad == [for |-> PageNone, answered |-> FALSE, list |-> {}]
NoChannelYet == [name |-> PageNone, stored |-> FALSE]

\* The mount: three loads start, and a route to a conversation selects it.
PgInit ==
  /\ srvChannels \in {{}, {General}} \cup {PageChannels \ {c} : c \in PageChannels \ {General}}
  /\ srvDMs \in SUBSET PageDMs
  /\ pgStart \in srvDMs \cup {PageNone} /\ pgRoute = pgStart
  /\ pgLoading = TRUE /\ pgFetched = {} /\ pgChannels = {} /\ pgDMs = {}
  /\ pgSelCh = PageNone /\ pgSelDM = pgStart
  /\ pgFirst \in BOOLEAN /\ pgUsers = FALSE
  /\ pgDmLoads = {InitialLoad} /\ pgMembers = PageNone /\ pgMemberLoads = {}
  /\ pgMaking = {} /\ pgCreating = NoChannelYet /\ pgDeleting = {} /\ pgMenu = PageNone
  /\ pgClicks = 0 /\ pgMade = {}

\* A new selection, and the effect that loads the members of a channel.
PgShow(ch, dm) ==
  /\ pgSelCh' = ch /\ pgSelDM' = dm
  /\ pgMemberLoads' =
       IF /\ ch # PageNone /\ dm = PageNone
          /\ ch # pgSelCh \/ pgSelDM # PageNone
       THEN pgMemberLoads \cup {ch} ELSE pgMemberLoads

\* A selected conversation hides a selected channel.
PgActive == IF pgSelDM # PageNone THEN pgSelDM ELSE pgSelCh

\* Mutant of PgView: the page is usable while the channels load.
PgViewAtOnce == IF PgActive = PageNone THEN "welcome" ELSE "conversation"

\* What the chat panel shows.
PgView == CASE pgLoading -> "loading"
            [] ~pgLoading /\ PgActive = PageNone -> "welcome"
            [] OTHER -> "conversation"

-----------------------------------------------------------------------------
(* The loads of the mount.  Their handlers see the selection of the first   *)
(* render, nothing, whatever is selected by now.                            *)

PgChannelsAnswered ==
  /\ pgLoading /\ pgFetched = {}
  /\ pgFetched' = {srvChannels}
  /\ UNCHANGED <<pgLists, pgShown, pgRest, pgPlace, pgLoading, pgMenu, pgDmLoads, pgMembers, pgMaking,
                 pgCreating, pgDeleting, pgClicks, pgMade>>

\* The answer, and its first channel is selected; or the request failed.
PgChannelsLoaded ==
  /\ pgLoading
  /\ pgLoading' = FALSE /\ pgFetched' = {}
  /\ \/ \E list \in pgFetched :
          /\ pgChannels' = list
          /\ IF pgStart = PageNone /\ list # {}
             THEN \E c \in list : PgShow(c, pgSelDM)
             ELSE UNCHANGED pgShown
     \/ UNCHANGED <<pgChannels, pgShown>>
  /\ UNCHANGED <<pgDMs, srvChannels, srvDMs, pgRest, pgPlace, pgMenu, pgDmLoads, pgMembers, pgMaking,
                 pgCreating, pgDeleting, pgClicks, pgMade>>

PgDmsAnswered(l) ==
  /\ l \in pgDmLoads /\ ~l.answered
  /\ pgDmLoads' = (pgDmLoads \ {l}) \cup {[l EXCEPT !.answered = TRUE, !.list = srvDMs]}
  /\ UNCHANGED <<pgLists, pgShown, pgRest, pgPlace, pgMount, pgMenu, pgMembers, pgMaking, pgCreating,
                 pgDeleting, pgClicks, pgMade>>

\* The answer replaces the list.  The load of the mount selects the first
\* conversation, the load for a new one that one, if it is there.
PgDmsLoaded(l) ==
  /\ l \in pgDmLoads /\ l.answered
  /\ pgDmLoads' = pgDmLoads \ {l}
  /\ pgDMs' = l.list
  /\ CASE l.for = PageNone /\ pgStart = PageNone /\ l.list # {} ->
            \E d \in l.list : PgShow(pgSelCh, d)
       [] l.for \in l.list -> PgShow(PageNone, l.for)
       [] OTHER -> UNCHANGED pgShown
  /\ UNCHANGED <<pgChannels, srvChannels, srvDMs, pgRest, pgPlace, pgMount, pgMenu, pgMembers, pgMaking,
                 pgCreating, pgDeleting, pgClicks, pgMade>>

PgDmsFail(l) ==
  /\ l \in pgDmLoads
  /\ pgDmLoads' = pgDmLoads \ {l}
  /\ UNCHANGED <<pgLists, pgShown, pgRest, pgPlace, pgMount, pgMenu, pgMembers, pgMaking, pgCreating,
                 pgDeleting, pgClicks, pgMade>>

\* The users arrive, among them an agent; on a first login with nothing
\* selected the effect asks for the conversation with it.
PgUsersLoaded ==
  /\ ~pgUsers
  /\ pgUsers' = TRUE
  /\ pgMaking' = IF pgFirst /\ PgActive = PageNone /\ pgRoute = PageNone
                 THEN pgMaking \cup {[dm |-> StarterDM, by |-> "starter", answered |-> FALSE]}
                 ELSE pgMaking
  /\ UNCHANGED <<pgLists, pgShown, pgStart, pgPlace, pgMount, pgMenu, pgDmLoads, pgMembers,
                 pgCreating, pgDeleting, pgClicks, pgMade>>

\* The members of whichever channel arrive, or their load fails.
PgMembersLoaded(c) ==
  /\ c \in pgMemberLoads
  /\ pgMemberLoads' = pgMemberLoads \ {c}
  /\ pgMembers' \in {c, PageNone}
  /\ UNCHANGED <<pgLists, pgSelCh, pgSelDM, pgRest, pgPlace, pgMount, pgMenu, pgDmLoads, pgMaking,
                 pgCreating, pgDeleting, pgClicks, pgMade>>

-----------------------------------------------------------------------------
(* Clicks *)

\* The lists of the sidebar, there once the channels have loaded.
PgOfferedChannels == IF PgView = "loading" THEN {} ELSE pgChannels
PgOfferedDMs == IF PgView = "loading" THEN {} ELSE pgDMs

Click ==
  /\ PgView # "loading"
  /\ pgClicks < MaxClicks
  /\ pgClicks' = pgClicks + 1

\* handleSelectChannel; a click on a search result keeps the address.
PgSelectChannel(c) ==
  /\ Click /\ c \in PgOfferedChannels
  /\ PgShow(c, PageNone)
  /\ \/ pgRoute' = PageNone /\ pgFirst' = FALSE
     \/ UNCHANGED pgPlace
  /\ UNCHANGED <<pgLists, pgRest, pgMount, pgMenu, pgDmLoads, pgMembers, pgMaking, pgCreating,
                 pgDeleting, pgMade>>

PgSelectDM(d) ==
  /\ Click /\ d \in PgOfferedDMs
  /\ PgShow(PageNone, d)
  /\ pgRoute' = d /\ pgFirst' = FALSE
  /\ UNCHANGED <<pgLists, pgRest, pgMount, pgMenu, pgDmLoads, pgMembers, pgMaking, pgCreating,
                 pgDeleting, pgMade>>

\* The modal's form is sent; its flag keeps it from being sent again.  The
\* channel will be a new one, not one whose deletion is still under way.
PgCreate(c) ==
  /\ Click /\ pgCreating = NoChannelYet /\ c \notin srvChannels
  /\ \A d \in pgDeleting : d.chan # c
  /\ pgCreating' = [name |-> c, stored |-> FALSE]
  /\ UNCHANGED <<pgLists, pgShown, pgRest, pgPlace, pgMount, pgMenu, pgDmLoads, pgMembers, pgMaking,
                 pgDeleting, pgMade>>

PgStored ==
  /\ pgCreating.name # PageNone /\ ~pgCreating.stored
  /\ pgCreating' = [pgCreating EXCEPT !.stored = TRUE]
  /\ srvChannels' = srvChannels \cup {pgCreating.name}
  /\ UNCHANGED <<pgChannels, pgDMs, srvDMs, pgShown, pgRest, pgPlace, pgMount, pgMenu, pgDmLoads,
                 pgMembers, pgMaking, pgDeleting, pgClicks, pgMade>>

\* handleCreateChannel after its invites, each of which may fail: the channel is
\* listed and selected; the route stays.
PgCreated ==
  /\ pgCreating.stored
  /\ pgCreating' = NoChannelYet
  /\ pgChannels' = pgChannels \cup {pgCreating.name}
  /\ pgMade' = pgMade \cup {pgCreating.name}
  /\ PgShow(pgCreating.name, PageNone)
  /\ UNCHANGED <<pgDMs, srvChannels, srvDMs, pgRest, pgPlace, pgMount, pgMenu, pgDmLoads, pgMembers,
                 pgMaking, pgDeleting, pgClicks>>

\* The request fails, or its answer is lost after the channel was stored.
PgCreateFails ==
  /\ pgCreating.name # PageNone
  /\ pgCreating' = NoChannelYet
  /\ UNCHANGED <<pgLists, pgShown, pgRest, pgPlace, pgMount, pgMenu, pgDmLoads, pgMembers, pgMaking,
                 pgDeleting, pgClicks, pgMade>>

\* A channel's menu opens the modal.  Menu and modal lie inside the channel's
\* button: each click in them selects the channel too.
PgOpenDelete(c) ==
  /\ Click /\ c \in PgOfferedChannels \ {General}
  /\ pgMenu' = c
  /\ PgShow(c, PageNone)
  /\ pgRoute' = PageNone /\ pgFirst' = FALSE
  /\ UNCHANGED <<pgLists, pgRest, pgMount, pgDmLoads, pgMembers, pgMaking, pgCreating,
                 pgDeleting, pgMade>>

\* Confirmed: the request goes out, and its handler will go on with what this
\* render sees.  The modal, closed or waiting, sends no other.
PgDelete ==
  /\ Click /\ pgMenu \in pgChannels
  /\ pgDeleting' = pgDeleting \cup {[chan |-> pgMenu, sel |-> pgSelCh, listed |-> pgChannels]}
  /\ pgMenu' = PageNone
  /\ PgShow(pgMenu, PageNone)
  /\ pgRoute' = PageNone /\ pgFirst' = FALSE
  /\ UNCHANGED <<pgLists, pgRest, pgMount, pgDmLoads, pgMembers, pgMaking, pgCreating, pgMade>>

\* handleChannelDelete: another channel is selected if this one was.
PgDeleted(d) ==
  /\ d \in pgDeleting /\ d.chan \in srvChannels
  /\ pgDeleting' = pgDeleting \ {d}
  /\ srvChannels' = srvChannels \ {d.chan}
  /\ pgChannels' = pgChannels \ {d.chan}
  /\ pgMade' = pgMade \ {d.chan}
  /\ pgMenu' = IF pgMenu = d.chan THEN PageNone ELSE pgMenu
  /\ IF d.sel = d.chan /\ Cardinality(d.listed) > 1
     THEN \E c \in d.listed \ {d.chan} : PgShow(c, pgSelDM)
     ELSE UNCHANGED pgShown
  /\ UNCHANGED <<pgDMs, srvDMs, pgRest, pgPlace, pgMount, pgDmLoads, pgMembers, pgMaking,
                 pgCreating, pgClicks>>

PgDeleteFails(d) ==
  /\ d \in pgDeleting
  /\ pgDeleting' = pgDeleting \ {d}
  /\ UNCHANGED <<pgLists, pgShown, pgRest, pgPlace, pgMount, pgMenu, pgDmLoads, pgMembers, pgMaking,
                 pgCreating, pgClicks, pgMade>>

\* A person is picked in the modal for new conversations.
PgMake(d) ==
  /\ Click
  /\ pgMaking' = pgMaking \cup {[dm |-> d, by |-> "modal", answered |-> FALSE]}
  /\ UNCHANGED <<pgLists, pgShown, pgRest, pgPlace, pgMount, pgMenu, pgDmLoads, pgMembers, pgCreating,
                 pgDeleting, pgMade>>

PgMakeAnswered(k) ==
  /\ k \in pgMaking /\ ~k.answered
  /\ pgMaking' = (pgMaking \ {k}) \cup {[k EXCEPT !.answered = TRUE]}
  /\ srvDMs' = srvDMs \cup {k.dm}
  /\ UNCHANGED <<pgChannels, pgDMs, srvChannels, pgShown, pgRest, pgPlace, pgMount, pgMenu, pgDmLoads,
                 pgMembers, pgCreating, pgDeleting, pgClicks, pgMade>>

\* The modal's answer loads the list again before it selects; the starter
\* conversation is selected at once, and not added to the list.
PgConversationMade(k) ==
  /\ k \in pgMaking /\ k.answered
  /\ pgMaking' = pgMaking \ {k}
  /\ IF k.by = "modal"
     THEN /\ pgDmLoads' = pgDmLoads \cup {[InitialLoad EXCEPT !.for = k.dm]}
          /\ UNCHANGED <<pgShown, pgPlace>>
     ELSE /\ PgShow(PageNone, k.dm)
          /\ pgRoute' = k.dm /\ pgFirst' = FALSE
          /\ UNCHANGED pgDmLoads
  /\ UNCHANGED <<pgLists, pgRest, pgMount, pgMenu, pgMembers, pgCreating, pgDeleting,
                 pgClicks, pgMade>>

PgMakeFails(k) ==
  /\ k \in pgMaking
  /\ pgMaking' = pgMaking \ {k}
  /\ UNCHANGED <<pgLists, pgShown, pgRest, pgPlace, pgMount, pgMenu, pgDmLoads, pgMembers, pgCreating,
                 pgDeleting, pgClicks, pgMade>>

-----------------------------------------------------------------------------
PgNext ==
  \/ PgChannelsAnswered \/ PgChannelsLoaded \/ PgUsersLoaded
  \/ \E l \in pgDmLoads : PgDmsAnswered(l) \/ PgDmsLoaded(l) \/ PgDmsFail(l)
  \/ \E c \in PageChannels :
       PgMembersLoaded(c) \/ PgSelectChannel(c) \/ PgCreate(c) \/ PgOpenDelete(c)
  \/ \E d \in PageDMs : PgSelectDM(d) \/ PgMake(d)
  \/ PgStored \/ PgCreated \/ PgCreateFails \/ PgDelete
  \/ \E d \in pgDeleting : PgDeleted(d) \/ PgDeleteFails(d)
  \/ \E k \in pgMaking : PgMakeAnswered(k) \/ PgConversationMade(k) \/ PgMakeFails(k)

PgSpec == PgInit /\ [][PgNext]_pgVars

PgFlags == pgLoading \in BOOLEAN /\ pgFirst \in BOOLEAN /\ pgUsers \in BOOLEAN

PgPlaces ==
  /\ pgStart \in PageDMs \cup {PageNone} /\ pgRoute \in PageDMs \cup {PageNone}
  /\ pgSelCh \in PageChannels \cup {PageNone} /\ pgSelDM \in PageDMs \cup {PageNone}
  /\ pgMembers \in PageChannels \cup {PageNone} /\ pgMemberLoads \subseteq PageChannels
  /\ pgMenu \in PageChannels \cup {PageNone}

PgKnown ==
  /\ pgChannels \subseteq PageChannels /\ srvChannels \subseteq PageChannels
  /\ pgDMs \subseteq PageDMs /\ srvDMs \subseteq PageDMs
  /\ pgFetched \subseteq SUBSET PageChannels /\ pgMade \subseteq PageChannels
  /\ pgDmLoads \subseteq [for : PageDMs \cup {PageNone}, answered : BOOLEAN, list : SUBSET PageDMs]
  /\ pgMaking \subseteq [dm : PageDMs, by : {"modal", "starter"}, answered : BOOLEAN]
  /\ pgCreating \in [name : PageChannels \cup {PageNone}, stored : BOOLEAN]
  /\ pgDeleting \subseteq [chan : PageChannels, sel : PageChannels \cup {PageNone},
                           listed : SUBSET PageChannels]

PgTypeOK == PgFlags /\ PgPlaces /\ PgKnown /\ pgClicks \in Nat

\* A channel the user created stays listed until the user deletes it: no answer
\* that was under way, in particular not the load of the mount, which replaces
\* the list, takes it away.  And what is listed or selected exists at the
\* instance, save a channel deleted while selected.
CreatedStays ==
  /\ PgTypeOK
  /\ pgMade \subseteq pgChannels
  /\ pgChannels \subseteq srvChannels /\ pgDMs \subseteq srvDMs
  /\ pgSelDM \in srvDMs \cup {PageNone}
=============================================================================
