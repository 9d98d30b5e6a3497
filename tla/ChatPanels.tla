----------------------------- MODULE ChatPanels -----------------------------
(***************************************************************************)
(* The modals and panels of the chat page that ask the instance for        *)
(* something: a new channel, a channel's description, a new conversation,  *)
(* the members, a search.  Their requests are never cancelled.  A modal    *)
(* that only hides (new channel, new conversation) keeps its state; one    *)
(* that is unmounted loses it.  Names are numbers of what was typed.       *)
(***************************************************************************)
EXTENDS Integers, FiniteSets

CONSTANT MaxPanelMoves    \* what the user does

ASSUME PanelConstantsOK == MaxPanelMoves \in Nat

VARIABLES
  newOpen, newCreating,     \* CreateChannelModal: isOpen, creating
  newName,                  \* what is typed: nothing, too short, or the move it was typed at
  newRequests,              \* creations under way, by the name they send
  newError,
  descOpen, descSaving,     \* EditChannelModal: the opening it is of (0 closed), isSubmitting
  descRequests, descOpenings, descSent,
  dmOpen, dmCreating,       \* NewDMModal: isOpen, isCreating
  dmUsers, dmFound,         \* users loaded; how many match the search: 0, 1, many
  dmRequests, dmError,
  memOpen, memLoads,        \* MemberListPanel: shown for a channel; loads under way
  memOf, memLoading,        \* the channel whose members it holds; isLoading
  findQuery, findDue,       \* SearchResultsPanel: query, 0 for none; its 300 ms timer is set
  findRunning, findOf,      \* searches under way; the query the results are of
  findLoading,
  pnlMoves

newVars == <<newOpen, newCreating, newName, newRequests, newError>>
descVars == <<descOpen, descSaving, descRequests, descOpenings, descSent>>
dmVars == <<dmOpen, dmCreating, dmUsers, dmFound, dmRequests, dmError>>
memVars == <<memOpen, memLoads, memOf, memLoading>>
findVars == <<findQuery, findDue, findRunning, findOf, findLoading>>
pnlVars == <<newVars, descVars, dmVars, memVars, findVars, pnlMoves>>

TooShort == -1
Many == 2

PnlInit ==
  /\ newOpen = FALSE /\ newCreating = FALSE /\ newName = 0 /\ newRequests = {} /\ newError = FALSE
  /\ descOpen = 0 /\ descSaving = FALSE /\ descRequests = {} /\ descOpenings = 0 /\ descSent = 0
  /\ dmOpen = FALSE /\ dmCreating = FALSE /\ dmUsers = FALSE /\ dmFound = 0
  /\ dmRequests = {} /\ dmError = FALSE
  /\ memOpen = 0 /\ memLoads = {} /\ memOf = 0 /\ memLoading = FALSE
  /\ findQuery = 0 /\ findDue = FALSE /\ findRunning = {} /\ findOf = 0 /\ findLoading = FALSE
  /\ pnlMoves = 0

PnlMove == pnlMoves < MaxPanelMoves /\ pnlMoves' = pnlMoves + 1

-----------------------------------------------------------------------------
(* A new channel *)

\* Mutant of NewOpened: a fresh form, with a fresh flag.
NewOpenedAfresh == newName' = 0 /\ newError' = FALSE /\ newCreating' = FALSE

\* The effect of isOpen empties the form; creating stays as it is.
NewOpened == newName' = 0 /\ newError' = FALSE /\ UNCHANGED newCreating

\* What can be done in the modal: it closes beside its form and with its X even
\* while a creation is under way.
NewOffers ==
  IF ~newOpen THEN {}
  ELSE {"beside"} \cup (IF newCreating THEN {} ELSE {"type", "cancel"})
                  \cup (IF newCreating \/ newName \in {0, TooShort} THEN {} ELSE {"create"})

\* The button of the sidebar, or Alt+N, which also works while it is open.
NewOpen ==
  /\ PnlMove
  /\ newOpen' = TRUE
  /\ IF newOpen THEN UNCHANGED <<newName, newError, newCreating>> ELSE NewOpened
  /\ UNCHANGED <<newRequests, descVars, dmVars, memVars, findVars>>

NewType ==
  /\ "type" \in NewOffers /\ PnlMove
  /\ newName' \in {0, TooShort, pnlMoves'}
  /\ UNCHANGED <<newOpen, newCreating, newRequests, newError, descVars, dmVars, memVars, findVars>>

\* handleSubmit, by the button, or by Enter in a field, which a too short name
\* or a disabled form does not send.
NewSubmit ==
  /\ "create" \in NewOffers /\ PnlMove
  /\ newCreating' = TRUE /\ newError' = FALSE
  /\ newRequests' = newRequests \cup {newName}
  /\ UNCHANGED <<newOpen, newName, descVars, dmVars, memVars, findVars>>

\* The channel was created, or not.  Success closes the modal, also one that
\* was closed and opened again since.
NewAnswered(r) ==
  /\ r \in newRequests
  /\ newRequests' = newRequests \ {r}
  /\ newCreating' = FALSE
  /\ \/ newOpen' = FALSE /\ UNCHANGED newError
     \/ newError' = TRUE /\ UNCHANGED newOpen
  /\ UNCHANGED <<newName, descVars, dmVars, memVars, findVars, pnlMoves>>

\* Cancel, the X, a click beside the form, or Escape anywhere on the page.
NewClose ==
  /\ newOpen /\ PnlMove
  /\ newOpen' = FALSE
  /\ UNCHANGED <<newCreating, newName, newRequests, newError, descVars, dmVars, memVars, findVars>>

-----------------------------------------------------------------------------
(* A channel's description: a modal that is mounted for each opening *)

DescOffers ==
  IF descOpen = 0 THEN {} ELSE {"type", "cancel"} \cup (IF descSaving THEN {} ELSE {"save"})

DescOpen ==
  /\ descOpen = 0 /\ PnlMove
  /\ descOpenings' = descOpenings + 1 /\ descOpen' = descOpenings'
  /\ descSaving' = FALSE
  /\ UNCHANGED <<newVars, descRequests, descSent, dmVars, memVars, findVars>>

\* handleSave: the button, or Ctrl+Enter, which looks at isSubmitting itself.
DescSave ==
  /\ "save" \in DescOffers /\ PnlMove
  /\ descSaving' = TRUE /\ descSent' = descSent + 1
  /\ descRequests' = descRequests \cup {[opening |-> descOpen, nr |-> descSent']}
  /\ UNCHANGED <<newVars, descOpen, descOpenings, dmVars, memVars, findVars>>

DescClose ==
  /\ descOpen # 0 /\ PnlMove
  /\ descOpen' = 0 /\ descSaving' = FALSE
  /\ UNCHANGED <<newVars, descRequests, descOpenings, descSent, dmVars, memVars, findVars>>

\* handleChannelSaved closes whichever opening there is; a failure is shown in
\* the one that asked.
DescAnswered(r) ==
  /\ r \in descRequests
  /\ descRequests' = descRequests \ {r}
  /\ \/ descOpen' = 0 /\ descSaving' = FALSE
     \/ /\ UNCHANGED descOpen
        /\ descSaving' = (descSaving /\ r.opening # descOpen)
  /\ UNCHANGED <<newVars, descOpenings, descSent, dmVars, memVars, findVars, pnlMoves>>

-----------------------------------------------------------------------------
(* A new conversation *)

DmOffers ==
  IF ~dmOpen THEN {} ELSE {"search", "close"} \cup (IF dmCreating \/ dmFound = 0 THEN {} ELSE {"user"})

\* The list is loaded each time the modal opens.
DmOpen ==
  /\ ~dmOpen /\ PnlMove
  /\ dmOpen' = TRUE /\ dmError' = FALSE
  /\ UNCHANGED <<newVars, descVars, dmCreating, dmUsers, dmFound, dmRequests, memVars, findVars>>

DmUsersLoaded ==
  /\ ~dmUsers
  /\ dmUsers' = TRUE /\ dmFound' \in {0, 1, Many}
  /\ UNCHANGED <<newVars, descVars, dmOpen, dmCreating, dmRequests, dmError, memVars, findVars, pnlMoves>>

DmSearch ==
  /\ "search" \in DmOffers /\ dmUsers /\ PnlMove
  /\ dmFound' \in {0, 1, Many}
  /\ UNCHANGED <<newVars, descVars, dmOpen, dmCreating, dmUsers, dmRequests, dmError, memVars, findVars>>

\* handleCreateDM, by a click on a user, or by Enter when one is left, which
\* does not look at isCreating.
DmCreate ==
  /\ "user" \in DmOffers \/ (dmOpen /\ dmFound = 1)
  /\ PnlMove
  /\ dmCreating' = TRUE /\ dmError' = FALSE
  /\ dmRequests' = dmRequests \cup {pnlMoves}
  /\ UNCHANGED <<newVars, descVars, dmOpen, dmUsers, dmFound, memVars, findVars>>

DmAnswered(r) ==
  /\ r \in dmRequests
  /\ dmRequests' = dmRequests \ {r}
  /\ dmCreating' = FALSE
  /\ \/ dmOpen' = FALSE /\ UNCHANGED dmError
     \/ dmError' = TRUE /\ UNCHANGED dmOpen
  /\ UNCHANGED <<newVars, descVars, dmUsers, dmFound, memVars, findVars, pnlMoves>>

DmClose ==
  /\ "close" \in DmOffers /\ PnlMove
  /\ dmOpen' = FALSE
  /\ UNCHANGED <<newVars, descVars, dmCreating, dmUsers, dmFound, dmRequests, dmError, memVars, findVars>>

-----------------------------------------------------------------------------
(* The members of a channel: two channels are enough to mix them up *)

MemShow(c) ==
  /\ memOpen # c /\ PnlMove
  /\ memOpen' = c
  /\ memLoads' = memLoads \cup {c} /\ memLoading' = TRUE
  /\ memOf' = IF memOpen = 0 THEN 0 ELSE memOf
  /\ UNCHANGED <<newVars, descVars, dmVars, findVars>>

\* Whichever channel's members arrive are shown, or the load fails.
MemLoaded(c) ==
  /\ c \in memLoads
  /\ memLoads' = memLoads \ {c}
  /\ memLoading' = FALSE
  /\ memOf' \in IF memOpen = 0 THEN {memOf} ELSE {memOf, c}
  /\ UNCHANGED <<newVars, descVars, dmVars, findVars, memOpen, pnlMoves>>

\* Hidden by its button, Escape, a search or a conversation, and unmounted.
MemHide ==
  /\ memOpen # 0 /\ PnlMove
  /\ memOpen' = 0 /\ memOf' = 0 /\ memLoading' = FALSE
  /\ UNCHANGED <<newVars, descVars, dmVars, findVars, memLoads>>

-----------------------------------------------------------------------------
(* A search *)

\* Another query: its timer replaces the last one's; a search that runs goes on.
FindQuery ==
  /\ PnlMove
  /\ findQuery' = pnlMoves' /\ findDue' = TRUE
  /\ UNCHANGED <<newVars, descVars, dmVars, memVars, findRunning, findOf, findLoading>>

FindStarts ==
  /\ findDue
  /\ findDue' = FALSE /\ findLoading' = TRUE
  /\ findRunning' = findRunning \cup {findQuery}
  /\ UNCHANGED <<newVars, descVars, dmVars, memVars, findQuery, findOf, pnlMoves>>

\* Every channel was asked in turn; one that failed is skipped.
FindAnswered(q) ==
  /\ q \in findRunning
  /\ findRunning' = findRunning \ {q}
  /\ IF findQuery # 0 THEN findOf' = q /\ findLoading' = FALSE ELSE UNCHANGED <<findOf, findLoading>>
  /\ UNCHANGED <<newVars, descVars, dmVars, memVars, findQuery, findDue, pnlMoves>>

\* What the panel shows.
FindView ==
  CASE findQuery = 0 -> "nothing" [] findQuery # 0 /\ findLoading -> "loading"
    [] OTHER -> IF findOf = 0 THEN "no results" ELSE "results"

FindClose ==
  /\ FindView # "nothing" /\ PnlMove
  /\ findQuery' = 0 /\ findDue' = FALSE /\ findOf' = 0 /\ findLoading' = FALSE
  /\ UNCHANGED <<newVars, descVars, dmVars, memVars, findRunning>>

-----------------------------------------------------------------------------
NewNext ==
  NewOpen \/ NewType \/ NewSubmit \/ NewClose \/ \E r \in newRequests : NewAnswered(r)

DescNext == DescOpen \/ DescSave \/ DescClose \/ \E r \in descRequests : DescAnswered(r)

DmNext ==
  DmOpen \/ DmUsersLoaded \/ DmSearch \/ DmCreate \/ DmClose \/ \E r \in dmRequests : DmAnswered(r)

MemNext == MemHide \/ \E c \in 1..2 : MemShow(c) \/ MemLoaded(c)

FindNext == FindQuery \/ FindStarts \/ FindClose \/ \E q \in findRunning : FindAnswered(q)

PnlNext == NewNext \/ DescNext \/ DmNext \/ MemNext \/ FindNext

PnlSpec == PnlInit /\ [][PnlNext]_pnlVars

PnlFlags ==
  /\ newOpen \in BOOLEAN /\ newCreating \in BOOLEAN /\ newError \in BOOLEAN /\ descSaving \in BOOLEAN
  /\ dmOpen \in BOOLEAN /\ dmCreating \in BOOLEAN /\ dmUsers \in BOOLEAN /\ dmError \in BOOLEAN
  /\ memLoading \in BOOLEAN /\ findDue \in BOOLEAN /\ findLoading \in BOOLEAN

NewTypes == newName \in {TooShort} \cup 0..MaxPanelMoves /\ newRequests \subseteq 1..MaxPanelMoves

DescTypes ==
  /\ descOpen \in 0..MaxPanelMoves /\ descOpenings \in 0..MaxPanelMoves /\ descSent \in 0..MaxPanelMoves
  /\ descRequests \subseteq [opening : 1..MaxPanelMoves, nr : 1..MaxPanelMoves]

DmTypes == dmFound \in {0, 1, Many} /\ dmRequests \subseteq 0..MaxPanelMoves

MemTypes == memOpen \in 0..2 /\ memOf \in 0..2 /\ memLoads \subseteq 1..2

FindTypes ==
  /\ findQuery \in 0..MaxPanelMoves /\ findOf \in 0..MaxPanelMoves
  /\ findRunning \subseteq 1..MaxPanelMoves

PnlTypeOK ==
  /\ pnlMoves \in 0..MaxPanelMoves /\ PnlFlags
  /\ NewTypes /\ DescTypes /\ DmTypes /\ MemTypes /\ FindTypes

\* Closing the modal for a new channel while its request is under way and
\* opening it again does not create a channel twice: one creation is under way
\* at most, the modal says so from its submission to its answer, and the modal
\* for a description has one request of its own at most.
OneCreation ==
  /\ PnlTypeOK
  /\ Cardinality(newRequests) <= 1
  /\ newCreating <=> newRequests # {}
  /\ \A r, s \in descRequests : r.opening = s.opening => r = s
  /\ descSaving <=> \E r \in descRequests : r.opening = descOpen
=============================================================================
