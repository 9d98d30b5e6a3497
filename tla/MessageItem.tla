---------------------------- MODULE MessageItem ----------------------------
(***************************************************************************)
(* One message on the web page (components/chat/MessageItem.tsx) with its  *)
(* menu and the modal that confirms a deletion.  An edit and a deletion    *)
(* share the flag isLoading, and the modal closes by a click beside it     *)
(* while its request is under way.  The page does not change its list of   *)
(* messages on an answer (ChatPage.tsx:597): only the next load shows what *)
(* became of the message.  Each time the channel is opened again the item  *)
(* is mounted afresh, with nothing under way, whatever an earlier mount    *)
(* has asked for.  A text is a version number; 0 is the first.             *)
(***************************************************************************)
EXTENDS Integers

CONSTANTS MaxVersions,   \* texts the user writes into the edit box
          MaxItemMoves   \* other clicks

ASSUME ItemConstantsOK == MaxVersions \in Nat /\ MaxItemMoves \in Nat

VARIABLES
  srvThere, srvText,       \* the message at the instance
  itmThere, itmContent,    \* the message is listed; its text
  itmMount,                \* how often the item was mounted
  itmOwn, itmGrouped,      \* isOwnMessage, isGrouped
  itmEditing, itmText,     \* isEditing, editContent
  itmBlank,                \* editContent is blank
  itmLoading, itmError,    \* isLoading; error is there
  itmMenu, itmModal,       \* the menu's isOpen, showDeleteModal
  itmRequests,             \* requests under way: kind, the text of an edit, the mount
                           \* it belongs to, done
  itmWritten, itmMoves

itmBox == <<itmEditing, itmText, itmBlank>>
itmAtServer == <<srvThere, srvText>>
itmRest == <<itmOwn, itmGrouped, itmWritten, itmMount>>
itmVars == <<itmAtServer, itmThere, itmContent, itmBox, itmLoading, itmError, itmMenu, itmModal, itmRequests,
             itmMoves, itmRest>>

ItmInit ==
  /\ srvThere = TRUE /\ srvText = 0 /\ itmThere = TRUE /\ itmContent = 0
  /\ itmOwn \in BOOLEAN /\ itmGrouped \in BOOLEAN
  /\ itmEditing = FALSE /\ itmText = 0 /\ itmBlank = FALSE
  /\ itmLoading = FALSE /\ itmError = FALSE /\ itmMenu = FALSE /\ itmModal = FALSE
  /\ itmRequests = {} /\ itmWritten = 0 /\ itmMoves = 0 /\ itmMount = 1

ItmMenuOffers ==
  {"menu"} \cup (IF itmMenu THEN {"overlay", "copy"} ELSE {})
           \cup (IF itmMenu /\ itmOwn THEN {"edit", "delete"} ELSE {})

\* Mutant of ItmModalOffers: the modal's button is not disabled.
ItmModalAlwaysOffers == {"beside", "escape", "cancel", "confirm"}

\* Beside the modal and Escape work at any time, its buttons do not.
ItmModalOffers == {"beside", "escape"} \cup (IF itmLoading THEN {} ELSE {"cancel", "confirm"})

\* A message grouped under the one before it is a line with a menu.
ItmLineOffers == ItmMenuOffers

\* A message by itself has the edit box in it, and the menu outside editing.
ItmFullOffers ==
  IF ~itmEditing THEN ItmMenuOffers
  ELSE IF itmLoading THEN {}
  ELSE {"write", "enter", "cancel edit"} \cup (IF itmBlank THEN {} ELSE {"save"})

ItmOffers ==
  CASE ~itmThere -> {}
    [] itmThere /\ itmModal -> ItmModalOffers
    [] OTHER -> IF itmGrouped /\ ~itmEditing THEN ItmLineOffers ELSE ItmFullOffers

ItmClick(what) ==
  what \in ItmOffers /\ itmMoves < MaxItemMoves /\ itmMoves' = itmMoves + 1

\* The menu opens, closes, or copies the text or a link and closes.
ItmMenuToggle ==
  /\ \/ ItmClick("menu") /\ itmMenu' = ~itmMenu
     \/ (ItmClick("overlay") \/ ItmClick("copy")) /\ itmMenu' = FALSE
  /\ UNCHANGED <<itmAtServer, itmThere, itmContent, itmBox, itmLoading, itmError, itmModal, itmRequests, itmRest>>

\* handleStartEdit; the menu goes, or is closed, with it.
ItmStartEdit ==
  /\ ItmClick("edit")
  /\ itmEditing' = TRUE /\ itmText' = itmContent /\ itmBlank' = FALSE
  /\ itmError' = FALSE /\ itmMenu' = FALSE
  /\ UNCHANGED <<itmAtServer, itmThere, itmContent, itmLoading, itmModal, itmRequests, itmRest>>

ItmWrite ==
  /\ "write" \in ItmOffers /\ itmWritten < MaxVersions
  /\ itmWritten' = itmWritten + 1
  /\ \/ itmText' = itmWritten' /\ itmBlank' = FALSE
     \/ itmText' = itmText /\ itmBlank' = TRUE
  /\ UNCHANGED <<itmAtServer, itmThere, itmContent, itmEditing, itmLoading, itmError, itmMenu, itmModal,
                 itmRequests, itmOwn, itmGrouped, itmMount, itmMoves>>

CancelEdit ==
  itmEditing' = FALSE /\ itmText' = itmContent /\ itmBlank' = FALSE /\ itmError' = FALSE

\* handleCancelEdit; Enter or Save on a blank or unchanged text does the same.
ItmCancelEdit ==
  /\ \/ ItmClick("cancel edit")
     \/ (ItmClick("enter") \/ ItmClick("save")) /\ (itmBlank \/ itmText = itmContent)
  /\ CancelEdit
  /\ UNCHANGED <<itmAtServer, itmThere, itmContent, itmLoading, itmMenu, itmModal, itmRequests, itmRest>>

\* handleSaveEdit with another text, up to its await.
ItmSave ==
  /\ ItmClick("enter") \/ ItmClick("save")
  /\ ~itmBlank /\ itmText # itmContent
  /\ itmLoading' = TRUE /\ itmError' = FALSE
  /\ itmRequests' = itmRequests \cup
       {[kind |-> "edit", text |-> itmText, nr |-> itmMoves, mount |-> itmMount, done |-> FALSE]}
  /\ UNCHANGED <<itmAtServer, itmThere, itmContent, itmBox, itmMenu, itmModal, itmRest>>

\* The menu's Delete opens the modal.
ItmOpenModal ==
  /\ ItmClick("delete")
  /\ itmModal' = TRUE /\ itmMenu' = FALSE
  /\ UNCHANGED <<itmAtServer, itmThere, itmContent, itmBox, itmLoading, itmError, itmRequests, itmRest>>

ItmCloseModal ==
  /\ \E what \in {"beside", "escape", "cancel"} : ItmClick(what)
  /\ itmModal' = FALSE
  /\ UNCHANGED <<itmAtServer, itmThere, itmContent, itmBox, itmLoading, itmError, itmMenu, itmRequests, itmRest>>

\* handleDelete up to its await.
ItmDelete ==
  /\ ItmClick("confirm")
  /\ itmLoading' = TRUE
  /\ itmRequests' = itmRequests \cup
       {[kind |-> "delete", text |-> 0, nr |-> itmMoves, mount |-> itmMount, done |-> FALSE]}
  /\ UNCHANGED <<itmAtServer, itmThere, itmContent, itmBox, itmError, itmMenu, itmModal, itmRest>>

\* The instance carries a request out, if the message is still there.
ItmStored(r) ==
  /\ r \in itmRequests /\ ~r.done /\ srvThere
  /\ itmRequests' = (itmRequests \ {r}) \cup {[r EXCEPT !.done = TRUE]}
  /\ srvText' = IF r.kind = "edit" THEN r.text ELSE srvText
  /\ srvThere' = (r.kind = "edit")
  /\ UNCHANGED <<itmThere, itmContent, itmBox, itmLoading, itmError, itmMenu, itmModal, itmMoves,
                 itmRest>>

\* The mount that sent a request is on the page; else its answer changes nothing.
ItmAnswers(r) == itmThere /\ r.mount = itmMount

\* An edit succeeds: the box closes, over the text the list still has.
ItmSaved(r) ==
  /\ r \in itmRequests /\ r.kind = "edit" /\ r.done
  /\ itmRequests' = itmRequests \ {r}
  /\ itmEditing' = (itmEditing /\ ~ItmAnswers(r))
  /\ itmLoading' = (itmLoading /\ ~ItmAnswers(r))
  /\ UNCHANGED <<itmAtServer, itmThere, itmContent, itmText, itmBlank, itmError, itmMenu, itmModal,
                 itmMoves, itmRest>>

\* It fails, or its answer is lost.
ItmSaveFails(r) ==
  /\ r \in itmRequests /\ r.kind = "edit"
  /\ itmRequests' = itmRequests \ {r}
  /\ itmError' = (itmError \/ ItmAnswers(r))
  /\ itmLoading' = (itmLoading /\ ~ItmAnswers(r))
  /\ UNCHANGED <<itmAtServer, itmThere, itmContent, itmBox, itmMenu, itmModal, itmMoves, itmRest>>

\* A deletion succeeds and the modal closes.
ItmDeleted(r) ==
  /\ r \in itmRequests /\ r.kind = "delete" /\ r.done
  /\ itmRequests' = itmRequests \ {r}
  /\ itmLoading' = (itmLoading /\ ~ItmAnswers(r))
  /\ itmModal' = (itmModal /\ ~ItmAnswers(r))
  /\ UNCHANGED <<itmAtServer, itmThere, itmContent, itmBox, itmError, itmMenu, itmMoves, itmRest>>

\* It fails, and nothing on the page says so.
ItmDeleteFails(r) ==
  /\ r \in itmRequests /\ r.kind = "delete"
  /\ itmRequests' = itmRequests \ {r}
  /\ itmLoading' = (itmLoading /\ ~ItmAnswers(r))
  /\ UNCHANGED <<itmAtServer, itmThere, itmContent, itmBox, itmError, itmMenu, itmModal, itmMoves,
                 itmRest>>

\* The item goes, with everything open in it; its requests go on.
ItmUnmounts ==
  /\ itmThere' = FALSE
  /\ itmContent' = 0 /\ itmEditing' = FALSE /\ itmText' = 0 /\ itmBlank' = FALSE
  /\ itmLoading' = FALSE /\ itmError' = FALSE /\ itmMenu' = FALSE /\ itmModal' = FALSE

\* The messages are loaded again: the list has the text there is now, also under
\* an open box, or the message is gone.
ItmReload ==
  /\ itmThere /\ <<srvThere, srvText>> # <<TRUE, itmContent>>
  /\ IF srvThere
     THEN itmContent' = srvText /\ UNCHANGED <<itmThere, itmBox, itmLoading, itmError, itmMenu, itmModal>>
     ELSE ItmUnmounts
  /\ UNCHANGED <<itmAtServer, itmRequests, itmMoves, itmRest>>

\* Another conversation is selected, or a search opens.
ItmLeave ==
  /\ itmThere /\ itmMoves < MaxItemMoves
  /\ itmMoves' = itmMoves + 1
  /\ ItmUnmounts
  /\ UNCHANGED <<itmAtServer, itmRequests, itmRest>>

\* Back in the channel, a message that is still at the instance is mounted afresh.
ItmReturn ==
  /\ ~itmThere /\ srvThere
  /\ itmThere' = TRUE /\ itmMount' = itmMount + 1
  /\ itmContent' = srvText /\ itmText' = srvText
  /\ UNCHANGED <<itmAtServer, itmEditing, itmBlank, itmLoading, itmError, itmMenu, itmModal,
                 itmRequests, itmMoves, itmOwn, itmGrouped, itmWritten>>

-----------------------------------------------------------------------------
ItmNext ==
  \/ ItmMenuToggle \/ ItmStartEdit \/ ItmWrite \/ ItmCancelEdit \/ ItmSave
  \/ ItmOpenModal \/ ItmCloseModal \/ ItmDelete
  \/ ItmReload \/ ItmLeave \/ ItmReturn
  \/ \E r \in itmRequests : ItmStored(r) \/ ItmSaved(r) \/ ItmSaveFails(r) \/ ItmDeleted(r) \/ ItmDeleteFails(r)

ItmSpec == ItmInit /\ [][ItmNext]_itmVars

ItmTypeOK ==
  /\ srvThere \in BOOLEAN /\ srvText \in 0..MaxVersions
  /\ itmThere \in BOOLEAN /\ itmContent \in 0..MaxVersions /\ itmMount \in Nat \ {0}
  /\ itmOwn \in BOOLEAN /\ itmGrouped \in BOOLEAN
  /\ itmEditing \in BOOLEAN /\ itmText \in 0..MaxVersions /\ itmBlank \in BOOLEAN
  /\ itmLoading \in BOOLEAN /\ itmError \in BOOLEAN /\ itmMenu \in BOOLEAN /\ itmModal \in BOOLEAN
  /\ itmRequests \subseteq [kind : {"edit", "delete"}, text : 0..MaxVersions, nr : 0..MaxItemMoves,
                            mount : 1..itmMount, done : BOOLEAN]
  /\ itmWritten \in 0..MaxVersions /\ itmMoves \in 0..MaxItemMoves

\* However the menu, the edit box and the modal are opened and closed meanwhile,
\* an item has one request of its own under way at most, of either kind, and exactly
\* while it says so; an edit under way is of the text in the open box, which cannot
\* change or close before the answer; and only the author's message has any.  An
\* item that was mounted again knows nothing of what an earlier mount asked for, so
\* requests of different mounts do overlap, but an answer touches its own mount only.
OneRequest ==
  /\ ItmTypeOK
  /\ \A q, r \in itmRequests : q.mount = r.mount => q = r
  /\ itmLoading <=> \E r \in itmRequests : ItmAnswers(r)
  /\ \A r \in itmRequests :
       /\ itmOwn
       /\ ItmAnswers(r) /\ r.kind = "edit" => itmEditing /\ ~itmModal /\ itmText = r.text
=============================================================================
