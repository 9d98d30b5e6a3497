--------------------------- MODULE WebChat_proofs ---------------------------
(***************************************************************************)
(* The parts of the chat page, for any sets of channels, conversations and *)
(* any number of texts and clicks: one message's box, the composer, the    *)
(* panels and the page that selects.  None of the invariants the runs check *)
(* is inductive as it stands; each part says what has to be added.         *)
(***************************************************************************)
EXTENDS ChatPage, ChatComposer, MessageItem, ChatPanels, FiniteSetTheorems, TLAPS

-----------------------------------------------------------------------------
(* One request of an item at a time.  The inductive invariant adds who may  *)
(* have the box or the modal open: only the author.                         *)

\* What ties the requests to what the item shows.
ItmRequestsInv ==
  /\ \A q, r \in itmRequests : q.mount = r.mount => q = r
  /\ itmLoading <=> \E r \in itmRequests : ItmAnswers(r)
  /\ itmEditing \/ itmModal => itmOwn
  /\ \A r \in itmRequests :
       /\ itmOwn
       /\ ItmAnswers(r) /\ r.kind = "edit" => itmEditing /\ ~itmModal /\ itmText = r.text

ItmInv == ItmTypeOK /\ ItmRequestsInv

\* When what can be clicked.
LEMMA WhenOffered ==
  ASSUME ItmInv
  PROVE  /\ \A what \in {"write", "enter", "cancel edit", "save"} :
              what \in ItmOffers => itmThere /\ ~itmModal /\ itmEditing /\ ~itmLoading
         /\ \A what \in {"edit", "delete"} :
              what \in ItmOffers => itmThere /\ ~itmModal /\ itmOwn /\ ~itmEditing
         /\ "confirm" \in ItmOffers => itmThere /\ itmModal /\ ~itmLoading
         /\ \A what \in {"beside", "escape", "cancel"} : what \in ItmOffers => itmThere /\ itmModal
<1>1. CASE ~itmThere
  BY <1>1 DEF ItmOffers
<1>2. CASE itmThere /\ itmModal
  BY <1>2 DEF ItmOffers, ItmModalOffers
<1>3. CASE itmThere /\ ~itmModal
  BY <1>3 DEF ItmOffers, ItmLineOffers, ItmFullOffers, ItmMenuOffers, ItmInv, ItmRequestsInv
<1>. QED
  BY <1>1, <1>2, <1>3

\* While the item does not say so, none of its own requests is under way.
LEMMA NoneOfThisMount ==
  ASSUME ItmRequestsInv, itmThere, ~itmLoading
  PROVE  \A r \in itmRequests : r.mount # itmMount
  BY DEF ItmRequestsInv, ItmAnswers

LEMMA ItmInitially == ItmInit => ItmInv
<1> SUFFICES ASSUME ItmInit PROVE ItmInv
  OBVIOUS
<1>1. /\ srvThere \in BOOLEAN /\ itmThere \in BOOLEAN /\ itmOwn \in BOOLEAN /\ itmGrouped \in BOOLEAN
      /\ itmEditing \in BOOLEAN /\ itmBlank \in BOOLEAN /\ itmLoading \in BOOLEAN
      /\ itmError \in BOOLEAN /\ itmMenu \in BOOLEAN /\ itmModal \in BOOLEAN
  BY DEF ItmInit
<1>2. 0 \in 0..MaxVersions /\ 0 \in 0..MaxItemMoves
  BY ItemConstantsOK DEF ItemConstantsOK
<1>3. ItmTypeOK
  BY <1>1, <1>2 DEF ItmInit, ItmTypeOK
<1>. QED
  BY <1>3 DEF ItmInit, ItmInv, ItmRequestsInv

\* A click leaves the type of the count of clicks.
LEMMA ClickCounts ==
  ASSUME ItmTypeOK, NEW what, ItmClick(what)
  PROVE  what \in ItmOffers /\ itmMoves' \in 0..MaxItemMoves
  BY ItemConstantsOK DEF ItemConstantsOK, ItmTypeOK, ItmClick

\* Every step keeps it.
LEMMA ItmStep == ItmInv /\ [ItmNext]_itmVars => ItmInv'
<1> SUFFICES ASSUME ItmInv, [ItmNext]_itmVars
             PROVE  ItmInv'
  OBVIOUS
<1> USE DEF ItmInv, ItmTypeOK, itmBox, itmAtServer, itmRest
<1>1. ASSUME ItmMenuToggle
      PROVE  ItmInv'
  <2>1. itmMoves' \in 0..MaxItemMoves
    BY <1>1, ClickCounts DEF ItmMenuToggle
  <2>2. ItmTypeOK'
    BY <1>1, <2>1, ZenonT(30) DEF ItmMenuToggle
  <2>3. ItmRequestsInv'
    BY <1>1 DEF ItmMenuToggle, ItmRequestsInv, ItmAnswers
  <2>. QED
    BY <2>2, <2>3
<1>2. ASSUME ItmStartEdit
      PROVE  ItmInv'
  <2>1. itmMoves' \in 0..MaxItemMoves /\ itmThere /\ itmOwn /\ ~itmEditing
    BY <1>2, ClickCounts, WhenOffered DEF ItmStartEdit
  <2>2. ItmTypeOK'
    BY <1>2, <2>1 DEF ItmStartEdit
  <2>3. ItmRequestsInv'
    BY <1>2, <2>1 DEF ItmStartEdit, ItmRequestsInv, ItmAnswers
  <2>. QED
    BY <2>2, <2>3
<1>3. ASSUME ItmWrite
      PROVE  ItmInv'
  <2>1. itmThere /\ ~itmLoading
    BY <1>3, WhenOffered DEF ItmWrite
  <2>2. itmWritten' \in 0..MaxVersions
    BY <1>3, ItemConstantsOK DEF ItmWrite, ItemConstantsOK
  <2>3. ItmTypeOK'
    BY <1>3, <2>2 DEF ItmWrite
  <2>4. ItmRequestsInv'
    BY <1>3, <2>1, NoneOfThisMount DEF ItmWrite, ItmRequestsInv, ItmAnswers
  <2>. QED
    BY <2>3, <2>4
<1>4. ASSUME ItmCancelEdit
      PROVE  ItmInv'
  <2>1. itmMoves' \in 0..MaxItemMoves /\ itmThere /\ ~itmLoading
    BY <1>4, ClickCounts, WhenOffered DEF ItmCancelEdit
  <2>2. ItmTypeOK'
    BY <1>4, <2>1 DEF ItmCancelEdit, CancelEdit
  <2>3. ItmRequestsInv'
    BY <1>4, <2>1, NoneOfThisMount DEF ItmCancelEdit, CancelEdit, ItmRequestsInv, ItmAnswers
  <2>. QED
    BY <2>2, <2>3
<1>5. ASSUME ItmSave
      PROVE  ItmInv'
  <2> DEFINE r == [kind |-> "edit", text |-> itmText, nr |-> itmMoves, mount |-> itmMount, done |-> FALSE]
  <2>1. itmMoves' \in 0..MaxItemMoves /\ itmThere /\ itmEditing /\ ~itmModal /\ ~itmLoading
    BY <1>5, ClickCounts, WhenOffered DEF ItmSave
  <2>2. itmRequests' = itmRequests \cup {r} /\ r.kind = "edit" /\ r.text = itmText /\ r.mount = itmMount
    BY <1>5 DEF ItmSave
  <2>3. r \in [kind : {"edit", "delete"}, text : 0..MaxVersions, nr : 0..MaxItemMoves,
               mount : 1..itmMount, done : BOOLEAN]
    OBVIOUS
  <2>4. ItmTypeOK'
    BY <1>5, <2>1, <2>2, <2>3 DEF ItmSave
  <2> HIDE DEF r
  <2>5. ItmRequestsInv'
    BY <1>5, <2>1, <2>2, NoneOfThisMount DEF ItmSave, ItmRequestsInv, ItmAnswers
  <2>. QED
    BY <2>4, <2>5
<1>6. ASSUME ItmOpenModal
      PROVE  ItmInv'
  <2>1. itmMoves' \in 0..MaxItemMoves /\ itmThere /\ itmOwn /\ ~itmEditing
    BY <1>6, ClickCounts, WhenOffered DEF ItmOpenModal
  <2>2. ItmTypeOK'
    BY <1>6, <2>1 DEF ItmOpenModal
  <2>3. ItmRequestsInv'
    BY <1>6, <2>1 DEF ItmOpenModal, ItmRequestsInv, ItmAnswers
  <2>. QED
    BY <2>2, <2>3
<1>7. ASSUME ItmCloseModal
      PROVE  ItmInv'
  <2>1. itmMoves' \in 0..MaxItemMoves
    BY <1>7, ClickCounts DEF ItmCloseModal
  <2>2. ItmTypeOK'
    BY <1>7, <2>1 DEF ItmCloseModal
  <2>3. ItmRequestsInv'
    BY <1>7 DEF ItmCloseModal, ItmRequestsInv, ItmAnswers
  <2>. QED
    BY <2>2, <2>3
<1>8. ASSUME ItmDelete
      PROVE  ItmInv'
  <2> DEFINE r == [kind |-> "delete", text |-> 0, nr |-> itmMoves, mount |-> itmMount, done |-> FALSE]
  <2>1. itmMoves' \in 0..MaxItemMoves /\ itmThere /\ itmModal /\ ~itmLoading
    BY <1>8, ClickCounts, WhenOffered DEF ItmDelete
  <2>2. itmRequests' = itmRequests \cup {r} /\ r.kind = "delete" /\ r.mount = itmMount
    BY <1>8 DEF ItmDelete
  <2>3. r \in [kind : {"edit", "delete"}, text : 0..MaxVersions, nr : 0..MaxItemMoves,
               mount : 1..itmMount, done : BOOLEAN]
    BY ItemConstantsOK DEF ItemConstantsOK
  <2>4. ItmTypeOK'
    BY <1>8, <2>1, <2>2, <2>3 DEF ItmDelete
  <2> HIDE DEF r
  <2>5. ItmRequestsInv'
    BY <1>8, <2>1, <2>2, NoneOfThisMount DEF ItmDelete, ItmRequestsInv, ItmAnswers
  <2>. QED
    BY <2>4, <2>5
<1>9. ASSUME ItmReload, srvThere
      PROVE  ItmInv'
  <2>1. ItmTypeOK'
    BY <1>9 DEF ItmReload
  <2>2. ItmRequestsInv'
    BY <1>9 DEF ItmReload, ItmRequestsInv, ItmAnswers
  <2>. QED
    BY <2>1, <2>2
<1>10. ASSUME (ItmReload /\ ~srvThere) \/ ItmLeave
       PROVE  ItmInv'
  <2>1. ItmUnmounts /\ UNCHANGED <<itmAtServer, itmRequests, itmRest>>
    BY <1>10 DEF ItmReload, ItmLeave
  <2>2. itmMoves' = itmMoves \/ (itmMoves < MaxItemMoves /\ itmMoves' = itmMoves + 1)
    BY <1>10, Zenon DEF ItmReload, ItmLeave
  <2>3. itmMoves \in 0..MaxItemMoves /\ MaxItemMoves \in Nat /\ 0 \in 0..MaxVersions
    BY ItemConstantsOK DEF ItemConstantsOK
  <2>4. itmMoves' \in 0..MaxItemMoves
    BY <2>2, <2>3
  <2>5. ItmTypeOK'
    BY <2>1, <2>3, <2>4, Zenon DEF ItmUnmounts
  <2>6. ItmRequestsInv'
    BY <2>1 DEF ItmUnmounts, ItmRequestsInv, ItmAnswers
  <2>. QED
    BY <2>5, <2>6
<1>11. ASSUME ItmReturn
       PROVE  ItmInv'
  <2>1. \A r \in itmRequests : r.mount # itmMount' /\ r.mount \in 1..itmMount'
    BY <1>11 DEF ItmReturn
  <2>2. ItmTypeOK'
    BY <1>11, <2>1 DEF ItmReturn
  <2>3. ItmRequestsInv'
    BY <1>11, <2>1 DEF ItmReturn, ItmRequestsInv, ItmAnswers
  <2>. QED
    BY <2>2, <2>3
<1>12. ASSUME NEW r \in itmRequests, ItmStored(r)
       PROVE  ItmInv'
  <2> DEFINE done == [r EXCEPT !.done = TRUE]
  <2>1. /\ itmRequests' = (itmRequests \ {r}) \cup {done}
        /\ done.kind = r.kind /\ done.text = r.text /\ done.mount = r.mount
    BY <1>12 DEF ItmStored
  <2>2. done \in [kind : {"edit", "delete"}, text : 0..MaxVersions, nr : 0..MaxItemMoves,
                  mount : 1..itmMount, done : BOOLEAN]
    OBVIOUS
  <2>3. srvText' \in 0..MaxVersions /\ srvThere' \in BOOLEAN
    BY <1>12 DEF ItmStored
  <2>4. ItmTypeOK'
    BY <1>12, <2>1, <2>2, <2>3 DEF ItmStored
  <2> HIDE DEF done
  <2>5. ItmRequestsInv'
    BY <1>12, <2>1 DEF ItmStored, ItmRequestsInv, ItmAnswers
  <2>. QED
    BY <2>4, <2>5
<1>13. ASSUME NEW r \in itmRequests, ItmSaved(r) \/ ItmSaveFails(r) \/ ItmDeleted(r) \/ ItmDeleteFails(r)
       PROVE  ItmInv'
  <2>1. /\ itmRequests' = itmRequests \ {r} /\ itmLoading' = (itmLoading /\ ~ItmAnswers(r))
        /\ UNCHANGED <<itmThere, itmMount, itmOwn, itmText>>
        /\ itmEditing' \in {itmEditing, itmEditing /\ ~ItmAnswers(r)}
        /\ itmModal' \in {itmModal, itmModal /\ ~ItmAnswers(r)}
    BY <1>13, Zenon DEF ItmSaved, ItmSaveFails, ItmDeleted, ItmDeleteFails
  <2>2. ItmTypeOK'
    BY <1>13, <2>1, ZenonT(60) DEF ItmSaved, ItmSaveFails, ItmDeleted, ItmDeleteFails
  <2>3. ItmRequestsInv'
    BY <2>1 DEF ItmRequestsInv, ItmAnswers
  <2>. QED
    BY <2>2, <2>3
<1>14. CASE UNCHANGED itmVars
  <2>1. ItmTypeOK'
    BY <1>14 DEF itmVars
  <2>2. ItmRequestsInv'
    BY <1>14 DEF itmVars, ItmRequestsInv, ItmAnswers
  <2>. QED
    BY <2>1, <2>2
<1>. QED
  BY <1>1, <1>2, <1>3, <1>4, <1>5, <1>6, <1>7, <1>8, <1>9, <1>10, <1>11, <1>12, <1>13, <1>14 DEF ItmNext

\* Whatever is opened, cancelled and opened again, and however often the channel is
\* left and opened again, an item has one request of its own under way, of either
\* kind, says so exactly then, only its author has sent it, and an edit is of the
\* text in the box (MessageItem.tsx handleSaveEdit, handleDelete; DeleteMessageModal.tsx).
THEOREM OneRequestPerMessage == ItmSpec => []OneRequest
<1>1. ItmSpec => []ItmInv
  BY ItmInitially, ItmStep, PTL DEF ItmSpec
<1>2. ItmInv => OneRequest
  BY DEF ItmInv, ItmRequestsInv, OneRequest
<1>. QED
  BY <1>1, <1>2, PTL

-----------------------------------------------------------------------------
(* The composer.  That a text is sent once rests on texts growing with the  *)
(* edits, and on a send that still answers to the box being of what is in   *)
(* it, or of what was before a mention was clicked.                         *)

\* Texts grow with the edits; a send that no longer answers to the box on the
\* page is of a text that is not in it.
BoxInv ==
  /\ \A s, t \in cmpSends : s.mount = t.mount => s = t
  /\ \A s \in cmpSends : Answers(s) => cmpBox = IF cmpLate = 0 THEN s.text ELSE cmpLate
  /\ cmpLate # 0 => cmpUploading
  /\ cmpBox \notin cmpAccepted
  /\ cmpBox <= cmpKeys
  /\ \A a \in cmpAccepted : a <= cmpKeys
  /\ \A s \in cmpSends : s.text <= cmpKeys
  /\ \A s \in cmpSends : ~Answers(s) /\ s.text # 0 => cmpBox # s.text
  /\ ~cmpHere => cmpBox = 0

\* The box says that it sends exactly while one of its sends is under way.
Busy == cmpUploading <=> \E s \in cmpSends : Answers(s)

\* What a step does to the box and its sends.
BoxSame == UNCHANGED <<cmpPlace, cmpBox, cmpUploading, cmpSends, cmpGhost>>

Written ==
  /\ cmpHere /\ ~cmpUploading /\ cmpKeys < MaxKeys
  /\ cmpKeys' = cmpKeys + 1 /\ cmpBox' \in {0, cmpKeys + 1}
  /\ UNCHANGED <<cmpPlace, cmpUploading, cmpSends, cmpAccepted, cmpLate>>

MentionWritten ==
  /\ cmpHere /\ Completed
  /\ cmpLate' = IF cmpUploading THEN cmpBox' ELSE 0
  /\ UNCHANGED <<cmpPlace, cmpUploading, cmpSends, cmpAccepted>>

Submitted ==
  /\ cmpHere /\ ~cmpUploading /\ cmpUploading'
  /\ cmpSends' = cmpSends \cup {[text |-> cmpBox, mount |-> cmpMount]}
  /\ UNCHANGED <<cmpPlace, cmpBox, cmpGhost>>

Gone ==
  /\ cmpHere' = FALSE /\ cmpBox' = 0 /\ ~cmpUploading' /\ cmpLate' = 0
  /\ UNCHANGED <<cmpMount, cmpSends, cmpKeys, cmpAccepted>>

Back ==
  /\ ~cmpHere /\ cmpHere' /\ cmpMount' = cmpMount + 1
  /\ UNCHANGED <<cmpBox, cmpUploading, cmpSends, cmpGhost>>

\* Each step does one of these.
LEMMA BoxEffects ==
  ASSUME BoxInv, CmpNext
  PROVE  \/ BoxSame \/ Written \/ MentionWritten \/ Submitted \/ Gone \/ Back
         \/ \E s \in cmpSends : CmpSent(s) \/ CmpSendFails(s)
<1> USE DEF boxVars, cmpText, cmpForm, cmpPlace, cmpGhost
<1>1. ASSUME CmpType \/ CmpInsertAt PROVE Written
  BY <1>1 DEF CmpType, CmpInsertAt, CmpUsable, Written
<1>2. ASSUME CmpCursor \/ CmpArrow \/ CmpEscape \/ CmpChooseFile PROVE BoxSame
  BY <1>2 DEF CmpCursor, CmpArrow, CmpEscape, CmpChooseFile, BoxSame
<1>3. ASSUME CmpRemoveFile \/ CmpSwitch \/ NtcArrives \/ NtcEffect \/ NtcTimeout PROVE BoxSame
  BY <1>3 DEF CmpRemoveFile, CmpSwitch, NtcArrives, NtcEffect, NtcTimeout, BoxSame
<1>4. ASSUME CmpComplete \/ CmpPick PROVE MentionWritten
  BY <1>4 DEF CmpComplete, CmpPick, CmpUsable, ListVisible, MentionWritten, BoxInv
<1>5. ASSUME CmpSubmit PROVE Submitted
  BY <1>5 DEF CmpSubmit, CmpUsable, Submitted
<1>6. ASSUME CmpUnmount PROVE Gone
  BY <1>6 DEF CmpUnmount, Gone
<1>7. ASSUME CmpMountAgain PROVE Back
  BY <1>7 DEF CmpMountAgain, Back
<1>. QED
  BY <1>1, <1>2, <1>3, <1>4, <1>5, <1>6, <1>7, Zenon DEF CmpNext

\* The sends of the box, and its flag.
LEMMA BoxStep ==
  ASSUME BoxTypes, BoxInv, Busy, CmpNext
  PROVE  BoxInv'
<1> USE ComposerConstantsOK DEF BoxTypes, BoxInv, Answers, cmpPlace, cmpGhost
<1>1. ASSUME BoxSame PROVE BoxInv'
  BY <1>1 DEF BoxSame
<1>2. ASSUME Written PROVE BoxInv'
  <2>1. \A s \in cmpSends : s.mount # cmpMount
    BY <1>2 DEF Busy, Written
  <2>. QED
    BY <1>2, <2>1 DEF Written
<1>3. ASSUME MentionWritten PROVE BoxInv'
  <2>1. cmpKeys' = cmpKeys + 1 /\ cmpBox' \in {cmpBox, cmpKeys'} /\ cmpBox' # 0
    BY <1>3 DEF MentionWritten, Completed
  <2>2. ~cmpUploading => \A s \in cmpSends : s.mount # cmpMount
    BY <1>3 DEF Busy, MentionWritten
  <2>. QED
    BY <1>3, <2>1, <2>2 DEF MentionWritten
<1>4. ASSUME Submitted PROVE BoxInv'
  <2>1. \A s \in cmpSends : s.mount # cmpMount
    BY <1>4 DEF Busy, Submitted
  <2>. QED
    BY <1>4, <2>1 DEF Submitted
<1>5. ASSUME Gone PROVE BoxInv'
  BY <1>5 DEF Gone
<1>6. ASSUME Back PROVE BoxInv'
  BY <1>6 DEF Back
<1>7. ASSUME NEW s \in cmpSends, CmpSent(s) PROVE BoxInv'
  BY <1>7 DEF CmpSent
<1>8. ASSUME NEW s \in cmpSends, CmpSendFails(s) PROVE BoxInv'
  BY <1>8 DEF CmpSendFails, cmpText
<1>. QED
  BY <1>1, <1>2, <1>3, <1>4, <1>5, <1>6, <1>7, <1>8, BoxEffects

LEMMA BusyStep ==
  ASSUME BoxTypes, BoxInv, Busy, CmpNext
  PROVE  Busy'
<1> USE DEF Busy, Answers, cmpPlace
<1>1. ASSUME BoxSame \/ MentionWritten \/ Written PROVE Busy'
  BY <1>1 DEF BoxSame, MentionWritten, Written
<1>4. ASSUME Submitted PROVE Busy'
  <2>1. [text |-> cmpBox, mount |-> cmpMount] \in cmpSends'
    BY <1>4, Zenon DEF Submitted
  <2>2. [text |-> cmpBox, mount |-> cmpMount].mount = cmpMount' /\ cmpHere'
    BY <1>4 DEF Submitted
  <2>. QED
    BY <1>4, <2>1, <2>2, Zenon DEF Submitted
<1>5. ASSUME Gone PROVE Busy'
  BY <1>5 DEF Gone
<1>6. ASSUME Back PROVE Busy'
  <2>1. \A s \in cmpSends : s.mount # cmpMount'
    BY <1>6 DEF Back, BoxTypes
  <2>. QED
    BY <1>6, <2>1, Zenon DEF Back
<1>7. ASSUME NEW s \in cmpSends, CmpSent(s) PROVE Busy'
  BY <1>7 DEF CmpSent, BoxInv
<1>8. ASSUME NEW s \in cmpSends, CmpSendFails(s) PROVE Busy'
  BY <1>8 DEF CmpSendFails, BoxInv
<1>. QED
  BY <1>1, <1>4, <1>5, <1>6, <1>7, <1>8, BoxEffects

\* When a text leaves the box.
LEMMA DraftStep ==
  ASSUME BoxTypes, BoxInv, CmpNext, cmpBox # 0, cmpBox' # cmpBox
  PROVE  \/ cmpKeys' # cmpKeys
         \/ cmpBox \in cmpAccepted'
         \/ cmpHere' = FALSE
         \/ cmpBox = cmpLate /\ OwnSendSucceeds
<1>1. ASSUME BoxSame PROVE FALSE
  BY <1>1 DEF BoxSame
<1>2. ASSUME Written \/ MentionWritten PROVE cmpKeys' # cmpKeys
  BY <1>2 DEF Written, MentionWritten, Completed, BoxTypes
<1>3. ASSUME Submitted \/ Back PROVE FALSE
  BY <1>3 DEF Submitted, Back
<1>4. ASSUME Gone PROVE cmpHere' = FALSE
  BY <1>4 DEF Gone
<1>5. ASSUME NEW s \in cmpSends, CmpSent(s)
      PROVE  cmpBox \in cmpAccepted' \/ (cmpBox = cmpLate /\ OwnSendSucceeds)
  <2>1. Answers(s)
    BY <1>5 DEF CmpSent
  <2>2. s \in cmpSends \ cmpSends' /\ s.text \in cmpAccepted' \cup {0}
    BY <1>5 DEF CmpSent
  <2>3. CASE cmpLate = 0
    BY <2>1, <2>2, <2>3 DEF BoxInv
  <2>4. CASE cmpLate # 0
    BY <2>1, <2>2, <2>4 DEF BoxInv, OwnSendSucceeds
  <2>. QED
    BY <2>3, <2>4
<1>6. ASSUME NEW s \in cmpSends, CmpSendFails(s) PROVE FALSE
  BY <1>6 DEF CmpSendFails, cmpText
<1>. QED
  BY <1>1, <1>2, <1>3, <1>4, <1>5, <1>6, BoxEffects

\* The types of the rest.
LEMMA CmpFlagsStep ==
  ASSUME CmpFlags, CmpNext
  PROVE  CmpFlags'
<1> USE DEF CmpFlags, boxVars, cmpText, cmpForm, cmpPlace, InputChanged
<1>1. ASSUME CmpType PROVE CmpFlags'
  BY <1>1 DEF CmpType
<1>2. ASSUME CmpInsertAt PROVE CmpFlags'
  BY <1>2 DEF CmpInsertAt
<1>3. ASSUME CmpCursor PROVE CmpFlags'
  BY <1>3 DEF CmpCursor
<1>4. ASSUME CmpArrow PROVE CmpFlags'
  BY <1>4 DEF CmpArrow
<1>5. ASSUME CmpEscape PROVE CmpFlags'
  BY <1>5 DEF CmpEscape
<1>6. ASSUME CmpComplete PROVE CmpFlags'
  BY <1>6 DEF CmpComplete
<1>7. ASSUME CmpPick PROVE CmpFlags'
  BY <1>7 DEF CmpPick
<1>8. ASSUME CmpChooseFile PROVE CmpFlags'
  BY <1>8 DEF CmpChooseFile
<1>9. ASSUME CmpRemoveFile PROVE CmpFlags'
  BY <1>9 DEF CmpRemoveFile
<1>10. ASSUME CmpSubmit PROVE CmpFlags'
  BY <1>10 DEF CmpSubmit
<1>11. ASSUME NEW s \in cmpSends, CmpSent(s) PROVE CmpFlags'
  BY <1>11 DEF CmpSent
<1>12. ASSUME NEW s \in cmpSends, CmpSendFails(s) PROVE CmpFlags'
  BY <1>12 DEF CmpSendFails
<1>13. ASSUME CmpUnmount PROVE CmpFlags'
  BY <1>13 DEF CmpUnmount
<1>14. ASSUME CmpMountAgain PROVE CmpFlags'
  BY <1>14 DEF CmpMountAgain
<1>15. ASSUME CmpSwitch PROVE CmpFlags'
  BY <1>15 DEF CmpSwitch
<1>16. ASSUME NtcArrives PROVE CmpFlags'
  BY <1>16 DEF NtcArrives
<1>17. ASSUME NtcEffect PROVE CmpFlags'
  BY <1>17 DEF NtcEffect
<1>18. ASSUME NtcTimeout PROVE CmpFlags'
  BY <1>18 DEF NtcTimeout
<1>. QED
  BY <1>1, <1>2, <1>3, <1>4, <1>5, <1>6, <1>7, <1>8, <1>9, <1>10, <1>11, <1>12, <1>13, <1>14,
     <1>15, <1>16, <1>17, <1>18, Zenon DEF CmpNext

LEMMA BoxTypesStep ==
  ASSUME BoxTypes, BoxInv, CmpNext
  PROVE  BoxTypes'
<1> USE ComposerConstantsOK DEF BoxTypes
<1>1. cmpMoves' \in 0..MaxMoves
  <2>1. CmpMove \/ UNCHANGED cmpMoves
    BY DEF CmpNext, CmpType, CmpInsertAt, CmpCursor, CmpArrow, CmpEscape, CmpComplete, CmpPick,
           CmpChooseFile, CmpRemoveFile, CmpSubmit, CmpSent, CmpSendFails, CmpUnmount, CmpMountAgain,
           CmpSwitch, NtcArrives, NtcEffect, NtcTimeout
  <2>. QED
    BY <2>1 DEF CmpMove
<1> DEFINE Rest == /\ cmpMount' \in Nat \ {0} /\ cmpBox' \in 0..MaxKeys /\ cmpKeys' \in 0..MaxKeys
                   /\ cmpLate' \in 0..MaxKeys
                   /\ cmpSends' \subseteq [text : 0..MaxKeys, mount : 1..cmpMount']
                   /\ cmpAccepted' \subseteq 1..MaxKeys
<1>2. ASSUME BoxSame PROVE Rest
  BY <1>2 DEF BoxSame, cmpPlace, cmpGhost
<1>3. ASSUME Written PROVE Rest
  BY <1>3 DEF Written, cmpPlace
<1>4. ASSUME MentionWritten PROVE Rest
  BY <1>4 DEF MentionWritten, Completed, cmpPlace, cmpGhost
<1>5. ASSUME Submitted PROVE Rest
  BY <1>5 DEF Submitted, cmpPlace, cmpGhost
<1>6. ASSUME Gone PROVE Rest
  BY <1>6 DEF Gone, cmpGhost
<1>7. ASSUME Back PROVE Rest
  BY <1>7 DEF Back, cmpGhost
<1>8. ASSUME NEW s \in cmpSends, CmpSent(s) PROVE Rest
  <2>1. /\ UNCHANGED <<cmpMount, cmpKeys>> /\ cmpSends' = cmpSends \ {s}
        /\ cmpBox' \in {0, cmpBox} /\ cmpLate' \in {0, cmpLate}
    BY <1>8 DEF CmpSent, cmpPlace
  <2>2. cmpAccepted' = cmpAccepted \cup ({s.text} \ {0})
    BY <1>8 DEF CmpSent
  <2>3. s.text \in 0..MaxKeys
    OBVIOUS
  <2>4. {s.text} \ {0} \subseteq 1..MaxKeys
    BY <2>3
  <2>5. cmpAccepted' \subseteq 1..MaxKeys
    BY <2>2, <2>4
  <2>. QED
    BY <2>1, <2>5
<1>9. ASSUME NEW s \in cmpSends, CmpSendFails(s) PROVE Rest
  BY <1>9 DEF CmpSendFails, cmpPlace, cmpText, cmpGhost
<1>10. Rest
  BY <1>2, <1>3, <1>4, <1>5, <1>6, <1>7, <1>8, <1>9, BoxEffects
<1>. QED
  BY <1>1, <1>10

\* The list of the mentions.
LEMMA ListStep ==
  ASSUME ListTypes, CmpNext
  PROVE  ListTypes'
<1> USE ComposerConstantsOK DEF ListTypes, boxVars, cmpText, InputChanged
<1>1. ASSUME CmpType \/ CmpInsertAt \/ CmpCursor PROVE ListTypes'
  BY <1>1 DEF CmpType, CmpInsertAt, CmpCursor
<1>2. ASSUME CmpArrow PROVE ListTypes'
  BY <1>2 DEF CmpArrow
<1>3. ASSUME CmpEscape \/ CmpComplete \/ CmpPick PROVE ListTypes'
  BY <1>3 DEF CmpEscape, CmpComplete, CmpPick
<1>4. ASSUME CmpChooseFile \/ CmpRemoveFile \/ CmpSubmit PROVE ListTypes'
  BY <1>4 DEF CmpChooseFile, CmpRemoveFile, CmpSubmit
<1>5. ASSUME NEW s \in cmpSends, CmpSent(s) \/ CmpSendFails(s) PROVE ListTypes'
  BY <1>5 DEF CmpSent, CmpSendFails
<1>6. ASSUME CmpUnmount \/ CmpMountAgain \/ CmpSwitch PROVE ListTypes'
  BY <1>6 DEF CmpUnmount, CmpMountAgain, CmpSwitch
<1>7. ASSUME NtcArrives \/ NtcEffect \/ NtcTimeout PROVE ListTypes'
  BY <1>7 DEF NtcArrives, NtcEffect, NtcTimeout
<1>. QED
  BY <1>1, <1>2, <1>3, <1>4, <1>5, <1>6, <1>7 DEF CmpNext

\* The notice: a message waits for an agent only if it was the user's own, and
\* once the effect has run its timer is there only for the last one.
NtcInv ==
  /\ ntcLast.id <= ntcArrivals /\ ntcPending <= ntcArrivals
  /\ ntcLast.id = 0 => ~ntcLast.mine
  /\ ntcShown => ntcPending # 0
  /\ ntcPending # 0 /\ ntcLast.id = ntcPending => ntcLast.mine
  /\ ~ntcDue /\ ntcTimer # 0 => ntcAgent /\ ntcLast.mine /\ ntcPending = ntcLast.id /\ ntcTimer = ntcLast.id
  /\ NoticeTruthful

\* The notice's invariant at the start and over each of its steps.
LEMMA NtcInitially ==
  ASSUME CmpInit
  PROVE  NtcTypes /\ NtcInv
<1>1. ntcLast = [id |-> 0, mine |-> FALSE] /\ ntcArrivals = 0 /\ ntcPending = 0 /\ ntcTimer = 0
  BY DEF CmpInit, NoMessage
<1>2. ntcAgent = FALSE /\ ntcShown = FALSE /\ ntcDue = FALSE
  BY DEF CmpInit
<1>3. NtcTypes
  <2>1. ntcLast \in [id : 0..MaxArrivals, mine : BOOLEAN]
    BY <1>1, ComposerConstantsOK
  <2>2. ntcArrivals \in 0..MaxArrivals /\ ntcPending \in 0..MaxArrivals /\ ntcTimer \in 0..MaxArrivals
    BY <1>1, ComposerConstantsOK
  <2>3. ntcAgent \in BOOLEAN /\ ntcShown \in BOOLEAN /\ ntcDue \in BOOLEAN
    BY <1>2
  <2>. QED
    BY <2>1, <2>2, <2>3, Zenon DEF NtcTypes
<1>. QED
  BY <1>1, <1>2, <1>3 DEF NtcInv, NoticeTruthful

LEMMA NtcArrivalStep ==
  ASSUME NtcTypes, NtcInv, NtcArrives
  PROVE  NtcTypes' /\ NtcInv'
<1> USE ComposerConstantsOK DEF NtcTypes, NtcInv, NoticeTruthful
<1>1. /\ ntcArrivals' = ntcArrivals + 1 /\ ntcArrivals' \in 0..MaxArrivals
      /\ UNCHANGED <<ntcPending, ntcTimer>>
  BY DEF NtcArrives
<1>2. UNCHANGED <<ntcAgent, ntcShown>> /\ ntcDue' = TRUE
  BY DEF NtcArrives
<1>3. \/ \E mine \in BOOLEAN : ntcLast' = [id |-> ntcArrivals', mine |-> mine]
      \/ ntcLast' = [id |-> 0, mine |-> FALSE]
  BY DEF NtcArrives, NoMessage
<1>4. ntcLast' \in [id : 0..MaxArrivals, mine : BOOLEAN] /\ ntcLast'.id \in {0, ntcArrivals'}
      /\ (ntcLast'.id = 0 => ~ntcLast'.mine)
  <2>1. CASE ntcLast' = [id |-> 0, mine |-> FALSE]
    BY <2>1
  <2>2. ASSUME NEW mine \in BOOLEAN, ntcLast' = [id |-> ntcArrivals', mine |-> mine]
        PROVE  /\ ntcLast' \in [id : 0..MaxArrivals, mine : BOOLEAN]
               /\ ntcLast'.id \in {0, ntcArrivals'} /\ (ntcLast'.id = 0 => ~ntcLast'.mine)
    <3>1. ntcArrivals' # 0
      BY <1>1
    <3>. QED
      BY <1>1, <2>2, <3>1
  <2>. QED
    BY <1>3, <2>1, <2>2
<1>5. NtcTypes'
  BY <1>1, <1>2, <1>4
<1>. QED
  BY <1>1, <1>2, <1>4, <1>5

LEMMA NtcEffectStep ==
  ASSUME NtcTypes, NtcInv, NtcEffect
  PROVE  NtcTypes' /\ NtcInv'
<1> USE DEF NtcTypes, NtcInv, NoticeTruthful
<1>1. UNCHANGED <<ntcLast, ntcArrivals, ntcAgent>> /\ ~ntcDue' /\ ntcDue' \in BOOLEAN
  BY DEF NtcEffect
<1>2. ntcShown' = FALSE
  BY DEF NtcEffect, NoticeAfter
<1>3. CASE ntcAgent /\ ntcLast.mine
  <2>1. ntcPending' = ntcLast.id /\ ntcTimer' = ntcLast.id
    BY <1>3 DEF NtcEffect
  <2>. QED
    BY <1>1, <1>2, <1>3, <2>1
<1>4. CASE ~(ntcAgent /\ ntcLast.mine)
  <2>1. ntcPending' = 0 /\ ntcTimer' = 0
    BY <1>4 DEF NtcEffect
  <2>2. ntcPending' \in 0..MaxArrivals /\ ntcTimer' \in 0..MaxArrivals
    BY <2>1, ComposerConstantsOK
  <2>3. NtcTypes'
    BY <1>1, <1>2, <2>2
  <2>. QED
    BY <1>1, <1>2, <2>1, <2>3
<1>. QED
  BY <1>3, <1>4

LEMMA NtcTimeoutStep ==
  ASSUME NtcTypes, NtcInv, NtcTimeout
  PROVE  NtcTypes' /\ NtcInv'
<1> USE ComposerConstantsOK DEF NtcTypes, NtcInv, NoticeTruthful
<1>1. UNCHANGED <<ntcLast, ntcArrivals, ntcPending>> /\ ntcTimer # 0 /\ ntcTimer' = 0
  BY DEF NtcTimeout
<1>2. UNCHANGED <<ntcAgent, ntcDue>>
  BY DEF NtcTimeout
<1>3. ntcShown' = (ntcShown \/ ntcPending = ntcTimer)
  BY DEF NtcTimeout
<1>4. ntcShown' \in BOOLEAN /\ (ntcShown' => ntcPending' # 0)
  BY <1>1, <1>3
<1>5. ~ntcDue' => ntcAgent' /\ ntcLast'.mine /\ ntcPending' = ntcLast'.id
  BY <1>1, <1>2
<1>. QED
  BY <1>1, <1>2, <1>4, <1>5

LEMMA NtcStep ==
  ASSUME NtcTypes, NtcInv, CmpNext
  PROVE  NtcTypes' /\ NtcInv'
<1>1. ASSUME CmpSwitch PROVE NtcTypes' /\ NtcInv'
  <2>1. UNCHANGED <<ntcLast, ntcArrivals, ntcPending, ntcTimer, ntcShown>> /\ ntcDue' = TRUE /\ ntcAgent' \in BOOLEAN
    BY <1>1 DEF CmpSwitch
  <2>. QED
    BY <2>1, ComposerConstantsOK DEF NtcTypes, NtcInv, NoticeTruthful
<1>2. UNCHANGED ntcVars \/ CmpSwitch \/ NtcArrives \/ NtcEffect \/ NtcTimeout
  BY DEF CmpNext, CmpType, CmpInsertAt, CmpCursor, CmpArrow, CmpEscape, CmpComplete, CmpPick,
         CmpChooseFile, CmpRemoveFile, CmpSubmit, CmpSent, CmpSendFails, CmpUnmount, CmpMountAgain
<1>3. ASSUME UNCHANGED ntcVars PROVE NtcTypes' /\ NtcInv'
  BY <1>3, ComposerConstantsOK DEF ntcVars, NtcTypes, NtcInv, NoticeTruthful
<1>. QED
  BY <1>1, <1>2, <1>3, NtcArrivalStep, NtcEffectStep, NtcTimeoutStep

\* Together.
CmpIInv == CmpTypeOK /\ BoxInv /\ Busy /\ NtcInv

\* The invariant implies the properties.
LEMMA CmpIInvImplies == CmpIInv => ComposerInv /\ NoticeTruthful
BY DEF CmpIInv, ComposerInv, BoxInv, Busy, NtcInv

LEMMA CmpInitially == CmpInit => CmpIInv
<1> SUFFICES ASSUME CmpInit PROVE CmpIInv
  OBVIOUS
<1> USE ComposerConstantsOK
<1>1. CmpFlags
  BY DEF CmpInit, CmpFlags
<1>2. ListTypes
  BY DEF CmpInit, ListTypes
<1>3. BoxTypes
  BY DEF CmpInit, BoxTypes
<1>4. BoxInv
  BY DEF CmpInit, BoxInv
<1>5. Busy
  BY DEF CmpInit, Busy
<1>. QED
  BY <1>1, <1>2, <1>3, <1>4, <1>5, NtcInitially DEF CmpIInv, CmpTypeOK

LEMMA CmpStep == CmpIInv /\ [CmpNext]_cmpVars => CmpIInv'
<1> SUFFICES ASSUME CmpIInv, [CmpNext]_cmpVars PROVE CmpIInv'
  OBVIOUS
<1>1. CASE CmpNext
  BY <1>1, CmpFlagsStep, ListStep, BoxTypesStep, BoxStep, BusyStep, NtcStep DEF CmpIInv,
     CmpTypeOK
<1>2. CASE UNCHANGED cmpVars
  <2> USE <1>2 DEF cmpVars, boxVars, cmpText, cmpForm, cmpPlace, cmpGhost
  <2>1. CmpFlags' /\ ListTypes' /\ BoxTypes'
    BY DEF CmpIInv, CmpTypeOK, CmpFlags, ListTypes, BoxTypes
  <2>2. BoxInv' /\ Busy'
    BY DEF CmpIInv, BoxInv, Busy, Answers
  <2>3. NtcTypes' /\ NtcInv'
    BY DEF CmpIInv, CmpTypeOK, NtcTypes, NtcInv, NoticeTruthful, ntcVars
  <2>. QED
    BY <2>1, <2>2, <2>3 DEF CmpIInv, CmpTypeOK
<1>. QED
  BY <1>1, <1>2

\* For any number of edits, sends, switches and mounts: a box has one send at most
\* under way, exactly while it says so, of the text it shows unless a mention was
\* clicked since, and a text that was accepted is never in a box again
\* (MessageInput.tsx handleSubmit, handleMentionSelect; useMentions.tsx selectMention).
THEOREM TextSentOnce == CmpSpec => []ComposerInv
<1>. QED
  BY CmpInitially, CmpStep, CmpIInvImplies, PTL DEF CmpSpec

\* For any number of messages: the notice that no agent replied stands only under a
\* last message of the user's own (ChatPage.tsx, the effect of the agent's timeout).
THEOREM NoticeHolds == CmpSpec => []NoticeTruthful
<1>. QED
  BY CmpInitially, CmpStep, CmpIInvImplies, PTL DEF CmpSpec

\* For any number of edits and sends: a text leaves the box only by an edit, with a
\* send of it that succeeded, or with the box, but for the text that a mention
\* clicked during a send made, which the success of that send clears
\* (MessageInput.tsx handleSubmit, handleMentionSelect).
THEOREM DraftKept == CmpSpec => DraftSafe
<1>1. CmpIInv /\ [CmpNext]_cmpVars
      => [(cmpBox # 0 /\ cmpBox' # cmpBox)
          => \/ cmpKeys' # cmpKeys
             \/ cmpBox \in cmpAccepted'
             \/ cmpHere' = FALSE
             \/ cmpBox = cmpLate /\ OwnSendSucceeds]_cmpVars
  BY DraftStep DEF CmpIInv, CmpTypeOK
<1>. QED
  BY <1>1, CmpInitially, CmpStep, PTL DEF CmpSpec, DraftSafe

-----------------------------------------------------------------------------
(* The panels.  That a flag keeps a form from being sent twice rests on the *)
(* flag being set exactly while a request is under way, for the modal that  *)
(* can be opened again while one is: of this opening.                       *)

\* One creation at most, and the flag says so.
NewInv ==
  /\ \A r, s \in newRequests : r = s
  /\ newCreating <=> newRequests # {}

\* Openings and requests are numbered; one request of an opening.
DescNumbers ==
  /\ descOpenings <= pnlMoves /\ descSent <= pnlMoves /\ descOpen <= descOpenings
  /\ \A r \in descRequests : r.opening <= descOpenings
  /\ \A r, s \in descRequests : r.opening = s.opening => r = s

\* The flag is that of the request of this opening.
DescFlag == descSaving <=> \E r \in descRequests : r.opening = descOpen

DescInv == DescNumbers /\ DescFlag

\* What is due is a search for something.
FindInv == findDue => findQuery # 0

PnlInv == PnlTypeOK /\ NewInv /\ DescInv /\ FindInv

\* The invariant implies the property.
LEMMA PnlInvCounts == PnlInv => OneCreation
<1> SUFFICES ASSUME PnlInv PROVE Cardinality(newRequests) <= 1
  BY DEF PnlInv, NewInv, DescInv, DescNumbers, DescFlag, OneCreation
<1>1. CASE newRequests = {}
  BY <1>1, FS_EmptySet
<1>2. CASE newRequests # {}
  <2>1. PICK r \in newRequests : newRequests = {r}
    BY <1>2 DEF PnlInv, NewInv
  <2>2. Cardinality({r}) = 1
    BY FS_Singleton
  <2>. QED
    BY <2>1, <2>2
<1>. QED
  BY <1>1, <1>2

\* The flags stay Boolean.
LEMMA Flags ==
  ASSUME PnlFlags, PnlNext
  PROVE  PnlFlags'
<1> USE DEF PnlFlags
<1>1. ASSUME NewOpen PROVE PnlFlags'
  BY <1>1 DEF NewOpen, NewOpened, descVars, dmVars, memVars, findVars
<1>2. ASSUME NewType PROVE PnlFlags'
  BY <1>2 DEF NewType, descVars, dmVars, memVars, findVars
<1>3. ASSUME NewSubmit PROVE PnlFlags'
  BY <1>3 DEF NewSubmit, descVars, dmVars, memVars, findVars
<1>4. ASSUME NewClose PROVE PnlFlags'
  BY <1>4 DEF NewClose, descVars, dmVars, memVars, findVars
<1>5. ASSUME NEW r \in newRequests, NewAnswered(r) PROVE PnlFlags'
  BY <1>5 DEF NewAnswered, descVars, dmVars, memVars, findVars
<1>6. ASSUME DescOpen PROVE PnlFlags'
  BY <1>6 DEF DescOpen, newVars, dmVars, memVars, findVars
<1>7. ASSUME DescSave PROVE PnlFlags'
  BY <1>7 DEF DescSave, newVars, dmVars, memVars, findVars
<1>8. ASSUME DescClose PROVE PnlFlags'
  BY <1>8 DEF DescClose, newVars, dmVars, memVars, findVars
<1>9. ASSUME NEW r \in descRequests, DescAnswered(r) PROVE PnlFlags'
  BY <1>9, ZenonT(30) DEF DescAnswered, newVars, dmVars, memVars, findVars
<1>10. ASSUME DmOpen PROVE PnlFlags'
  BY <1>10 DEF DmOpen, newVars, descVars, memVars, findVars
<1>11. ASSUME DmUsersLoaded PROVE PnlFlags'
  BY <1>11 DEF DmUsersLoaded, newVars, descVars, memVars, findVars
<1>12. ASSUME DmSearch PROVE PnlFlags'
  BY <1>12 DEF DmSearch, newVars, descVars, memVars, findVars
<1>13. ASSUME DmCreate PROVE PnlFlags'
  BY <1>13 DEF DmCreate, newVars, descVars, memVars, findVars
<1>14. ASSUME DmClose PROVE PnlFlags'
  BY <1>14 DEF DmClose, newVars, descVars, memVars, findVars
<1>15. ASSUME NEW r \in dmRequests, DmAnswered(r) PROVE PnlFlags'
  BY <1>15 DEF DmAnswered, newVars, descVars, memVars, findVars
<1>16. ASSUME NEW r \in 1..2, MemShow(r) PROVE PnlFlags'
  BY <1>16 DEF MemShow, newVars, descVars, dmVars, findVars
<1>17. ASSUME NEW r \in 1..2, MemLoaded(r) PROVE PnlFlags'
  BY <1>17 DEF MemLoaded, newVars, descVars, dmVars, findVars
<1>18. ASSUME MemHide PROVE PnlFlags'
  BY <1>18 DEF MemHide, newVars, descVars, dmVars, findVars
<1>19. ASSUME FindQuery PROVE PnlFlags'
  BY <1>19 DEF FindQuery, newVars, descVars, dmVars, memVars
<1>20. ASSUME FindStarts PROVE PnlFlags'
  BY <1>20 DEF FindStarts, newVars, descVars, dmVars, memVars
<1>21. ASSUME FindClose PROVE PnlFlags'
  BY <1>21 DEF FindClose, newVars, descVars, dmVars, memVars
<1>22. ASSUME NEW r \in findRunning, FindAnswered(r) PROVE PnlFlags'
  BY <1>22 DEF FindAnswered, newVars, descVars, dmVars, memVars
<1>. QED
  BY <1>1, <1>2, <1>3, <1>4, <1>5, <1>6, <1>7, <1>8, <1>9, <1>10, <1>11, <1>12, <1>13, <1>14,
     <1>15, <1>16, <1>17, <1>18, <1>19, <1>20, <1>21, <1>22 DEF PnlNext, NewNext, DescNext,
     DmNext, MemNext, FindNext

LEMMA PnlInitially == PnlInit => PnlInv
<1> SUFFICES ASSUME PnlInit PROVE PnlInv
  OBVIOUS
<1> USE PanelConstantsOK
<1>1. pnlMoves \in 0..MaxPanelMoves /\ NewTypes /\ NewInv
  BY DEF PnlInit, NewTypes, NewInv
<1>4. PnlFlags
  BY DEF PnlInit, PnlFlags
<1>2. DescTypes /\ DescInv
  BY DEF PnlInit, DescTypes, DescInv, DescNumbers, DescFlag
<1>3. DmTypes /\ MemTypes /\ FindTypes /\ FindInv
  BY DEF PnlInit, DmTypes, MemTypes, FindTypes, FindInv
<1>. QED
  BY <1>1, <1>2, <1>3, <1>4 DEF PnlInv, PnlTypeOK

\* What a move does to the counter.
LEMMA MoveCounts ==
  ASSUME pnlMoves \in 0..MaxPanelMoves, PnlMove
  PROVE  pnlMoves' \in 1..MaxPanelMoves /\ pnlMoves' = pnlMoves + 1
BY PanelConstantsOK DEF PnlMove

\* The steps of each panel.
LEMMA NewStep ==
  ASSUME pnlMoves \in 0..MaxPanelMoves, NewTypes, NewInv, NewNext
  PROVE  NewTypes' /\ NewInv'
<1> USE DEF NewTypes, NewInv
<1>1. ASSUME NewOpen PROVE NewTypes' /\ NewInv'
  BY <1>1, PanelConstantsOK DEF NewOpen, NewOpened
<1>2. ASSUME NewType PROVE NewTypes' /\ NewInv'
  <2>1. PnlMove
    BY <1>2 DEF NewType
  <2>2. newName' \in {0, TooShort, pnlMoves'}
    BY <1>2 DEF NewType
  <2>3. NewTypes'
    <3>1. newRequests' = newRequests
      BY <1>2 DEF NewType
    <3>. QED
      BY <2>1, <2>2, <3>1, MoveCounts, PanelConstantsOK
  <2>4. NewInv'
    BY <1>2 DEF NewType
  <2>. QED
    BY <2>3, <2>4
<1>3. ASSUME NewSubmit PROVE NewTypes' /\ NewInv'
  <2>1. ~newCreating /\ newName \in 1..MaxPanelMoves
    BY <1>3 DEF NewSubmit, NewOffers
  <2>2. newRequests' = {newName}
    BY <1>3, <2>1 DEF NewSubmit
  <2>. QED
    BY <1>3, <2>1, <2>2 DEF NewSubmit
<1>4. ASSUME NewClose PROVE NewTypes' /\ NewInv'
  BY <1>4 DEF NewClose
<1>5. ASSUME NEW r \in newRequests, NewAnswered(r) PROVE NewTypes' /\ NewInv'
  BY <1>5 DEF NewAnswered
<1>. QED
  BY <1>1, <1>2, <1>3, <1>4, <1>5 DEF NewNext

LEMMA DescStep ==
  ASSUME pnlMoves \in 0..MaxPanelMoves, DescTypes, DescInv, DescNext
  PROVE  DescTypes' /\ DescInv'
<1> USE PanelConstantsOK DEF DescTypes, DescNumbers
<1>. DescNumbers /\ DescFlag
  BY DEF DescInv
<1>1. ASSUME DescOpen PROVE DescTypes' /\ DescInv'
  <2>1. pnlMoves' \in 1..MaxPanelMoves /\ pnlMoves' = pnlMoves + 1
    BY <1>1, MoveCounts DEF DescOpen
  <2>2. /\ descOpenings' = descOpenings + 1 /\ descOpen' = descOpenings + 1
        /\ descRequests' = descRequests /\ descSent' = descSent
    BY <1>1 DEF DescOpen
  <2>5. ~descSaving'
    BY <1>1 DEF DescOpen
  <2>3. DescTypes' /\ DescNumbers'
    BY <2>1, <2>2
  <2>4. \A r \in descRequests' : r.opening # descOpen'
    BY <2>2
  <2>. QED
    BY <2>5, <2>3, <2>4 DEF DescFlag, DescInv
<1>2. ASSUME DescSave PROVE DescTypes' /\ DescInv'
  <2>1. pnlMoves' \in 1..MaxPanelMoves /\ pnlMoves' = pnlMoves + 1
    BY <1>2, MoveCounts DEF DescSave
  <2>2. descOpen # 0 /\ ~descSaving
    BY <1>2 DEF DescSave, DescOffers
  <2>3. /\ descSent' = descSent + 1 /\ UNCHANGED <<descOpen, descOpenings>>
        /\ descRequests' = descRequests \cup {[opening |-> descOpen, nr |-> descSent + 1]}
    BY <1>2 DEF DescSave
  <2>9. descSaving'
    BY <1>2 DEF DescSave
  <2>4. [opening |-> descOpen, nr |-> descSent + 1] \in [opening : 1..MaxPanelMoves, nr : 1..MaxPanelMoves]
    BY <2>1, <2>2
  <2>5. DescTypes'
    BY <2>1, <2>3, <2>4
  <2>6. \A r \in descRequests : r.opening # descOpen
    BY <2>2 DEF DescFlag
  <2>7. DescNumbers'
    BY <2>1, <2>3, <2>6
  <2>8. \E r \in descRequests' : r.opening = descOpen'
    <3>1. [opening |-> descOpen, nr |-> descSent + 1] \in descRequests'
      BY <2>3, Zenon
    <3>2. [opening |-> descOpen, nr |-> descSent + 1].opening = descOpen'
      BY <2>3
    <3>. QED
      BY <3>1, <3>2, Zenon
  <2>. QED
    BY <2>9, <2>5, <2>7, <2>8 DEF DescFlag, DescInv
<1>3. ASSUME DescClose PROVE DescTypes' /\ DescInv'
  <2>1. pnlMoves' \in 1..MaxPanelMoves /\ pnlMoves' = pnlMoves + 1
    BY <1>3, MoveCounts DEF DescClose
  <2>2. descOpen' = 0 /\ UNCHANGED <<descRequests, descOpenings, descSent>>
    BY <1>3 DEF DescClose
  <2>5. ~descSaving'
    BY <1>3 DEF DescClose
  <2>3. DescTypes' /\ DescNumbers'
    BY <2>1, <2>2
  <2>4. \A r \in descRequests' : r.opening # descOpen'
    BY <2>2
  <2>. QED
    BY <2>5, <2>3, <2>4 DEF DescFlag, DescInv
<1>4. ASSUME NEW r \in descRequests, DescAnswered(r) PROVE DescTypes' /\ DescInv'
  <2>1. descRequests' = descRequests \ {r} /\ UNCHANGED <<descOpenings, descSent, pnlMoves>>
    BY <1>4 DEF DescAnswered
  <2>2. CASE descOpen' = 0 /\ descSaving' = FALSE
    <3>1. DescTypes' /\ DescNumbers'
      BY <2>1, <2>2, PanelConstantsOK
    <3>2. \A s \in descRequests' : s.opening # descOpen'
      BY <2>1, <2>2
    <3>. QED
      BY <2>2, <3>1, <3>2 DEF DescFlag, DescInv
  <2>3. CASE descOpen' = descOpen /\ descSaving' = (descSaving /\ r.opening # descOpen)
    <3>1. DescTypes' /\ DescNumbers'
      BY <2>1, <2>3
    <3>2. CASE r.opening = descOpen
      <4>1. \A s \in descRequests' : s.opening # descOpen'
        BY <2>1, <2>3, <3>2
      <4>2. ~descSaving'
        BY <2>3, <3>2
      <4>. QED
        BY <3>1, <4>1, <4>2 DEF DescFlag, DescInv
    <3>3. CASE r.opening # descOpen
      <4>1. (\E s \in descRequests' : s.opening = descOpen') <=> \E s \in descRequests : s.opening = descOpen
        BY <2>1, <2>3, <3>3
      <4>2. descSaving' <=> descSaving
        BY <2>3, <3>3
      <4>. QED
        BY <3>1, <4>1, <4>2, Zenon DEF DescFlag, DescInv
    <3>. QED
      BY <3>2, <3>3
  <2>. QED
    BY <1>4, <2>2, <2>3 DEF DescAnswered
<1>. QED
  BY <1>1, <1>2, <1>3, <1>4 DEF DescNext

LEMMA DmStep ==
  ASSUME pnlMoves \in 0..MaxPanelMoves, DmTypes, DmNext
  PROVE  DmTypes'
<1> USE DEF DmTypes
<1>1. ASSUME DmCreate PROVE DmTypes'
  BY <1>1 DEF DmCreate
<1>2. ASSUME DmOpen \/ DmUsersLoaded \/ DmSearch \/ DmClose PROVE DmTypes'
  BY <1>2 DEF DmOpen, DmUsersLoaded, DmSearch, DmClose
<1>3. ASSUME NEW r \in dmRequests, DmAnswered(r) PROVE DmTypes'
  BY <1>3 DEF DmAnswered
<1>. QED
  BY <1>1, <1>2, <1>3 DEF DmNext

LEMMA MemStep ==
  ASSUME MemTypes, MemNext
  PROVE  MemTypes'
<1> USE DEF MemTypes
<1>1. ASSUME NEW c \in 1..2, MemShow(c) PROVE MemTypes'
  BY <1>1 DEF MemShow
<1>2. ASSUME NEW c \in 1..2, MemLoaded(c) PROVE MemTypes'
  BY <1>2 DEF MemLoaded
<1>3. ASSUME MemHide PROVE MemTypes'
  BY <1>3 DEF MemHide
<1>. QED
  BY <1>1, <1>2, <1>3 DEF MemNext

LEMMA FindStep ==
  ASSUME pnlMoves \in 0..MaxPanelMoves, FindTypes, FindInv, FindNext
  PROVE  FindTypes' /\ FindInv'
<1> USE DEF FindTypes, FindInv
<1>1. ASSUME FindQuery PROVE FindTypes' /\ FindInv'
  BY <1>1, MoveCounts DEF FindQuery
<1>2. ASSUME FindStarts PROVE FindTypes' /\ FindInv'
  BY <1>2 DEF FindStarts
<1>3. ASSUME FindClose PROVE FindTypes' /\ FindInv'
  BY <1>3, PanelConstantsOK DEF FindClose
<1>4. ASSUME NEW q \in findRunning, FindAnswered(q) PROVE FindTypes' /\ FindInv'
  BY <1>4 DEF FindAnswered
<1>. QED
  BY <1>1, <1>2, <1>3, <1>4 DEF FindNext

\* The moves of all panels are counted alike.
LEMMA PanelMoves ==
  ASSUME pnlMoves \in 0..MaxPanelMoves, PnlNext
  PROVE  pnlMoves' \in 0..MaxPanelMoves /\ pnlMoves <= pnlMoves'
<1>1. PnlMove \/ UNCHANGED pnlMoves
  BY DEF PnlNext, NewNext, NewOpen, NewType, NewSubmit, NewClose, NewAnswered,
         DescNext, DescOpen, DescSave, DescClose, DescAnswered,
         DmNext, DmOpen, DmUsersLoaded, DmSearch, DmCreate, DmClose, DmAnswered,
         MemNext, MemShow, MemLoaded, MemHide, FindNext, FindQuery, FindStarts, FindClose, FindAnswered
<1>. QED
  BY <1>1, MoveCounts

\* A step of one panel leaves the others alone.
LEMMA OnePanel ==
  ASSUME PnlNext
  PROVE  \/ NewNext /\ UNCHANGED <<descVars, dmVars, memVars, findVars>>
         \/ DescNext /\ UNCHANGED <<newVars, dmVars, memVars, findVars>>
         \/ DmNext /\ UNCHANGED <<newVars, descVars, memVars, findVars>>
         \/ MemNext /\ UNCHANGED <<newVars, descVars, dmVars, findVars>>
         \/ FindNext /\ UNCHANGED <<newVars, descVars, dmVars, memVars>>
BY DEF PnlNext, NewNext, NewOpen, NewType, NewSubmit, NewClose, NewAnswered,
       DescNext, DescOpen, DescSave, DescClose, DescAnswered,
       DmNext, DmOpen, DmUsersLoaded, DmSearch, DmCreate, DmClose, DmAnswered,
       MemNext, MemShow, MemLoaded, MemHide, FindNext, FindQuery, FindStarts, FindClose, FindAnswered

LEMMA PnlStep == PnlInv /\ [PnlNext]_pnlVars => PnlInv'
<1> SUFFICES ASSUME PnlInv, [PnlNext]_pnlVars PROVE PnlInv'
  OBVIOUS
<1>1. pnlMoves \in 0..MaxPanelMoves /\ NewTypes /\ DescTypes /\ DmTypes /\ MemTypes /\ FindTypes
      /\ PnlFlags /\ NewInv /\ DescInv /\ FindInv
  BY DEF PnlInv, PnlTypeOK
<1>2. pnlMoves' \in 0..MaxPanelMoves /\ pnlMoves <= pnlMoves'
  <2>1. CASE PnlNext
    BY <1>1, <2>1, PanelMoves
  <2>2. CASE UNCHANGED pnlVars
    BY <1>1, <2>2, PanelConstantsOK DEF pnlVars
  <2>. QED
    BY <2>1, <2>2
<1>3. ASSUME UNCHANGED newVars PROVE NewTypes' /\ NewInv'
  BY <1>1, <1>3 DEF newVars, NewTypes, NewInv
<1>4. ASSUME UNCHANGED descVars PROVE DescTypes' /\ DescInv'
  BY <1>1, <1>2, <1>4, PanelConstantsOK DEF descVars, DescTypes, DescInv, DescNumbers, DescFlag
<1>5. ASSUME UNCHANGED dmVars PROVE DmTypes'
  BY <1>1, <1>5 DEF dmVars, DmTypes
<1>6. ASSUME UNCHANGED memVars PROVE MemTypes'
  BY <1>1, <1>6 DEF memVars, MemTypes
<1>7. ASSUME UNCHANGED findVars PROVE FindTypes' /\ FindInv'
  BY <1>1, <1>7 DEF findVars, FindTypes, FindInv
<1>9. ASSUME UNCHANGED pnlVars PROVE PnlFlags'
  BY <1>1, <1>9 DEF pnlVars, newVars, descVars, dmVars, memVars, findVars, PnlFlags
<1>8. /\ PnlFlags' /\ NewTypes' /\ NewInv' /\ DescTypes' /\ DescInv' /\ DmTypes' /\ MemTypes' /\ FindTypes' /\ FindInv'
  <2>1. CASE UNCHANGED pnlVars
    BY <2>1, <1>3, <1>4, <1>5, <1>6, <1>7, <1>9, Zenon DEF pnlVars
  <2>2. CASE PnlNext
    BY <2>2, <1>1, <1>3, <1>4, <1>5, <1>6, <1>7, OnePanel, Flags, NewStep, DescStep, DmStep,
       MemStep, FindStep, Zenon
  <2>. QED
    BY <2>1, <2>2
<1>. QED
  BY <1>2, <1>8 DEF PnlInv, PnlTypeOK

\* For any number of openings and clicks: closing the modal for a new channel and
\* opening it again never has two creations under way, nor the modal for a
\* description two requests of one opening (CreateChannelModal,
\* EditDescriptionModal).
THEOREM CreatesOnce == PnlSpec => []OneCreation
<1>. QED
  BY PnlInitially, PnlStep, PnlInvCounts, PTL DEF PnlSpec

-----------------------------------------------------------------------------
(* What is listed and selected.  That the load of the mount takes no new    *)
(* channel away rests on nothing being created or deleted until it is done; *)
(* that what is selected exists, on every answer under way naming only what *)
(* exists.                                                                  *)

\* What is listed here exists there, and every answer under way names only what
\* exists; nothing is created or deleted while the channels load; a new channel on
\* its way is neither listed nor being deleted.
PgLinks ==
  /\ pgMade \subseteq pgChannels /\ pgChannels \subseteq srvChannels /\ pgDMs \subseteq srvDMs
  /\ \A list \in pgFetched : pgLoading /\ list = srvChannels
  /\ pgLoading => pgMade = {} /\ pgCreating = NoChannelYet /\ pgDeleting = {}
  /\ \A l \in pgDmLoads : l.list \subseteq srvDMs
  /\ \A k \in pgMaking : k.answered => k.dm \in srvDMs
  /\ pgCreating.stored => pgCreating.name \in srvChannels
  /\ pgCreating.name \notin pgChannels /\ \A d \in pgDeleting : d.chan # pgCreating.name

\* The selected conversation exists.
PgSelection == pgSelDM \in srvDMs \cup {PageNone}

PgInv == PgTypeOK /\ PgLinks /\ PgSelection

LEMMA PgInitially == PgInit => PgInv
<1> SUFFICES ASSUME PgInit PROVE PgInv
  OBVIOUS
<1> USE PageConstantsOK DEF PgInit
<1>1. PgFlags
  BY DEF PgFlags
<1>2. PgKnown
  BY DEF PgKnown, InitialLoad, NoChannelYet
<1>3. PgPlaces /\ PgSelection
  BY <1>2 DEF PgPlaces, PgKnown, PgSelection
<1>4. PgLinks
  BY DEF PgLinks, InitialLoad, NoChannelYet
<1>. QED
  BY <1>1, <1>2, <1>3, <1>4 DEF PgInv, PgTypeOK

\* What selecting does.
LEMMA Shows ==
  ASSUME NEW ch \in PageChannels \cup {PageNone}, NEW dm, PgShow(ch, dm), pgMemberLoads \subseteq PageChannels
  PROVE  pgSelCh' = ch /\ pgSelDM' = dm /\ pgMemberLoads' \subseteq PageChannels
BY DEF PgShow

\* The flags and the count of clicks keep their types.
LEMMA PgFlagsStep ==
  ASSUME PgFlags, PgNext
  PROVE  PgFlags'
<1> USE DEF PgFlags, pgLists, pgShown, pgRest, pgPlace, pgMount
<1>1. ASSUME PgChannelsAnswered PROVE PgFlags'
  BY <1>1 DEF PgChannelsAnswered
<1>2. ASSUME PgChannelsLoaded PROVE PgFlags'
  BY <1>2 DEF PgChannelsLoaded
<1>3. ASSUME PgUsersLoaded PROVE PgFlags'
  BY <1>3 DEF PgUsersLoaded
<1>4. ASSUME NEW l \in pgDmLoads, PgDmsAnswered(l) PROVE PgFlags'
  BY <1>4 DEF PgDmsAnswered
<1>5. ASSUME NEW l \in pgDmLoads, PgDmsLoaded(l) PROVE PgFlags'
  BY <1>5 DEF PgDmsLoaded
<1>6. ASSUME NEW l \in pgDmLoads, PgDmsFail(l) PROVE PgFlags'
  BY <1>6 DEF PgDmsFail
<1>7. ASSUME NEW c \in PageChannels, PgMembersLoaded(c) PROVE PgFlags'
  BY <1>7 DEF PgMembersLoaded
<1>8. ASSUME NEW c \in PageChannels, PgSelectChannel(c) PROVE PgFlags'
  BY <1>8 DEF PgSelectChannel
<1>9. ASSUME NEW c \in PageChannels, PgCreate(c) PROVE PgFlags'
  BY <1>9 DEF PgCreate
<1>10. ASSUME NEW c \in PageChannels, PgOpenDelete(c) PROVE PgFlags'
  BY <1>10 DEF PgOpenDelete
<1>11. ASSUME NEW d \in PageDMs, PgSelectDM(d) PROVE PgFlags'
  BY <1>11 DEF PgSelectDM
<1>12. ASSUME NEW d \in PageDMs, PgMake(d) PROVE PgFlags'
  BY <1>12 DEF PgMake
<1>13. ASSUME PgStored PROVE PgFlags'
  BY <1>13 DEF PgStored
<1>14. ASSUME PgCreated PROVE PgFlags'
  BY <1>14 DEF PgCreated
<1>15. ASSUME PgCreateFails PROVE PgFlags'
  BY <1>15 DEF PgCreateFails
<1>16. ASSUME PgDelete PROVE PgFlags'
  BY <1>16 DEF PgDelete
<1>17. ASSUME NEW d \in pgDeleting, PgDeleted(d) PROVE PgFlags'
  BY <1>17 DEF PgDeleted
<1>18. ASSUME NEW d \in pgDeleting, PgDeleteFails(d) PROVE PgFlags'
  BY <1>18 DEF PgDeleteFails
<1>19. ASSUME NEW k \in pgMaking, PgMakeAnswered(k) PROVE PgFlags'
  BY <1>19 DEF PgMakeAnswered
<1>20. ASSUME NEW k \in pgMaking, PgConversationMade(k) PROVE PgFlags'
  BY <1>20 DEF PgConversationMade
<1>21. ASSUME NEW k \in pgMaking, PgMakeFails(k) PROVE PgFlags'
  BY <1>21 DEF PgMakeFails
<1>. QED
  BY <1>1, <1>2, <1>3, <1>4, <1>5, <1>6, <1>7, <1>8, <1>9, <1>10, <1>11, <1>12, <1>13, <1>14,
     <1>15, <1>16, <1>17, <1>18, <1>19, <1>20, <1>21, Zenon DEF PgNext

LEMMA ClicksStep ==
  ASSUME pgClicks \in Nat, PgNext
  PROVE  pgClicks' \in Nat
<1>1. Click \/ UNCHANGED pgClicks
  BY DEF PgNext, PgChannelsAnswered, PgChannelsLoaded, PgUsersLoaded, PgDmsAnswered,
     PgDmsLoaded, PgDmsFail, PgMembersLoaded, PgSelectChannel, PgCreate, PgOpenDelete, PgSelectDM, PgMake, PgStored, PgCreated, PgCreateFails, PgDelete, PgDeleted, PgDeleteFails, PgMakeAnswered, PgConversationMade, PgMakeFails
<1>. QED
  BY <1>1 DEF Click

\* Who is selected: it is there.
LEMMA PgPlacesStep ==
  ASSUME PgPlaces, PgKnown, PgLinks, PgSelection, PgNext
  PROVE  PgPlaces' /\ pgSelDM' \in srvDMs \cup {PageNone}
<1> DEFINE Goal == PgPlaces' /\ pgSelDM' \in srvDMs \cup {PageNone}
<1> USE DEF PgPlaces, PgSelection, pgShown, pgRest, pgPlace, pgMount
<1>1. ASSUME PgChannelsAnswered PROVE Goal
  BY <1>1 DEF PgChannelsAnswered
<1>2. ASSUME PgChannelsLoaded PROVE Goal
  <2>1. CASE \E c \in PageChannels : PgShow(c, pgSelDM)
    BY <1>2, <2>1, Shows DEF PgChannelsLoaded
  <2>2. CASE UNCHANGED pgShown
    BY <1>2, <2>2 DEF PgChannelsLoaded
  <2>. QED
    BY <1>2, <2>1, <2>2, Zenon DEF PgChannelsLoaded, PgKnown
<1>3. ASSUME PgUsersLoaded PROVE Goal
  BY <1>3 DEF PgUsersLoaded
<1>4. ASSUME NEW l \in pgDmLoads, PgDmsAnswered(l) PROVE Goal
  BY <1>4 DEF PgDmsAnswered
<1>5. ASSUME NEW l \in pgDmLoads, PgDmsLoaded(l) PROVE Goal
  <2>1. l.list \subseteq srvDMs /\ srvDMs \subseteq PageDMs
    BY DEF PgKnown, PgLinks
  <2>2. CASE \E d \in l.list : PgShow(pgSelCh, d)
    BY <1>5, <2>1, <2>2, Shows DEF PgDmsLoaded
  <2>3. CASE l.for \in l.list /\ PgShow(PageNone, l.for)
    BY <1>5, <2>1, <2>3, Shows DEF PgDmsLoaded
  <2>4. CASE UNCHANGED pgShown
    BY <1>5, <2>4 DEF PgDmsLoaded
  <2>. QED
    BY <1>5, <2>2, <2>3, <2>4 DEF PgDmsLoaded
<1>6. ASSUME NEW l \in pgDmLoads, PgDmsFail(l) PROVE Goal
  BY <1>6 DEF PgDmsFail
<1>7. ASSUME NEW c \in PageChannels, PgMembersLoaded(c) PROVE Goal
  BY <1>7 DEF PgMembersLoaded
<1>8. ASSUME NEW c \in PageChannels, PgSelectChannel(c) PROVE Goal
  BY <1>8, Shows DEF PgSelectChannel
<1>9. ASSUME NEW c \in PageChannels, PgCreate(c) PROVE Goal
  BY <1>9 DEF PgCreate
<1>10. ASSUME NEW c \in PageChannels, PgOpenDelete(c) PROVE Goal
  BY <1>10, Shows DEF PgOpenDelete
<1>11. ASSUME NEW d \in PageDMs, PgSelectDM(d) PROVE Goal
  <2>1. d \in srvDMs
    BY <1>11 DEF PgSelectDM, PgOfferedDMs, PgLinks
  <2>2. PgShow(PageNone, d) /\ pgRoute' = d /\ UNCHANGED <<pgStart, pgUsers, srvDMs, pgMenu, pgMembers>>
    BY <1>11 DEF PgSelectDM, pgLists
  <2>3. pgSelCh' = PageNone /\ pgSelDM' = d /\ pgMemberLoads' \subseteq PageChannels
    BY <2>2, Shows
  <2>. QED
    BY <2>1, <2>2, <2>3
<1>12. ASSUME NEW d \in PageDMs, PgMake(d) PROVE Goal
  BY <1>12 DEF PgMake
<1>13. ASSUME PgStored PROVE Goal
  BY <1>13 DEF PgStored
<1>14. ASSUME PgCreated PROVE Goal
  <2>1. pgCreating.name \in PageChannels \cup {PageNone}
    BY DEF PgKnown
  <2>. QED
    BY <1>14, <2>1, Shows DEF PgCreated
<1>15. ASSUME PgCreateFails PROVE Goal
  BY <1>15 DEF PgCreateFails
<1>16. ASSUME PgDelete PROVE Goal
  BY <1>16, Shows DEF PgDelete
<1>17. ASSUME NEW d \in pgDeleting, PgDeleted(d) PROVE Goal
  <2>1. d.listed \subseteq PageChannels
    BY DEF PgKnown
  <2>2. (\E c \in d.listed : PgShow(c, pgSelDM)) \/ UNCHANGED pgShown
    BY <1>17 DEF PgDeleted
  <2>3. pgMenu' \in {pgMenu, PageNone} /\ UNCHANGED <<pgStart, pgUsers, pgRoute, pgFirst, pgMembers>>
    BY <1>17 DEF PgDeleted
  <2>4. CASE \E c \in d.listed : PgShow(c, pgSelDM)
    BY <2>1, <2>3, <2>4, Shows
  <2>5. CASE UNCHANGED pgShown
    BY <2>3, <2>5
  <2>. QED
    BY <2>2, <2>4, <2>5
<1>18. ASSUME NEW d \in pgDeleting, PgDeleteFails(d) PROVE Goal
  BY <1>18 DEF PgDeleteFails
<1>19. ASSUME NEW k \in pgMaking, PgMakeAnswered(k) PROVE Goal
  BY <1>19 DEF PgMakeAnswered
<1>20. ASSUME NEW k \in pgMaking, PgConversationMade(k) PROVE Goal
  <2>1. k.dm \in srvDMs /\ k.dm \in PageDMs
    BY <1>20 DEF PgConversationMade, PgLinks, PgKnown
  <2>2. UNCHANGED <<pgStart, pgUsers, srvDMs, pgMenu, pgMembers>>
    BY <1>20 DEF PgConversationMade, pgLists
  <2>3. CASE UNCHANGED <<pgShown, pgPlace>>
    BY <2>2, <2>3
  <2>4. CASE PgShow(PageNone, k.dm) /\ pgRoute' = k.dm
    <3>1. pgSelCh' = PageNone /\ pgSelDM' = k.dm /\ pgMemberLoads' \subseteq PageChannels
      BY <2>4, Shows
    <3>. QED
      BY <2>1, <2>2, <2>4, <3>1
  <2>. QED
    BY <1>20, <2>3, <2>4 DEF PgConversationMade
<1>21. ASSUME NEW k \in pgMaking, PgMakeFails(k) PROVE Goal
  BY <1>21 DEF PgMakeFails
<1>. QED
  BY <1>1, <1>2, <1>3, <1>4, <1>5, <1>6, <1>7, <1>8, <1>9, <1>10, <1>11, <1>12, <1>13, <1>14,
     <1>15, <1>16, <1>17, <1>18, <1>19, <1>20, <1>21, Zenon DEF PgNext

\* The answers to a load and to a request.
LEMMA AnsweredLoad ==
  ASSUME NEW A, NEW B, NEW list \in SUBSET B, NEW l \in [for : A, answered : BOOLEAN, list : SUBSET B]
  PROVE  /\ [l EXCEPT !.answered = TRUE, !.list = list] \in [for : A, answered : BOOLEAN, list : SUBSET B]
         /\ [l EXCEPT !.answered = TRUE, !.list = list].list = list
OBVIOUS

LEMMA AnsweredRequest ==
  ASSUME NEW A, NEW B, NEW k \in [dm : A, by : B, answered : BOOLEAN]
  PROVE  /\ [k EXCEPT !.answered = TRUE] \in [dm : A, by : B, answered : BOOLEAN]
         /\ [k EXCEPT !.answered = TRUE].dm = k.dm
OBVIOUS

\* What is listed exists.
LEMMA PgKnownStep ==
  ASSUME PgPlaces, PgKnown, PgLinks, PgNext
  PROVE  PgKnown' /\ PgLinks' /\ srvDMs \subseteq srvDMs'
<1> DEFINE Goal == PgKnown' /\ PgLinks' /\ srvDMs \subseteq srvDMs'
<1> USE PageConstantsOK DEF PgKnown, PgLinks, pgLists, pgMount
<1>1. ASSUME PgChannelsAnswered PROVE Goal
  BY <1>1 DEF PgChannelsAnswered
<1>2. ASSUME PgChannelsLoaded PROVE Goal
  BY <1>2 DEF PgChannelsLoaded, NoChannelYet
<1>3. ASSUME PgUsersLoaded PROVE Goal
  <2>1. [dm |-> StarterDM, by |-> "starter", answered |-> FALSE]
          \in [dm : PageDMs, by : {"modal", "starter"}, answered : BOOLEAN]
    OBVIOUS
  <2>. QED
    BY <1>3, <2>1 DEF PgUsersLoaded
<1>4. ASSUME NEW l \in pgDmLoads, PgDmsAnswered(l) PROVE Goal
  <2>1. l \in [for : PageDMs \cup {PageNone}, answered : BOOLEAN, list : SUBSET PageDMs]
    BY <1>4
  <2> DEFINE m == [l EXCEPT !.answered = TRUE, !.list = srvDMs]
  <2>3. /\ m \in [for : PageDMs \cup {PageNone}, answered : BOOLEAN, list : SUBSET PageDMs]
        /\ m.list \subseteq srvDMs
    BY <2>1, AnsweredLoad
  <2>4. /\ pgDmLoads' = (pgDmLoads \ {l}) \cup {m}
        /\ UNCHANGED <<pgLists, pgMount, pgMaking, pgCreating, pgDeleting, pgMade>>
    BY <1>4 DEF PgDmsAnswered
  <2> HIDE DEF m
  <2>. QED
    BY <2>3, <2>4
<1>5. ASSUME NEW l \in pgDmLoads, PgDmsLoaded(l) PROVE Goal
  BY <1>5 DEF PgDmsLoaded
<1>6. ASSUME NEW l \in pgDmLoads, PgDmsFail(l) PROVE Goal
  BY <1>6 DEF PgDmsFail
<1>7. ASSUME NEW c \in PageChannels, PgMembersLoaded(c) PROVE Goal
  BY <1>7 DEF PgMembersLoaded
<1>8. ASSUME NEW c \in PageChannels, PgSelectChannel(c) PROVE Goal
  BY <1>8 DEF PgSelectChannel
<1>9. ASSUME NEW c \in PageChannels, PgCreate(c) PROVE Goal
  <2>1. /\ pgCreating' = [name |-> c, stored |-> FALSE] /\ c \notin srvChannels
        /\ \A d \in pgDeleting : d.chan # c
        /\ ~pgLoading /\ pgFetched' = pgFetched /\ pgLoading' = pgLoading
    BY <1>9 DEF PgCreate, Click, PgView
  <2>. QED
    BY <1>9, <2>1 DEF PgCreate
<1>10. ASSUME NEW c \in PageChannels, PgOpenDelete(c) PROVE Goal
  BY <1>10 DEF PgOpenDelete
<1>11. ASSUME NEW d \in PageDMs, PgSelectDM(d) PROVE Goal
  BY <1>11 DEF PgSelectDM
<1>12. ASSUME NEW d \in PageDMs, PgMake(d) PROVE Goal
  <2> DEFINE j == [dm |-> d, by |-> "modal", answered |-> FALSE]
  <2>1. j \in [dm : PageDMs, by : {"modal", "starter"}, answered : BOOLEAN] /\ ~j.answered
    BY <1>12
  <2>2. /\ pgMaking' = pgMaking \cup {j}
        /\ UNCHANGED <<pgLists, pgMount, pgDmLoads, pgCreating, pgDeleting, pgMade>>
    BY <1>12 DEF PgMake
  <2> HIDE DEF j
  <2>. QED
    BY <2>1, <2>2
<1>13. ASSUME PgStored PROVE Goal
  <2>1. pgCreating.name \in PageChannels
    BY <1>13 DEF PgStored
  <2>2. pgCreating' = [name |-> pgCreating.name, stored |-> TRUE]
    BY <1>13 DEF PgStored
  <2>3. /\ srvChannels' = srvChannels \cup {pgCreating.name}
        /\ UNCHANGED <<pgChannels, pgDMs, srvDMs, pgMount, pgDmLoads, pgMaking, pgDeleting, pgMade>>
    BY <1>13 DEF PgStored
  <2>4. pgCreating # NoChannelYet
    BY <2>1 DEF NoChannelYet
  <2>5. ~pgLoading
    BY <2>4
  <2>. QED
    BY <2>1, <2>2, <2>3, <2>5
<1>14. ASSUME PgCreated PROVE Goal
  BY <1>14 DEF PgCreated, NoChannelYet
<1>15. ASSUME PgCreateFails PROVE Goal
  BY <1>15 DEF PgCreateFails, NoChannelYet
<1>16. ASSUME PgDelete PROVE Goal
  <2>1. pgDeleting' = pgDeleting \cup {[chan |-> pgMenu, sel |-> pgSelCh, listed |-> pgChannels]}
        /\ pgMenu \in pgChannels /\ ~pgLoading
    BY <1>16 DEF PgDelete, Click, PgView
  <2>2. [chan |-> pgMenu, sel |-> pgSelCh, listed |-> pgChannels]
          \in [chan : PageChannels, sel : PageChannels \cup {PageNone}, listed : SUBSET PageChannels]
    BY <2>1 DEF PgPlaces
  <2>. QED
    BY <1>16, <2>1, <2>2 DEF PgDelete
<1>17. ASSUME NEW d \in pgDeleting, PgDeleted(d) PROVE Goal
  <2>1. /\ pgDeleting' = pgDeleting \ {d} /\ srvChannels' = srvChannels \ {d.chan}
        /\ pgChannels' = pgChannels \ {d.chan} /\ pgMade' = pgMade \ {d.chan}
        /\ UNCHANGED <<pgDMs, srvDMs, pgLoading, pgFetched, pgDmLoads, pgMaking, pgCreating>>
    BY <1>17 DEF PgDeleted
  <2>2. ~pgLoading
    OBVIOUS
  <2>. QED
    BY <2>1, <2>2
<1>18. ASSUME NEW d \in pgDeleting, PgDeleteFails(d) PROVE Goal
  BY <1>18 DEF PgDeleteFails
<1>19. ASSUME NEW k \in pgMaking, PgMakeAnswered(k) PROVE Goal
  <2>1. k \in [dm : PageDMs, by : {"modal", "starter"}, answered : BOOLEAN]
    BY <1>19
  <2> DEFINE j == [k EXCEPT !.answered = TRUE]
  <2>3. /\ j \in [dm : PageDMs, by : {"modal", "starter"}, answered : BOOLEAN]
        /\ j.dm = k.dm /\ k.dm \in PageDMs
    BY <2>1, AnsweredRequest
  <2>4. /\ pgMaking' = (pgMaking \ {k}) \cup {j} /\ srvDMs' = srvDMs \cup {k.dm}
        /\ UNCHANGED <<pgChannels, pgDMs, srvChannels, pgMount, pgDmLoads, pgCreating, pgDeleting, pgMade>>
    BY <1>19 DEF PgMakeAnswered
  <2> HIDE DEF j
  <2>. QED
    BY <2>3, <2>4
<1>20. ASSUME NEW k \in pgMaking, PgConversationMade(k) PROVE Goal
  <2>1. [InitialLoad EXCEPT !.for = k.dm]
          \in [for : PageDMs \cup {PageNone}, answered : BOOLEAN, list : SUBSET PageDMs]
        /\ [InitialLoad EXCEPT !.for = k.dm].list = {}
    BY DEF InitialLoad
  <2>. QED
    BY <1>20, <2>1 DEF PgConversationMade
<1>21. ASSUME NEW k \in pgMaking, PgMakeFails(k) PROVE Goal
  BY <1>21 DEF PgMakeFails
<1>. QED
  BY <1>1, <1>2, <1>3, <1>4, <1>5, <1>6, <1>7, <1>8, <1>9, <1>10, <1>11, <1>12, <1>13, <1>14,
     <1>15, <1>16, <1>17, <1>18, <1>19, <1>20, <1>21, Zenon DEF PgNext

LEMMA PgStep == PgInv /\ [PgNext]_pgVars => PgInv'
<1> SUFFICES ASSUME PgInv, [PgNext]_pgVars PROVE PgInv'
  OBVIOUS
<1>1. PgFlags /\ PgPlaces /\ PgKnown /\ pgClicks \in Nat /\ PgLinks /\ PgSelection
  BY DEF PgInv, PgTypeOK
<1>2. CASE PgNext
  <2>1. PgFlags' /\ pgClicks' \in Nat
    BY <1>1, <1>2, PgFlagsStep, ClicksStep
  <2>2. PgPlaces' /\ pgSelDM' \in srvDMs \cup {PageNone}
    BY <1>1, <1>2, PgPlacesStep
  <2>3. PgKnown' /\ PgLinks' /\ srvDMs \subseteq srvDMs'
    BY <1>1, <1>2, PgKnownStep
  <2>4. PgSelection'
    BY <2>2, <2>3 DEF PgSelection
  <2>. QED
    BY <2>1, <2>2, <2>3, <2>4 DEF PgInv, PgTypeOK
<1>3. CASE UNCHANGED pgVars
  <2> USE <1>1, <1>3 DEF pgVars, pgLists, pgShown, pgRest, pgPlace, pgMount
  <2>1. PgFlags' /\ pgClicks' \in Nat
    BY DEF PgFlags
  <2>2. PgPlaces' /\ PgSelection'
    BY DEF PgPlaces, PgSelection
  <2>3. PgKnown' /\ PgLinks'
    BY DEF PgKnown, PgLinks
  <2>. QED
    BY <2>1, <2>2, <2>3 DEF PgInv, PgTypeOK
<1>. QED
  BY <1>2, <1>3

\* For any channels, conversations and clicks: a channel the user created stays listed
\* until the user deletes it, and what is listed exists (ChatPage.tsx
\* handleCreateChannel, loadChannels, loadDMs).
THEOREM CreatedChannelStays == PgSpec => []CreatedStays
<1>1. PgInv => CreatedStays
  BY DEF PgInv, PgLinks, PgSelection, CreatedStays
<1>. QED
  BY <1>1, PgInitially, PgStep, PTL DEF PgSpec
=============================================================================
