---------------------------- MODULE ChatComposer ----------------------------
(***************************************************************************)
(* The box a message is written in (components/chat/MessageInput.tsx and   *)
(* hooks/useMentions.tsx of the web client), from the first key to the     *)
(* answer of the send, and the notice below the messages that no agent     *)
(* has replied (pages/ChatPage.tsx).  A text is the number of the edit     *)
(* that made it, and completing a mention is such an edit: the name takes  *)
(* the place of what was typed of it.  A send disables the keys but not    *)
(* the list of members, so a click on a member changes the text while the  *)
(* text before it is being sent.  One box serves every conversation and    *)
(* goes when a search opens; a send that is under way goes on.             *)
(***************************************************************************)
EXTENDS Integers

CONSTANTS MaxKeys,      \* edits of the text, completed mentions among them
          MaxMoves,     \* everything else the user does
          MaxMatches,   \* members a mention may match
          MaxArrivals   \* messages that arrive

ASSUME ComposerConstantsOK ==
  MaxKeys \in Nat /\ MaxMoves \in Nat /\ MaxMatches \in Nat /\ MaxArrivals \in Nat

VARIABLES
  cmpMount, cmpHere,       \* how often the box was mounted; it is now
  cmpBox,                  \* value, 0 when blank
  cmpListOpen, cmpIndex,   \* isShowingMentions, selectedMemberIndex
  cmpMatches,              \* how many members match
  cmpFile,                 \* selectedFile is there
  cmpUploading, cmpError,  \* isUploading; uploadError is there
  cmpSends,                \* sends under way: text, and the box that sent it
  cmpKeys, cmpMoves,
  cmpAccepted,             \* history: texts whose send succeeded
  cmpLate,                 \* history: the text a mention clicked during the box's
                           \* own send made, 0 when none was
  ntcLast, ntcArrivals,    \* the last message shown, and how many came
  ntcAgent,                \* hasAgentParticipant
  ntcPending, ntcTimer,    \* pendingHumanMessageIdRef; the message the timer is for
  ntcShown,                \* showAgentNoReplyIndicator
  ntcDue                   \* rendered, and the effect has yet to run

cmpText == <<cmpBox, cmpListOpen, cmpIndex>>
cmpForm == <<cmpFile, cmpUploading, cmpError>>
cmpPlace == <<cmpMount, cmpHere>>
cmpGhost == <<cmpKeys, cmpAccepted, cmpLate>>
ntcVars == <<ntcLast, ntcArrivals, ntcAgent, ntcPending, ntcTimer, ntcShown, ntcDue>>
boxVars == <<cmpText, cmpForm, cmpPlace, cmpGhost, cmpMatches, cmpSends>>
cmpVars == <<boxVars, cmpMoves, ntcVars>>

NoMessage == [id |-> 0, mine |-> FALSE]

CmpInit ==
  /\ cmpMount = 1 /\ cmpHere = TRUE
  /\ cmpBox = 0 /\ cmpListOpen = FALSE /\ cmpIndex = 0
  /\ cmpMatches \in {0, MaxMatches} /\ cmpFile = FALSE
  /\ cmpUploading = FALSE /\ cmpError = FALSE
  /\ cmpSends = {} /\ cmpKeys = 0 /\ cmpMoves = 0 /\ cmpAccepted = {} /\ cmpLate = 0
  /\ ntcLast = NoMessage /\ ntcArrivals = 0 /\ ntcAgent = FALSE
  /\ ntcPending = 0 /\ ntcTimer = 0 /\ ntcShown = FALSE /\ ntcDue = FALSE

\* Mutant of CmpUsable: the box is not disabled during a send.
CmpUsableAlways == cmpHere

\* Text, @, file and send button are disabled during a send.
CmpUsable == cmpHere /\ ~cmpUploading

CmpMove == cmpMoves < MaxMoves /\ cmpMoves' = cmpMoves + 1

\* The list is on the page, and its buttons are never disabled.
ListVisible == cmpHere /\ cmpListOpen /\ cmpMatches > 0

\* handleInputChange: the list is open while the cursor is behind an @word, of
\* which only the opening is kept (currentMentionStart is -1 with the list closed).
InputChanged(behind) ==
  /\ cmpListOpen' = behind
  /\ cmpIndex' = IF behind THEN 0 ELSE cmpIndex

-----------------------------------------------------------------------------
(* Writing *)

\* A key changes the text or erases it, and with it what matches.
CmpType ==
  /\ CmpUsable /\ cmpKeys < MaxKeys
  /\ cmpKeys' = cmpKeys + 1
  /\ \E behind \in BOOLEAN :
       /\ cmpBox' \in (IF behind THEN {} ELSE {0}) \cup {cmpKeys'}
       /\ InputChanged(behind)
  /\ cmpMatches' \in {0, MaxMatches}
  /\ UNCHANGED <<cmpForm, cmpPlace, cmpSends, cmpAccepted, cmpLate, cmpMoves, ntcVars>>

\* The @ button: an @ at the cursor, behind which every member matches.  A box that
\* was never rendered again after it was mounted has no inputRef and opens no list.
CmpInsertAt ==
  /\ CmpUsable /\ cmpKeys < MaxKeys
  /\ cmpKeys' = cmpKeys + 1 /\ cmpBox' = cmpKeys'
  /\ \E rendered \in BOOLEAN : InputChanged(rendered)
  /\ cmpMatches' = MaxMatches
  /\ UNCHANGED <<cmpForm, cmpPlace, cmpSends, cmpAccepted, cmpLate, cmpMoves, ntcVars>>

CmpCursor ==
  /\ CmpUsable /\ CmpMove /\ cmpBox # 0
  /\ \E behind \in BOOLEAN : InputChanged(behind)
  /\ UNCHANGED <<cmpBox, cmpMatches, cmpForm, cmpPlace, cmpSends, cmpGhost, ntcVars>>

\* Arrow keys while the list is open, also when nothing matches.
CmpArrow ==
  /\ CmpUsable /\ CmpMove /\ cmpListOpen
  /\ cmpIndex' \in {IF cmpIndex < cmpMatches - 1 THEN cmpIndex + 1 ELSE 0,
                    IF cmpIndex > 0 THEN cmpIndex - 1 ELSE cmpMatches - 1}
  /\ UNCHANGED <<cmpBox, cmpListOpen, cmpMatches, cmpForm, cmpPlace, cmpSends,
                 cmpGhost, ntcVars>>

CmpEscape ==
  /\ CmpUsable /\ CmpMove /\ cmpListOpen
  /\ cmpListOpen' = FALSE
  /\ UNCHANGED <<cmpBox, cmpIndex, cmpMatches, cmpForm, cmpPlace, cmpSends,
                 cmpGhost, ntcVars>>

\* selectMention: the name is written over what was typed of it, in a box that may
\* have been emptied by a send while its list was open.  A name typed in full leaves
\* the text what it was.
Completed ==
  /\ cmpKeys < MaxKeys
  /\ cmpKeys' = cmpKeys + 1
  /\ cmpBox' \in {cmpBox, cmpKeys'} \ {0}

ChosenMember == cmpListOpen /\ 0 <= cmpIndex /\ cmpIndex < cmpMatches

\* Enter or Tab on a member.  handleValueChange then looks with the cursor the page
\* still has, and may find it behind an @word of the new text.
CmpComplete ==
  /\ CmpUsable /\ CmpMove /\ ChosenMember
  /\ Completed
  /\ \E behind \in BOOLEAN : (cmpBox = 0 => ~behind) /\ InputChanged(behind)
  /\ UNCHANGED <<cmpMatches, cmpForm, cmpPlace, cmpSends, cmpAccepted, cmpLate, ntcVars>>

\* A click on a member, which a send does not disable: setValue changes the text
\* that handleSubmit has passed on and will clear.
CmpPick ==
  /\ ListVisible /\ CmpMove
  /\ Completed
  /\ cmpListOpen' = FALSE
  /\ cmpLate' = IF cmpUploading THEN cmpBox' ELSE 0
  /\ UNCHANGED <<cmpIndex, cmpMatches, cmpForm, cmpPlace, cmpSends, cmpAccepted, ntcVars>>

\* A file is chosen, too large, or none; and taken off, even during a send.
CmpChooseFile ==
  /\ CmpUsable /\ CmpMove
  /\ \/ cmpFile' = TRUE /\ cmpError' = FALSE
     \/ UNCHANGED cmpFile /\ cmpError' \in BOOLEAN
  /\ UNCHANGED <<cmpText, cmpUploading, cmpMatches, cmpPlace, cmpSends, cmpGhost, ntcVars>>

CmpRemoveFile ==
  /\ cmpHere /\ cmpFile /\ CmpMove
  /\ cmpFile' = FALSE /\ cmpError' = FALSE
  /\ UNCHANGED <<cmpText, cmpUploading, cmpMatches, cmpPlace, cmpSends, cmpGhost, ntcVars>>

-----------------------------------------------------------------------------
(* Sending *)

\* handleSubmit up to its await, from the button, or from Enter if the list
\* has not taken the key.
CmpSubmit ==
  /\ CmpUsable /\ CmpMove
  /\ cmpBox # 0 \/ cmpFile
  /\ cmpSends' = cmpSends \cup {[text |-> cmpBox, mount |-> cmpMount]}
  /\ cmpUploading' = TRUE /\ cmpError' = FALSE
  /\ UNCHANGED <<cmpText, cmpFile, cmpMatches, cmpPlace, cmpGhost, ntcVars>>

\* The rest of handleSubmit changes the box that sent, if it is still mounted.
Answers(s) == s.mount = cmpMount /\ cmpHere

\* Mutant of CmpSent: the text is cleared also in a box that came later.
CmpSentClearsAny(s) ==
  /\ s \in cmpSends
  /\ cmpSends' = cmpSends \ {s}
  /\ cmpAccepted' = cmpAccepted \cup ({s.text} \ {0})
  /\ cmpBox' = 0
  /\ IF Answers(s) THEN cmpFile' = FALSE /\ cmpUploading' = FALSE /\ cmpLate' = 0
                   ELSE UNCHANGED <<cmpFile, cmpUploading, cmpLate>>
  /\ UNCHANGED <<cmpListOpen, cmpIndex, cmpError, cmpMatches, cmpPlace, cmpKeys,
                 cmpMoves, ntcVars>>

CmpSent(s) ==
  /\ s \in cmpSends
  /\ cmpSends' = cmpSends \ {s}
  /\ cmpAccepted' = cmpAccepted \cup ({s.text} \ {0})
  /\ IF Answers(s)
     THEN cmpBox' = 0 /\ cmpFile' = FALSE /\ cmpUploading' = FALSE /\ cmpLate' = 0
     ELSE UNCHANGED <<cmpBox, cmpFile, cmpUploading, cmpLate>>
  /\ UNCHANGED <<cmpListOpen, cmpIndex, cmpError, cmpMatches, cmpPlace, cmpKeys,
                 cmpMoves, ntcVars>>

CmpSendFails(s) ==
  /\ s \in cmpSends
  /\ cmpSends' = cmpSends \ {s}
  /\ IF Answers(s) THEN cmpError' = TRUE /\ cmpUploading' = FALSE /\ cmpLate' = 0
                   ELSE UNCHANGED <<cmpError, cmpUploading, cmpLate>>
  /\ UNCHANGED <<cmpText, cmpFile, cmpMatches, cmpPlace, cmpKeys, cmpAccepted, cmpMoves, ntcVars>>

-----------------------------------------------------------------------------
(* The page around it *)

\* A search opens and takes the place of the box, or closes.
CmpUnmount ==
  /\ cmpHere /\ CmpMove
  /\ cmpHere' = FALSE
  /\ cmpBox' = 0 /\ cmpListOpen' = FALSE /\ cmpIndex' = 0
  /\ cmpFile' = FALSE /\ cmpUploading' = FALSE /\ cmpError' = FALSE /\ cmpLate' = 0
  /\ UNCHANGED <<cmpMount, cmpMatches, cmpSends, cmpKeys, cmpAccepted, ntcVars>>

CmpMountAgain ==
  /\ ~cmpHere
  /\ cmpHere' = TRUE /\ cmpMount' = cmpMount + 1
  /\ UNCHANGED <<cmpText, cmpForm, cmpMatches, cmpSends, cmpGhost, cmpMoves, ntcVars>>

\* Another conversation: the box keeps its text, the messages stay until the new
\* ones are loaded, and its members decide whether an agent takes part.
CmpSwitch ==
  /\ CmpMove
  /\ cmpMatches' \in {0, MaxMatches}
  /\ ntcAgent' \in BOOLEAN
  /\ ntcDue' = TRUE
  /\ UNCHANGED <<cmpText, cmpForm, cmpPlace, cmpSends, cmpGhost, ntcLast, ntcArrivals, ntcPending,
                 ntcTimer, ntcShown>>

\* A message arrives, or a load replaces all of them.
NtcArrives ==
  /\ ntcArrivals < MaxArrivals
  /\ ntcArrivals' = ntcArrivals + 1
  /\ \/ \E mine \in BOOLEAN : ntcLast' = [id |-> ntcArrivals', mine |-> mine]
     \/ ntcLast' = NoMessage
  /\ ntcDue' = TRUE
  /\ UNCHANGED <<boxVars, cmpMoves, ntcAgent, ntcPending, ntcTimer, ntcShown>>

\* Mutant of NoticeAfter: what is shown stays until the user writes again.
NoticeKept(latest) ==
  IF ~ntcAgent \/ latest.id = 0 THEN FALSE
  ELSE IF latest.mine THEN FALSE ELSE ntcShown

\* setShowAgentNoReplyIndicator as the effect leaves it.
NoticeAfter(latest) ==
  /\ ntcShown /\ ntcAgent /\ latest.id # 0 /\ ~latest.mine
  /\ ntcPending \in {0, latest.id}

\* The effect: the old timer goes, the notice goes when anything came after the
\* user's message, and a last message of the user's own starts a new timer.
NtcEffect ==
  /\ ntcDue
  /\ ntcDue' = FALSE
  /\ ntcShown' = NoticeAfter(ntcLast)
  /\ IF ntcAgent /\ ntcLast.mine
     THEN ntcPending' = ntcLast.id /\ ntcTimer' = ntcLast.id
     ELSE /\ ntcPending' = IF ntcAgent /\ ntcLast.id # 0 /\ ntcPending = ntcLast.id
                           THEN ntcPending ELSE 0
          /\ ntcTimer' = 0
  /\ UNCHANGED <<boxVars, cmpMoves, ntcLast, ntcArrivals, ntcAgent>>

\* The timer, possibly between a render and its effect.
NtcTimeout ==
  /\ ntcTimer # 0
  /\ ntcTimer' = 0
  /\ ntcShown' = (ntcShown \/ ntcPending = ntcTimer)
  /\ UNCHANGED <<boxVars, cmpMoves, ntcLast, ntcArrivals, ntcAgent, ntcPending, ntcDue>>

-----------------------------------------------------------------------------
CmpNext ==
  \/ CmpType \/ CmpInsertAt \/ CmpCursor \/ CmpArrow \/ CmpEscape \/ CmpComplete \/ CmpPick
  \/ CmpChooseFile \/ CmpRemoveFile \/ CmpSubmit
  \/ \E s \in cmpSends : CmpSent(s) \/ CmpSendFails(s)
  \/ CmpUnmount \/ CmpMountAgain \/ CmpSwitch
  \/ NtcArrives \/ NtcEffect \/ NtcTimeout

CmpSpec == CmpInit /\ [][CmpNext]_cmpVars

CmpFlags ==
  /\ cmpHere \in BOOLEAN /\ cmpListOpen \in BOOLEAN
  /\ cmpFile \in BOOLEAN /\ cmpUploading \in BOOLEAN /\ cmpError \in BOOLEAN

ListTypes == cmpMatches \in 0..MaxMatches /\ cmpIndex \in -1..MaxMatches

BoxTypes ==
  /\ cmpMount \in Nat \ {0} /\ cmpBox \in 0..MaxKeys /\ cmpLate \in 0..MaxKeys
  /\ cmpKeys \in 0..MaxKeys /\ cmpMoves \in 0..MaxMoves
  /\ cmpSends \subseteq [text : 0..MaxKeys, mount : 1..cmpMount]
  /\ cmpAccepted \subseteq 1..MaxKeys

NtcTypes ==
  /\ ntcLast \in [id : 0..MaxArrivals, mine : BOOLEAN] /\ ntcArrivals \in 0..MaxArrivals
  /\ ntcPending \in 0..MaxArrivals /\ ntcTimer \in 0..MaxArrivals
  /\ ntcAgent \in BOOLEAN /\ ntcShown \in BOOLEAN /\ ntcDue \in BOOLEAN

CmpTypeOK == CmpFlags /\ ListTypes /\ BoxTypes /\ NtcTypes

\* The box on the page has a send under way exactly while it says so, and never
\* two.  What the box shows meanwhile is the text being sent, unless a mention was
\* clicked since: then it is the text with that mention.  A text that was accepted
\* is not in a box to be sent again.
ComposerInv ==
  /\ CmpTypeOK
  /\ \A s, t \in cmpSends : s.mount = t.mount => s = t
  /\ cmpUploading <=> \E s \in cmpSends : Answers(s)
  /\ \A s \in cmpSends : Answers(s) => cmpBox = IF cmpLate = 0 THEN s.text ELSE cmpLate
  /\ cmpLate # 0 => cmpUploading
  /\ cmpBox \notin cmpAccepted

\* The send of the box on the page succeeds.
OwnSendSucceeds ==
  \E s \in cmpSends \ cmpSends' : Answers(s) /\ s.text \in cmpAccepted' \cup {0}

\* A text leaves the box only when the user edits it, when a send of that text
\* succeeded, or with the box itself: a failed send, or the answer to a box that is
\* gone, keeps what is written now.  There is one exception, and the code has it: a
\* mention clicked while the text before it is being sent is cleared, unsent, when
\* that send succeeds (setValue("") after the await).
DraftSafe ==
  [][(cmpBox # 0 /\ cmpBox' # cmpBox)
       => \/ cmpKeys' # cmpKeys
          \/ cmpBox \in cmpAccepted'
          \/ cmpHere' = FALSE
          \/ cmpBox = cmpLate /\ OwnSendSucceeds]_cmpVars

\* Once the effect has run, the notice that no agent replied stands under a
\* message of the user's own that is the last one, in a conversation with an agent.
NoticeTruthful ==
  ~ntcDue /\ ntcShown => ntcAgent /\ ntcLast.mine /\ ntcPending = ntcLast.id
=============================================================================
