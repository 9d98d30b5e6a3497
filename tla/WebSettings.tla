---------------------------- MODULE WebSettings -----------------------------
(***************************************************************************)
(* The settings pages of the web client that submit forms: profile and     *)
(* password, an agent's profile, API keys and webhooks, and integrations.  *)
(* A modal covers the rest of its page for the mouse but not for the       *)
(* keyboard, so whatever is rendered and enabled can be used.  A request   *)
(* remembers the mount of the component that sent it: what it sets after   *)
(* that component is gone is lost.                                         *)
(***************************************************************************)
EXTENDS Integers, FiniteSets

CONSTANTS Things,          \* API keys, webhooks, integrations
          MaxSetMoves      \* what the user does

ASSUME SettingsConstantsOK == MaxSetMoves \in Nat /\ 0 \notin Things

VARIABLES
  setMoves,
  meState, accTab,                                  \* UserSettingsPage
  profBase, profDraft, profReading, profSaving, profSaved, profAsks,
  pwDraft, pwSaving, pwSaved, pwAsks,
  agMount, agState, agEditing, agDirty, agSaving, agAsks,            \* ProfileTab
  keyMount, keyLoading, keySubmitting, keyCreateOpen, keyRotating,   \* ApiKeysTab
  keyRevoking, keyText, keySecret, keyTasks,
  hkMount, hkList, hkLoading, hkSelected, hkOf, hkOfLoading,         \* WebhooksTab
  hkCreateOpen, hkSubmitting, hkSecret, hkTasks,
  inStored, inList, inLoading, inAddOpen, inAdding, inKey, inTasks   \* IntegrationSettingsPage

accVars == <<meState, accTab, profBase, profDraft, profReading, profSaving, profSaved, profAsks,
             pwDraft, pwSaving, pwSaved, pwAsks>>
agVars == <<agMount, agState, agEditing, agDirty, agSaving, agAsks>>
keyVars == <<keyMount, keyLoading, keySubmitting, keyCreateOpen, keyRotating, keyRevoking, keyText,
             keySecret, keyTasks>>
hkVars == <<hkMount, hkList, hkLoading, hkSelected, hkOf, hkOfLoading, hkCreateOpen, hkSubmitting,
            hkSecret, hkTasks>>
inVars == <<inStored, inList, inLoading, inAddOpen, inAdding, inKey, inTasks>>

SetMove == setMoves < MaxSetMoves /\ setMoves' = setMoves + 1

-----------------------------------------------------------------------------
(* Profile and password; a name is "none", "a" or "b" *)

ProfileNames == {"none", "a", "b"}

AccInit ==
  /\ meState = "loading" /\ accTab = "profile"
  /\ profBase = "none" /\ profDraft = "none" /\ profReading = FALSE
  /\ profSaving = FALSE /\ profSaved = FALSE /\ profAsks = {}
  /\ pwDraft = "empty" /\ pwSaving = FALSE /\ pwSaved = FALSE /\ pwAsks = {}

\* loadMe; a failure leaves only a button that loads the page again.
MeLoaded(name) ==
  /\ meState = "loading"
  /\ \/ meState' = "ready" /\ profBase' = name /\ profDraft' = name
     \/ meState' = "failed" /\ UNCHANGED <<profBase, profDraft>>
  /\ UNCHANGED <<setMoves, accTab, profReading, profSaving, profSaved, profAsks,
                 pwDraft, pwSaving, pwSaved, pwAsks>>

\* What is on the page.
AccOffers ==
  IF meState # "ready" THEN (IF meState = "failed" THEN {"reload"} ELSE {})
  ELSE {"tab"} \cup (IF accTab = "profile" THEN {"name", "file"} ELSE {"password"})

ProfOffers == IF "name" \in AccOffers /\ profDraft # profBase /\ ~profSaving THEN {"save"} ELSE {}

PwOffers == IF "password" \in AccOffers /\ pwDraft # "empty" /\ ~pwSaving THEN {"update"} ELSE {}

AccReload ==
  /\ "reload" \in AccOffers /\ SetMove
  /\ meState' = "loading" /\ accTab' = "profile"
  /\ profBase' = "none" /\ profDraft' = "none" /\ profReading' = FALSE
  /\ profSaving' = FALSE /\ profSaved' = FALSE /\ profAsks' = {}
  /\ pwDraft' = "empty" /\ pwSaving' = FALSE /\ pwSaved' = FALSE /\ pwAsks' = {}

AccTab ==
  /\ "tab" \in AccOffers /\ SetMove
  /\ accTab' = IF accTab = "profile" THEN "password" ELSE "profile"
  /\ UNCHANGED <<meState, profBase, profDraft, profReading, profSaving, profSaved, profAsks,
                 pwDraft, pwSaving, pwSaved, pwAsks>>

ProfType ==
  /\ "name" \in AccOffers /\ SetMove
  /\ profDraft' \in ProfileNames \ {profDraft}
  /\ UNCHANGED <<meState, accTab, profBase, profReading, profSaving, profSaved, profAsks,
                 pwDraft, pwSaving, pwSaved, pwAsks>>

\* handleAvatarFile: a file of the right size and type is read, and sets the field when it has been.
ProfFile ==
  /\ "file" \in AccOffers /\ ~profReading /\ SetMove
  /\ profReading' \in BOOLEAN
  /\ UNCHANGED <<meState, accTab, profBase, profDraft, profSaving, profSaved, profAsks,
                 pwDraft, pwSaving, pwSaved, pwAsks>>

ProfFileRead ==
  /\ profReading
  /\ profReading' = FALSE /\ profDraft' = "b"
  /\ UNCHANGED <<setMoves, meState, accTab, profBase, profSaving, profSaved, profAsks,
                 pwDraft, pwSaving, pwSaved, pwAsks>>

\* saveProfile: a field that was emptied is left out of what is sent.
ProfSave ==
  /\ "save" \in ProfOffers /\ SetMove
  /\ profSaving' = TRUE
  /\ profAsks' = profAsks \cup {[nr |-> setMoves',
                                 name |-> IF profDraft = "none" THEN profBase ELSE profDraft]}
  /\ UNCHANGED <<meState, accTab, profBase, profDraft, profReading, profSaved,
                 pwDraft, pwSaving, pwSaved, pwAsks>>

\* The profile becomes what was saved; what was typed since stays.
ProfAnswered(a) ==
  /\ a \in profAsks
  /\ profAsks' = profAsks \ {a} /\ profSaving' = FALSE
  /\ \/ profBase' = a.name /\ profSaved' = TRUE
     \/ UNCHANGED <<profBase, profSaved>>
  /\ UNCHANGED <<setMoves, meState, accTab, profDraft, profReading, pwDraft, pwSaving, pwSaved, pwAsks>>

PwType ==
  /\ "password" \in AccOffers /\ SetMove
  /\ pwDraft' \in {"empty", "short", "different", "good"} \ {pwDraft}
  /\ UNCHANGED <<meState, accTab, profBase, profDraft, profReading, profSaving, profSaved, profAsks,
                 pwSaving, pwSaved, pwAsks>>

\* savePassword: too short or not repeated alike, nothing is sent.
PwSave ==
  /\ "update" \in PwOffers /\ pwDraft = "good" /\ SetMove
  /\ pwSaving' = TRUE /\ pwAsks' = pwAsks \cup {setMoves'}
  /\ UNCHANGED <<meState, accTab, profBase, profDraft, profReading, profSaving, profSaved, profAsks,
                 pwDraft, pwSaved>>

PwAnswered(a) ==
  /\ a \in pwAsks
  /\ pwAsks' = pwAsks \ {a} /\ pwSaving' = FALSE
  /\ \/ pwDraft' = "empty" /\ pwSaved' = TRUE
     \/ UNCHANGED <<pwDraft, pwSaved>>
  /\ UNCHANGED <<setMoves, meState, accTab, profBase, profDraft, profReading, profSaving, profSaved, profAsks>>

\* Three seconds later.
SavedGoes ==
  /\ profSaved \/ pwSaved
  /\ \/ profSaved' = FALSE /\ UNCHANGED pwSaved
     \/ pwSaved' = FALSE /\ UNCHANGED profSaved
  /\ UNCHANGED <<setMoves, meState, accTab, profBase, profDraft, profReading, profSaving, profAsks,
                 pwDraft, pwSaving, pwAsks>>

AccNext ==
  \/ \E name \in ProfileNames : MeLoaded(name)
  \/ AccReload \/ AccTab \/ ProfType \/ ProfFile \/ ProfFileRead \/ ProfSave \/ PwType \/ PwSave
  \/ SavedGoes
  \/ \E a \in profAsks : ProfAnswered(a)
  \/ \E a \in pwAsks : PwAnswered(a)

-----------------------------------------------------------------------------
(* An agent's profile *)

AgInit ==
  /\ agMount = 1 /\ agState = "loading" /\ agEditing = FALSE /\ agDirty = FALSE
  /\ agSaving = FALSE /\ agAsks = {}

AgLoaded ==
  /\ agState = "loading"
  /\ agState' \in {"ready", "failed"} /\ agDirty' = FALSE
  /\ UNCHANGED <<setMoves, agMount, agEditing, agSaving, agAsks>>

\* Buttons and fields of the tab: Cancel works while a save is under way.
AgOffers ==
  IF agState # "ready" THEN {}
  ELSE IF agEditing THEN {"type", "cancel"} \cup (IF agDirty /\ ~agSaving THEN {"save"} ELSE {})
  ELSE {"edit"}

AgEdit ==
  /\ AgOffers # {} /\ SetMove
  /\ \/ "edit" \in AgOffers /\ agEditing' = TRUE /\ UNCHANGED agDirty
     \/ "type" \in AgOffers /\ agDirty' \in BOOLEAN /\ UNCHANGED agEditing
     \/ "cancel" \in AgOffers /\ agEditing' = FALSE /\ agDirty' = FALSE
  /\ UNCHANGED <<agMount, agState, agSaving, agAsks>>

AgSave ==
  /\ "save" \in AgOffers /\ SetMove
  /\ agSaving' = TRUE
  /\ agAsks' = agAsks \cup {[nr |-> setMoves', mount |-> agMount]}
  /\ UNCHANGED <<agMount, agState, agEditing, agDirty>>

\* Success ends the editing, also one begun since, and forgets what it typed.
AgSaved(a) ==
  /\ a \in agAsks
  /\ agAsks' = agAsks \ {a}
  /\ IF a.mount # agMount THEN UNCHANGED <<agSaving, agEditing, agDirty>>
     ELSE /\ agSaving' = FALSE
          /\ \/ agEditing' = FALSE /\ agDirty' = FALSE
             \/ UNCHANGED <<agEditing, agDirty>>
  /\ UNCHANGED <<setMoves, agMount, agState>>

\* Another tab and back.
AgRemount ==
  /\ SetMove
  /\ agMount' = agMount + 1 /\ agState' = "loading" /\ agEditing' = FALSE /\ agDirty' = FALSE
  /\ agSaving' = FALSE
  /\ UNCHANGED agAsks

AgNext == AgLoaded \/ AgEdit \/ AgSave \/ AgRemount \/ \E a \in agAsks : AgSaved(a)

-----------------------------------------------------------------------------
(* API keys.  A task is a request and what its handler does after it: loading
   the keys again before isSubmitting ends. *)

KeyInit ==
  /\ keyMount = 1 /\ keyLoading = TRUE /\ keySubmitting = FALSE
  /\ keyCreateOpen = FALSE /\ keyRotating = 0 /\ keyRevoking = 0 /\ keyText = 0 /\ keySecret = 0
  /\ keyTasks = {[nr |-> 0, mount |-> 1, kind |-> "load", phase |-> "reload"]}

KeyTask(kind) ==
  keyTasks' = keyTasks \cup {[nr |-> setMoves', mount |-> keyMount, kind |-> kind, phase |-> "asked"]}

\* Mutant of KeyOffers: the buttons that submit do not wait.
KeyAlwaysOffers ==
  {"new"} \cup (IF keyLoading THEN {} ELSE {"rotate", "revoke"})
    \cup (IF keyCreateOpen THEN {"cancelCreate", "create"} ELSE {})
    \cup (IF keyRotating # 0 THEN {"cancelRotate", "confirmRotate"} ELSE {})
    \cup (IF keyRevoking # 0 THEN {"cancelRevoke", "type"} ELSE {})
    \cup (IF keyRevoking # 0 /\ keyText = keyRevoking THEN {"confirmRevoke"} ELSE {})
    \cup (IF keySecret # 0 THEN {"acknowledge"} ELSE {})

\* The table and the modals: what submits is disabled by the one isSubmitting,
\* Cancel is not.
KeyOffers ==
  {"new"} \cup (IF keyLoading THEN {} ELSE {"rotate", "revoke"})
    \cup (IF keyCreateOpen THEN {"cancelCreate"} ELSE {})
    \cup (IF keyRotating # 0 THEN {"cancelRotate"} ELSE {})
    \cup (IF keyRevoking # 0 THEN {"cancelRevoke", "type"} ELSE {})
    \cup (IF keySecret # 0 THEN {"acknowledge"} ELSE {})
    \cup (IF keySubmitting THEN {}
          ELSE (IF keyCreateOpen THEN {"create"} ELSE {})
               \cup (IF keyRotating # 0 THEN {"confirmRotate"} ELSE {})
               \cup (IF keyRevoking # 0 /\ keyText = keyRevoking THEN {"confirmRevoke"} ELSE {}))

\* Opening and closing of the modals; closeSecretModal forgets the secret.
KeyModal ==
  /\ SetMove
  /\ \/ /\ \/ "new" \in KeyOffers /\ keyCreateOpen' = TRUE
           \/ "cancelCreate" \in KeyOffers /\ keyCreateOpen' = FALSE
        /\ UNCHANGED <<keyRotating, keyRevoking, keyText, keySecret>>
     \/ /\ \/ "rotate" \in KeyOffers /\ keyRotating' \in Things
           \/ "cancelRotate" \in KeyOffers /\ keyRotating' = 0
        /\ UNCHANGED <<keyCreateOpen, keyRevoking, keyText, keySecret>>
     \/ /\ \/ "revoke" \in KeyOffers /\ keyRevoking' \in Things
           \/ "cancelRevoke" \in KeyOffers /\ keyRevoking' = 0
        /\ UNCHANGED <<keyCreateOpen, keyRotating, keyText, keySecret>>
     \/ /\ "type" \in KeyOffers /\ keyText' \in Things
        /\ UNCHANGED <<keyCreateOpen, keyRotating, keyRevoking, keySecret>>
     \/ /\ "acknowledge" \in KeyOffers /\ keySecret' = 0
        /\ UNCHANGED <<keyCreateOpen, keyRotating, keyRevoking, keyText>>
  /\ UNCHANGED <<keyMount, keyLoading, keySubmitting, keyTasks>>

\* onCreateKey, onRotateKey, onRevokeKey up to their request.
KeySubmit(kind) ==
  /\ kind \in {"create", "confirmRotate", "confirmRevoke"} \cap KeyOffers /\ SetMove
  /\ keySubmitting' = TRUE
  /\ KeyTask(kind)
  /\ UNCHANGED <<keyMount, keyLoading, keyCreateOpen, keyRotating, keyRevoking, keyText, keySecret>>

Reloads(k) == keyTasks' = (keyTasks \ {k}) \cup {[k EXCEPT !.phase = "reload"]}

\* The key was created: its secret takes the place of one that is shown.
KeyCreated(k) ==
  /\ k \in keyTasks /\ k.kind = "create" /\ k.phase = "asked" /\ k.mount = keyMount
  /\ keySecret' = k.nr /\ keyCreateOpen' = FALSE
  /\ Reloads(k) /\ keyLoading' = TRUE
  /\ UNCHANGED <<setMoves, keyMount, keySubmitting, keyRotating, keyRevoking, keyText>>

KeyRotated(k) ==
  /\ k \in keyTasks /\ k.kind = "confirmRotate" /\ k.phase = "asked" /\ k.mount = keyMount
  /\ keySecret' = k.nr /\ keyRotating' = 0
  /\ Reloads(k) /\ keyLoading' = TRUE
  /\ UNCHANGED <<setMoves, keyMount, keySubmitting, keyCreateOpen, keyRevoking, keyText>>

KeyRevoked(k) ==
  /\ k \in keyTasks /\ k.kind = "confirmRevoke" /\ k.phase = "asked" /\ k.mount = keyMount
  /\ keyRevoking' = 0 /\ keyText' = 0
  /\ Reloads(k) /\ keyLoading' = TRUE
  /\ UNCHANGED <<setMoves, keyMount, keySubmitting, keyCreateOpen, keyRotating, keySecret>>

\* The request failed, or the keys were loaded again, or not: the task is over.
KeyTaskEnds(k) ==
  /\ k \in keyTasks
  /\ keyTasks' = keyTasks \ {k}
  /\ IF k.mount # keyMount THEN UNCHANGED <<keyLoading, keySubmitting>>
     ELSE /\ keyLoading' = (keyLoading /\ k.phase # "reload")
          /\ keySubmitting' = (keySubmitting /\ k.kind = "load")
  /\ UNCHANGED <<setMoves, keyMount, keyCreateOpen, keyRotating, keyRevoking, keyText, keySecret>>

\* Another tab and back: a fresh component.
KeyRemount ==
  /\ SetMove
  /\ keyMount' = keyMount + 1 /\ keyLoading' = TRUE /\ keySubmitting' = FALSE
  /\ keyCreateOpen' = FALSE /\ keyRotating' = 0 /\ keyRevoking' = 0 /\ keyText' = 0 /\ keySecret' = 0
  /\ keyTasks' = keyTasks \cup {[nr |-> setMoves', mount |-> keyMount', kind |-> "load", phase |-> "reload"]}

KeyNext ==
  \/ KeyModal \/ KeyRemount
  \/ \E kind \in {"create", "confirmRotate", "confirmRevoke"} : KeySubmit(kind)
  \/ \E k \in keyTasks : KeyCreated(k) \/ KeyRotated(k) \/ KeyRevoked(k) \/ KeyTaskEnds(k)

-----------------------------------------------------------------------------
(* Webhooks *)

HkTask(kind, hook) == [nr |-> setMoves', mount |-> hkMount, kind |-> kind, hook |-> hook]

HkInit ==
  /\ hkMount = 1 /\ hkList = {} /\ hkLoading = TRUE /\ hkSelected = 0
  /\ hkOf = 0 /\ hkOfLoading = FALSE
  /\ hkCreateOpen = FALSE /\ hkSubmitting = FALSE /\ hkSecret = 0
  /\ hkTasks = {[nr |-> 0, mount |-> 1, kind |-> "load", hook |-> 0]}

\* The effect of another selection: its deliveries are asked for, or none are shown.
Selects(hook, tasks) ==
  /\ hkSelected' = hook
  /\ IF hook = hkSelected \/ hook = 0 THEN hkTasks' = tasks /\ UNCHANGED hkOfLoading
     ELSE /\ hkTasks' = tasks \cup {[nr |-> setMoves, mount |-> hkMount, kind |-> "deliveries", hook |-> hook]}
          /\ hkOfLoading' = TRUE
  /\ hkOf' = IF hook = 0 /\ hkSelected # 0 THEN 0 ELSE hkOf

\* loadWebhooks: the first is selected unless one is, an empty list selects
\* none; after a creation, the one that was created is.
HookLoaded(k, list) ==
  /\ k \in hkTasks /\ k.kind \in {"load", "created"} /\ k.mount = hkMount
  /\ hkLoading' = FALSE
  /\ \/ /\ hkList' = list
        /\ LET first == IF list = {} THEN 0 ELSE IF hkSelected # 0 THEN hkSelected ELSE CHOOSE h \in list : TRUE
           IN Selects(IF k.kind = "created" THEN k.hook ELSE first, hkTasks \ {k})
     \/ /\ UNCHANGED hkList
        /\ Selects(IF k.kind = "created" THEN k.hook ELSE hkSelected, hkTasks \ {k})
  /\ hkSubmitting' = (hkSubmitting /\ k.kind = "load")
  /\ UNCHANGED <<setMoves, hkMount, hkCreateOpen, hkSecret>>

\* What the tab offers; Save and Regenerate wait, Retry does not.
HookOffers ==
  {"new"} \cup (IF hkLoading \/ hkList = {} THEN {} ELSE {"select"})
    \cup (IF hkCreateOpen THEN {"cancel"} ELSE {})
    \cup (IF hkSecret # 0 THEN {"saved"} ELSE {})
    \cup (IF hkLoading \/ hkSelected \notin hkList \/ hkOfLoading \/ hkOf = 0 THEN {} ELSE {"retry"})
    \cup (IF hkSubmitting THEN {}
          ELSE (IF hkCreateOpen THEN {"create"} ELSE {})
               \cup (IF hkLoading \/ hkSelected \notin hkList THEN {} ELSE {"regenerate"}))

HookSelect(hook) ==
  /\ "select" \in HookOffers /\ hook \in hkList \ {hkSelected} /\ SetMove
  /\ Selects(hook, hkTasks)
  /\ UNCHANGED <<hkMount, hkList, hkLoading, hkCreateOpen, hkSubmitting, hkSecret>>

HookModal ==
  /\ SetMove
  /\ \/ "new" \in HookOffers /\ hkCreateOpen' = TRUE /\ UNCHANGED hkSecret
     \/ "cancel" \in HookOffers /\ hkCreateOpen' = FALSE /\ UNCHANGED hkSecret
     \/ "saved" \in HookOffers /\ hkSecret' = 0 /\ UNCHANGED hkCreateOpen
  /\ UNCHANGED <<hkMount, hkList, hkLoading, hkSelected, hkOf, hkOfLoading, hkSubmitting, hkTasks>>

\* onCreateWebhook, onRegenerateSecret
HookSubmit(kind) ==
  /\ kind \in {"create", "regenerate"} \cap HookOffers /\ SetMove
  /\ hkSubmitting' = TRUE
  /\ hkTasks' = hkTasks \cup {HkTask(kind, hkSelected)}
  /\ UNCHANGED <<hkMount, hkList, hkLoading, hkSelected, hkOf, hkOfLoading, hkCreateOpen, hkSecret>>

HookCreated(k, hook) ==
  /\ k \in hkTasks /\ k.kind = "create" /\ k.mount = hkMount
  /\ hkCreateOpen' = FALSE /\ hkSecret' = k.nr /\ hkLoading' = TRUE
  /\ hkTasks' = (hkTasks \ {k}) \cup {[k EXCEPT !.kind = "created", !.hook = hook]}
  /\ UNCHANGED <<setMoves, hkMount, hkList, hkSelected, hkOf, hkOfLoading, hkSubmitting>>

HookRegenerated(k) ==
  /\ k \in hkTasks /\ k.kind = "regenerate" /\ k.mount = hkMount
  /\ hkSecret' = k.nr /\ hkSubmitting' = FALSE
  /\ hkTasks' = hkTasks \ {k}
  /\ UNCHANGED <<setMoves, hkMount, hkList, hkLoading, hkSelected, hkOf, hkOfLoading, hkCreateOpen>>

\* onRetryDelivery, onReplayDlq: a delivery that is shown, of whichever webhook,
\* is retried at the selected one.
HookRetry ==
  /\ "retry" \in HookOffers /\ SetMove
  /\ hkTasks' = hkTasks \cup {HkTask("retry", hkSelected)}
  /\ UNCHANGED <<hkMount, hkList, hkLoading, hkSelected, hkOf, hkOfLoading, hkCreateOpen, hkSubmitting, hkSecret>>

HookRetried(k) ==
  /\ k \in hkTasks /\ k.kind = "retry" /\ k.mount = hkMount
  /\ hkTasks' = (hkTasks \ {k}) \cup {[k EXCEPT !.kind = "deliveries"]}
  /\ hkOfLoading' = TRUE
  /\ UNCHANGED <<setMoves, hkMount, hkList, hkLoading, hkSelected, hkOf, hkCreateOpen, hkSubmitting, hkSecret>>

\* loadDeliveries: shown whichever webhook is selected by now; none on failure.
HookDeliveries(k) ==
  /\ k \in hkTasks /\ k.kind = "deliveries" /\ k.mount = hkMount
  /\ hkTasks' = hkTasks \ {k}
  /\ hkOf' \in {k.hook, 0} /\ hkOfLoading' = FALSE
  /\ UNCHANGED <<setMoves, hkMount, hkList, hkLoading, hkSelected, hkCreateOpen, hkSubmitting, hkSecret>>

\* A failed creation, regeneration or retry; or the answer to a component that is gone.
HookTaskEnds(k) ==
  /\ k \in hkTasks
  /\ k.mount = hkMount => k.kind \in {"create", "regenerate", "retry"}
  /\ hkTasks' = hkTasks \ {k}
  /\ hkSubmitting' = (hkSubmitting /\ ~(k.mount = hkMount /\ k.kind # "retry"))
  /\ UNCHANGED <<setMoves, hkMount, hkList, hkLoading, hkSelected, hkOf, hkOfLoading, hkCreateOpen, hkSecret>>

HookRemount ==
  /\ SetMove
  /\ hkMount' = hkMount + 1 /\ hkList' = {} /\ hkLoading' = TRUE /\ hkSelected' = 0
  /\ hkOf' = 0 /\ hkOfLoading' = FALSE /\ hkCreateOpen' = FALSE /\ hkSubmitting' = FALSE /\ hkSecret' = 0
  /\ hkTasks' = hkTasks \cup {[nr |-> setMoves', mount |-> hkMount', kind |-> "load", hook |-> 0]}

HkNext ==
  \/ HookModal \/ HookRetry \/ HookRemount
  \/ \E hook \in Things : HookSelect(hook)
  \/ \E kind \in {"create", "regenerate"} : HookSubmit(kind)
  \/ \E k \in hkTasks :
       \/ \E list \in SUBSET Things : HookLoaded(k, list)
       \/ \E hook \in Things : HookCreated(k, hook)
       \/ HookRegenerated(k) \/ HookRetried(k) \/ HookDeliveries(k) \/ HookTaskEnds(k)

-----------------------------------------------------------------------------
(* Integrations.  A request is asked, then answered by the instance with what
   it holds by then, then applied to the page. *)

InTask(nr, kind, thing) == [nr |-> nr, kind |-> kind, thing |-> thing, phase |-> "asked", list |-> {}]

InInit ==
  /\ inStored \in SUBSET Things /\ inList = {} /\ inLoading = TRUE
  /\ inAddOpen = FALSE /\ inAdding = FALSE /\ inKey = FALSE
  /\ inTasks = {InTask(0, "load", 0)}

\* The page and its modals: a modal beside whose form is clicked closes while it
\* creates; it stays mounted and keeps `loading`.
InOffers ==
  {"add"} \cup (IF inLoading THEN {} ELSE {"reload", "revoke"})
    \cup (IF inAddOpen THEN {"beside"} ELSE {})
    \cup (IF inAddOpen /\ ~inAdding THEN {"create", "cancel"} ELSE {})
    \cup (IF inKey THEN {"done"} ELSE {})

InModal ==
  /\ SetMove
  /\ \/ "add" \in InOffers /\ inAddOpen' = TRUE /\ UNCHANGED inKey
     \/ "beside" \in InOffers /\ inAddOpen' = FALSE /\ UNCHANGED inKey
     \/ "done" \in InOffers /\ inKey' = FALSE /\ UNCHANGED inAddOpen
  /\ UNCHANGED <<inStored, inList, inLoading, inAdding, inTasks>>

\* loadIntegrations: Retry, after a failure.
InReload ==
  /\ "reload" \in InOffers /\ SetMove
  /\ inLoading' = TRUE
  /\ inTasks' = inTasks \cup {InTask(setMoves', "load", 0)}
  /\ UNCHANGED <<inStored, inList, inAddOpen, inAdding, inKey>>

InCreate(thing) ==
  /\ "create" \in InOffers /\ thing \notin inStored /\ SetMove
  /\ inAdding' = TRUE
  /\ inTasks' = inTasks \cup {InTask(setMoves', "create", thing)}
  /\ UNCHANGED <<inStored, inList, inLoading, inAddOpen, inKey>>

\* handleDelete, once it is confirmed.
InRemove(thing) ==
  /\ "revoke" \in InOffers /\ thing \in inList /\ SetMove
  /\ inTasks' = inTasks \cup {InTask(setMoves', "remove", thing)}
  /\ UNCHANGED <<inStored, inList, inLoading, inAddOpen, inAdding, inKey>>

\* The instance does what it is asked.
InServed(k) ==
  /\ k \in inTasks /\ k.phase = "asked"
  /\ inStored' = CASE k.kind = "create" -> inStored \cup {k.thing}
                   [] k.kind = "remove" -> inStored \ {k.thing}
                   [] OTHER -> inStored
  /\ inTasks' = (inTasks \ {k}) \cup {[k EXCEPT !.phase = "answered", !.list = inStored']}
  /\ UNCHANGED <<setMoves, inList, inLoading, inAddOpen, inAdding, inKey>>

\* A list takes the place of what is shown, one that is older than a creation too.
InLoaded(k) ==
  /\ k \in inTasks /\ k.kind = "load" /\ k.phase = "answered"
  /\ inList' = k.list /\ inLoading' = FALSE
  /\ inTasks' = inTasks \ {k}
  /\ UNCHANGED <<setMoves, inStored, inAddOpen, inAdding, inKey>>

\* handleCreate, then the modal resets itself and closes.
InCreated(k) ==
  /\ k \in inTasks /\ k.kind = "create" /\ k.phase = "answered"
  /\ inList' = inList \cup {k.thing} /\ inKey' = TRUE
  /\ inAddOpen' = FALSE /\ inAdding' = FALSE
  /\ inTasks' = inTasks \ {k}
  /\ UNCHANGED <<setMoves, inStored, inLoading>>

InRemoved(k) ==
  /\ k \in inTasks /\ k.kind = "remove" /\ k.phase = "answered"
  /\ inList' = inList \ {k.thing}
  /\ inTasks' = inTasks \ {k}
  /\ UNCHANGED <<setMoves, inStored, inLoading, inAddOpen, inAdding, inKey>>

\* The request failed, or its answer was lost.
InFails(k) ==
  /\ k \in inTasks
  /\ inTasks' = inTasks \ {k}
  /\ inLoading' = (inLoading /\ k.kind # "load")
  /\ inAdding' = (inAdding /\ k.kind # "create")
  /\ UNCHANGED <<setMoves, inStored, inList, inAddOpen, inKey>>

InNext ==
  \/ InModal \/ InReload
  \/ \E thing \in Things : InCreate(thing) \/ InRemove(thing)
  \/ \E k \in inTasks : InServed(k) \/ InLoaded(k) \/ InCreated(k) \/ InRemoved(k) \/ InFails(k)

-----------------------------------------------------------------------------
SettingsInit == setMoves = 0 /\ AccInit /\ AgInit /\ KeyInit /\ HkInit /\ InInit

OnlyAcc(A) == A /\ UNCHANGED <<agVars, keyVars, hkVars, inVars>>
OnlyAg(A) == A /\ UNCHANGED <<accVars, keyVars, hkVars, inVars>>
OnlyKey(A) == A /\ UNCHANGED <<accVars, agVars, hkVars, inVars>>
OnlyHk(A) == A /\ UNCHANGED <<accVars, agVars, keyVars, inVars>>
OnlyIn(A) == A /\ UNCHANGED <<accVars, agVars, keyVars, hkVars>>

SettingsNext ==
  OnlyAcc(AccNext) \/ OnlyAg(AgNext) \/ OnlyKey(KeyNext) \/ OnlyHk(HkNext) \/ OnlyIn(InNext)

settingsVars == <<setMoves, accVars, agVars, keyVars, hkVars, inVars>>

SettingsSpec == SettingsInit /\ [][SettingsNext]_settingsVars

KeyKinds == {"load", "create", "confirmRotate", "confirmRevoke"}
HkKinds == {"load", "create", "created", "regenerate", "retry", "deliveries"}

SettingsFlags ==
  /\ profReading \in BOOLEAN /\ profSaving \in BOOLEAN /\ profSaved \in BOOLEAN
  /\ pwSaving \in BOOLEAN /\ pwSaved \in BOOLEAN
  /\ agEditing \in BOOLEAN /\ agDirty \in BOOLEAN /\ agSaving \in BOOLEAN
  /\ keyLoading \in BOOLEAN /\ keySubmitting \in BOOLEAN /\ keyCreateOpen \in BOOLEAN
  /\ hkLoading \in BOOLEAN /\ hkOfLoading \in BOOLEAN /\ hkCreateOpen \in BOOLEAN /\ hkSubmitting \in BOOLEAN
  /\ inLoading \in BOOLEAN /\ inAddOpen \in BOOLEAN /\ inAdding \in BOOLEAN /\ inKey \in BOOLEAN

AccTypes ==
  /\ meState \in {"loading", "failed", "ready"} /\ accTab \in {"profile", "password"}
  /\ profBase \in ProfileNames /\ profDraft \in ProfileNames
  /\ profAsks \subseteq [nr : 1..MaxSetMoves, name : ProfileNames]
  /\ pwDraft \in {"empty", "short", "different", "good"} /\ pwAsks \subseteq 1..MaxSetMoves

AgTypes ==
  /\ agState \in {"loading", "failed", "ready"} /\ agMount \in Nat \ {0}
  /\ agAsks \subseteq [nr : 1..MaxSetMoves, mount : 1..agMount]

KeyTypes ==
  /\ keyMount \in Nat \ {0} /\ keyRotating \in Things \cup {0} /\ keyRevoking \in Things \cup {0}
  /\ keyText \in Things \cup {0} /\ keySecret \in 0..MaxSetMoves
  /\ keyTasks \subseteq [nr : 0..MaxSetMoves, mount : 1..keyMount, kind : KeyKinds,
                         phase : {"asked", "reload"}]

HkTypes ==
  /\ hkMount \in Nat \ {0} /\ hkList \subseteq Things
  /\ hkSelected \in Things \cup {0} /\ hkOf \in Things \cup {0} /\ hkSecret \in 0..MaxSetMoves
  /\ hkTasks \subseteq [nr : 0..MaxSetMoves, mount : 1..hkMount, kind : HkKinds, hook : Things \cup {0}]

InTypes ==
  /\ inStored \subseteq Things /\ inList \subseteq Things
  /\ inTasks \subseteq [nr : 0..MaxSetMoves, kind : {"load", "create", "remove"},
                        thing : Things \cup {0}, phase : {"asked", "answered"}, list : SUBSET Things]

SettingsTypeOK ==
  /\ setMoves \in 0..MaxSetMoves /\ SettingsFlags
  /\ AccTypes /\ AgTypes /\ KeyTypes /\ HkTypes /\ InTypes

KeyCalls == {k \in keyTasks : k.mount = keyMount /\ k.kind # "load"}
HookCalls == {k \in hkTasks : k.mount = hkMount /\ k.kind \in {"create", "created", "regenerate"}}
AgentCalls == {a \in agAsks : a.mount = agMount}
Additions == {k \in inTasks : k.kind = "create"}

\* What the pages' saving flags guard: profSaving the profile's save, pwSaving the
\* password's, agSaving an agent's, the keys' isSubmitting creating, rotating and
\* revoking, the webhooks' isSubmitting creating and regenerating, and the modal's
\* loading the adding of an integration.  Whatever modals are cancelled and opened
\* again, each flag stands for one such request at most, and is set exactly while
\* that request, or the loading that follows it, is under way.  So the secret that is
\* shown once is never replaced by that of an older request.  Nothing is said across
\* flags (a profile and a password are saved side by side), nor of what no flag
\* guards: the retry and the replay of a delivery and the removal of an integration.
OneCallPerFlag ==
  /\ SettingsTypeOK
  /\ \A calls \in {profAsks, KeyCalls, HookCalls, AgentCalls, Additions} : Cardinality(calls) <= 1
  /\ Cardinality(pwAsks) <= 1
  /\ profSaving <=> profAsks # {}
  /\ pwSaving <=> pwAsks # {}
  /\ keySubmitting <=> KeyCalls # {}
  /\ hkSubmitting <=> HookCalls # {}
  /\ agSaving <=> AgentCalls # {}
  /\ inAdding <=> Additions # {}
  /\ \A k \in KeyCalls : keySecret <= k.nr
  /\ \A k \in HookCalls : hkSecret <= k.nr
=============================================================================
