-------------------------- MODULE WebhookDelivery --------------------------
(***************************************************************************)
(* Telling webhooks about a stored message (webhook_service.go over        *)
(* webhook_repository.go).  Each event has a goroutine of its own, which   *)
(* serves the webhooks it found one after the other, with up to MaxTries   *)
(* posts and a delivery row for each.  Webhooks come and go meanwhile, a   *)
(* statement may fail, and the process may die; nothing resumes a delivery *)
(* afterwards.                                                             *)
(***************************************************************************)
EXTENDS Naturals

CONSTANTS
  Hooks,         \* webhooks, numbered in the order of their creation
  Events,        \* messages stored
  MaxTries,      \* maxAttempts, 3 in the code
  MaxRowFaults,  \* bound on failing statements
  MaxDeaths,     \* bound on deaths of the process
  NoHook

ASSUME HooksOK ==
  /\ Hooks \subseteq Nat /\ NoHook \notin Hooks
  /\ MaxTries \in Nat \ {0} /\ MaxRowFaults \in Nat /\ MaxDeaths \in Nat

VARIABLES
  hook,      \* "new", "there" or "gone", of each row of the table webhooks
  dpc,       \* where the goroutine of an event is
  waiting,   \* webhooks it has found and not begun to serve
  serving,   \* the one it serves
  tries,     \* delivery.AttemptCount
  outcome,   \* delivery.Status
  row,       \* rows of webhook_deliveries
  posts,     \* attempts made (history)
  accepted,  \* webhooks that answered 2xx, as the goroutine saw (history)
  skipped,   \* webhooks without a delivery row (history)
  stale,     \* rows an update of which has failed (history)
  faults, deaths

goVars == <<dpc, waiting, serving, tries, outcome>>
logVars == <<posts, accepted, skipped, stale>>
hookVars == <<hook, goVars, row, logVars, faults, deaths>>

NoDelivery == [status |-> "none", count |-> 0]
Statuses == {"none", "pending", "success", "failed"}

HookTypes ==
  /\ hook \in [Hooks -> {"new", "there", "gone"}]
  /\ dpc \in [Events -> {"idle", "list", "next", "attempt", "backoff", "update", "done", "lost"}]
  /\ waiting \in [Events -> SUBSET Hooks]
  /\ serving \in [Events -> Hooks \cup {NoHook}]
  /\ tries \in [Events -> 0..MaxTries] /\ outcome \in [Events -> Statuses]
  /\ row \in [Events -> [Hooks -> [status : Statuses, count : 0..MaxTries]]]
  /\ posts \in [Events -> [Hooks -> Nat]]
  /\ accepted \in [Events -> SUBSET Hooks] /\ skipped \in [Events -> SUBSET Hooks]
  /\ stale \in [Events -> SUBSET Hooks]
  /\ faults \in 0..MaxRowFaults /\ deaths \in 0..MaxDeaths

HookInit ==
  /\ hook \in [Hooks -> {"new", "there"}]
  /\ dpc = [e \in Events |-> "idle"] /\ waiting = [e \in Events |-> {}]
  /\ serving = [e \in Events |-> NoHook] /\ tries = [e \in Events |-> 0]
  /\ outcome = [e \in Events |-> "none"]
  /\ row = [e \in Events |-> [h \in Hooks |-> NoDelivery]]
  /\ posts = [e \in Events |-> [h \in Hooks |-> 0]]
  /\ accepted = [e \in Events |-> {}] /\ skipped = [e \in Events |-> {}]
  /\ stale = [e \in Events |-> {}]
  /\ faults = 0 /\ deaths = 0

-----------------------------------------------------------------------------
(* Webhooks come and go, by requests of their own *)

CreateWebhook(h) ==
  /\ hook[h] = "new" /\ hook' = [hook EXCEPT ![h] = "there"]
  /\ UNCHANGED <<goVars, row, logVars, faults, deaths>>

\* ON DELETE CASCADE: its delivery rows go with it.
DeleteWebhook(h) ==
  /\ hook[h] = "there" /\ hook' = [hook EXCEPT ![h] = "gone"]
  /\ row' = [e \in Events |-> [row[e] EXCEPT ![h] = NoDelivery]]
  /\ UNCHANGED <<goVars, logVars, faults, deaths>>

-----------------------------------------------------------------------------
(* The goroutine of an event *)

DispatchEvent(e) ==
  /\ dpc[e] = "idle" /\ dpc' = [dpc EXCEPT ![e] = "list"]
  /\ UNCHANGED <<hook, waiting, serving, tries, outcome, row, logVars, faults, deaths>>

\* ListByChannel, once.
ListWebhooks(e) ==
  /\ dpc[e] = "list" /\ dpc' = [dpc EXCEPT ![e] = "next"]
  /\ waiting' = [waiting EXCEPT ![e] = {h \in Hooks : hook[h] = "there"}]
  /\ UNCHANGED <<hook, serving, tries, outcome, row, logVars, faults, deaths>>

\* The event is given up.
ListFails(e) ==
  /\ dpc[e] = "list" /\ dpc' = [dpc EXCEPT ![e] = "done"]
  /\ faults < MaxRowFaults /\ faults' = faults + 1
  /\ UNCHANGED <<hook, waiting, serving, tries, outcome, row, logVars, deaths>>

IsNext(e, h) == dpc[e] = "next" /\ h \in waiting[e] /\ \A g \in waiting[e] : h <= g

\* The row refers to its webhook, which must still be there.
CreateDelivery(e, h) ==
  /\ IsNext(e, h) /\ hook[h] = "there"
  /\ dpc' = [dpc EXCEPT ![e] = "attempt"] /\ waiting' = [waiting EXCEPT ![e] = @ \ {h}]
  /\ serving' = [serving EXCEPT ![e] = h] /\ tries' = [tries EXCEPT ![e] = 1]
  /\ outcome' = [outcome EXCEPT ![e] = "pending"]
  /\ row' = [row EXCEPT ![e][h] = [status |-> "pending", count |-> 0]]
  /\ UNCHANGED <<hook, logVars, faults, deaths>>

\* Without a row nothing is posted, and the next webhook has its turn.
Skip(e, h) ==
  /\ waiting' = [waiting EXCEPT ![e] = @ \ {h}]
  /\ skipped' = [skipped EXCEPT ![e] = @ \cup {h}]
  /\ UNCHANGED <<hook, dpc, serving, tries, outcome, row, posts, accepted, stale, deaths>>
CreateDeliveryRefused(e, h) ==
  IsNext(e, h) /\ hook[h] # "there" /\ Skip(e, h) /\ UNCHANGED faults
\* Mutant of CreateDeliveryFails: the failure ends the loop.
CreateDeliveryFailsAll(e, h) ==
  /\ IsNext(e, h) /\ faults < MaxRowFaults /\ faults' = faults + 1
  /\ dpc' = [dpc EXCEPT ![e] = "done"]
  /\ UNCHANGED <<hook, waiting, serving, tries, outcome, row, logVars, deaths>>

CreateDeliveryFails(e, h) ==
  IsNext(e, h) /\ faults < MaxRowFaults /\ faults' = faults + 1 /\ Skip(e, h)

DispatchEnds(e) ==
  /\ dpc[e] = "next" /\ waiting[e] = {} /\ dpc' = [dpc EXCEPT ![e] = "done"]
  /\ UNCHANGED <<hook, waiting, serving, tries, outcome, row, logVars, faults, deaths>>

\* A post has an answer, an error or a timeout.
Posted(e) == posts' = [posts EXCEPT ![e][serving[e]] = @ + 1]
AttemptSucceeds(e) ==
  /\ dpc[e] = "attempt" /\ Posted(e) /\ dpc' = [dpc EXCEPT ![e] = "update"]
  /\ outcome' = [outcome EXCEPT ![e] = "success"]
  /\ accepted' = [accepted EXCEPT ![e] = @ \cup {serving[e]}]
  /\ UNCHANGED <<hook, waiting, serving, tries, row, skipped, stale, faults, deaths>>
AttemptFails(e) ==
  /\ dpc[e] = "attempt" /\ Posted(e)
  /\ dpc' = [dpc EXCEPT ![e] = IF tries[e] < MaxTries THEN "backoff" ELSE "update"]
  /\ outcome' = [outcome EXCEPT ![e] = "failed"]
  /\ UNCHANGED <<hook, waiting, serving, tries, row, accepted, skipped, stale, faults, deaths>>

\* The goroutine sleeps before it writes what has failed.
BackoffEnds(e) ==
  /\ dpc[e] = "backoff" /\ dpc' = [dpc EXCEPT ![e] = "update"]
  /\ UNCHANGED <<hook, waiting, serving, tries, outcome, row, logVars, faults, deaths>>

\* Mutant of AfterUpdate: the attempts go on after a success.
AfterUpdateAlways(e) ==
  /\ IF tries[e] < MaxTries
       THEN /\ dpc' = [dpc EXCEPT ![e] = "attempt"]
            /\ tries' = [tries EXCEPT ![e] = @ + 1] /\ UNCHANGED serving
       ELSE /\ dpc' = [dpc EXCEPT ![e] = "next"] /\ UNCHANGED tries
            /\ serving' = [serving EXCEPT ![e] = NoHook]
  /\ UNCHANGED <<hook, waiting, outcome, posts, accepted, skipped, deaths>>

\* After the update: another attempt, or the next webhook.
AfterUpdate(e) ==
  /\ IF outcome[e] # "success" /\ tries[e] < MaxTries
       THEN /\ dpc' = [dpc EXCEPT ![e] = "attempt"]
            /\ tries' = [tries EXCEPT ![e] = @ + 1] /\ UNCHANGED serving
       ELSE /\ dpc' = [dpc EXCEPT ![e] = "next"] /\ UNCHANGED tries
            /\ serving' = [serving EXCEPT ![e] = NoHook]
  /\ UNCHANGED <<hook, waiting, outcome, posts, accepted, skipped, deaths>>
\* A row that is gone is updated without an error.
UpdateDelivery(e) ==
  /\ dpc[e] = "update" /\ AfterUpdate(e)
  /\ LET h == serving[e] IN
     row' = [row EXCEPT ![e][h] = IF @ = NoDelivery THEN @
                                  ELSE [status |-> outcome[e], count |-> tries[e]]]
  /\ stale' = [stale EXCEPT ![e] = @ \ {serving[e]}] /\ UNCHANGED faults
UpdateFails(e) ==
  /\ dpc[e] = "update" /\ faults < MaxRowFaults /\ faults' = faults + 1
  /\ AfterUpdate(e)
  /\ stale' = [stale EXCEPT ![e] = @ \cup {serving[e]}] /\ UNCHANGED row

\* The process dies and is started again: goroutines are gone, rows stay.
ProcessDies ==
  /\ deaths < MaxDeaths /\ deaths' = deaths + 1
  /\ dpc' = [e \in Events |-> IF dpc[e] \in {"idle", "done"} THEN dpc[e] ELSE "lost"]
  /\ UNCHANGED <<hook, waiting, serving, tries, outcome, row, logVars, faults>>

-----------------------------------------------------------------------------
GoroutineSteps(e) ==
  \/ ListWebhooks(e) \/ ListFails(e) \/ DispatchEnds(e) \/ AttemptSucceeds(e)
  \/ AttemptFails(e) \/ BackoffEnds(e) \/ UpdateDelivery(e) \/ UpdateFails(e)
  \/ \E h \in Hooks : \/ CreateDelivery(e, h) \/ CreateDeliveryRefused(e, h)
                      \/ CreateDeliveryFails(e, h)

HookNext ==
  \/ \E h \in Hooks : CreateWebhook(h) \/ DeleteWebhook(h)
  \/ \E e \in Events : DispatchEvent(e) \/ GoroutineSteps(e)
  \/ ProcessDies

\* The goroutine runs: a post ends at its timeout of 30 s, a sleep ends.
HookSpec ==
  HookInit /\ [][HookNext]_hookVars /\ \A e \in Events : WF_hookVars(GoroutineSteps(e))

-----------------------------------------------------------------------------
(* Properties *)

Busy(e) == dpc[e] \in {"attempt", "backoff", "update"}

\* The parts of the inductive invariant.
\* What a goroutine knows of the webhook it serves.
ServingKnown ==
  \A e \in Events :
    /\ Busy(e) => /\ serving[e] \in Hooks \ (waiting[e] \cup skipped[e])
                  /\ posts[e][serving[e]] = IF dpc[e] = "attempt" THEN tries[e] - 1 ELSE tries[e]
                  /\ tries[e] > 0 /\ outcome[e] # "none"
                  /\ serving[e] \in accepted[e] <=> outcome[e] = "success"
                  /\ dpc[e] \in {"attempt", "backoff"} => outcome[e] # "success"
                  /\ hook[serving[e]] = "there" => row[e][serving[e]] # NoDelivery
    /\ dpc[e] \in {"update", "backoff"} => outcome[e] # "pending"
    /\ dpc[e] = "backoff" => tries[e] < MaxTries
\* What nobody has begun to serve has no post, no row and no update.
UntouchedWaiting ==
  /\ \A e \in Events, h \in Hooks :
       h \in waiting[e] \cup skipped[e] \/ dpc[e] \in {"idle", "list"} \/ hook[h] = "new" =>
         posts[e][h] = 0 /\ row[e][h] = NoDelivery /\ h \notin accepted[e] \cup stale[e]
  /\ \A e \in Events, h \in Hooks : hook[h] = "new" => h \notin waiting[e] \cup {serving[e]}
  /\ \A e \in Events : dpc[e] \in {"idle", "list"} => skipped[e] = {}
SkippedApart == \A e \in Events : waiting[e] \cap skipped[e] = {}
\* Rows belong to webhooks that are there, and those deleted have none.
RowsHaveHooks ==
  \A e \in Events, h \in Hooks :
    /\ row[e][h] # NoDelivery => hook[h] = "there"
    /\ row[e][h] = NoDelivery => row[e][h].count = 0

\* A webhook that accepted an event is not sent it again, and none is sent it
\* more than MaxTries times, or left before it accepted or had MaxTries posts;
\* one that was deleted, or whose row could not be written, before its turn is
\* sent nothing.
NeverTooOften ==
  \A e \in Events, h \in Hooks :
    /\ posts[e][h] <= MaxTries
    /\ h \in accepted[e] => ~(serving[e] = h /\ dpc[e] \in {"attempt", "backoff"})
    /\ h \in skipped[e] => posts[e][h] = 0
    /\ posts[e][h] > 0 /\ dpc[e] # "lost" /\ ~(Busy(e) /\ serving[e] = h) =>
         h \in accepted[e] \/ posts[e][h] = MaxTries
\* A row that says success is true; and when the goroutine has left a webhook
\* that is still there, its row says how it ended and after how many posts,
\* unless the last update of it failed.
RowsTellTruth ==
  \A e \in Events, h \in Hooks :
    /\ row[e][h].status = "success" => h \in accepted[e]
    /\ row[e][h].count <= posts[e][h]
    /\ (posts[e][h] > 0 /\ hook[h] = "there" /\ h \notin stale[e] /\ dpc[e] # "lost"
          /\ ~(Busy(e) /\ serving[e] = h)) =>
         /\ row[e][h].count = posts[e][h]
         /\ row[e][h].status = IF h \in accepted[e] THEN "success" ELSE "failed"
DeliveryInv ==
  /\ HookTypes /\ ServingKnown /\ UntouchedWaiting /\ SkippedApart /\ RowsHaveHooks
  /\ NeverTooOften /\ RowsTellTruth

\* Every webhook the goroutine found is served in the end, whatever those
\* before it answer: it accepts the event, or has refused it MaxTries times,
\* or had no row; unless the process dies.  (webhook_service.go:148, :178)
DeliveryEnds ==
  \A e \in Events, h \in Hooks :
    (h \in waiting[e]) ~> \/ h \in accepted[e] \/ posts[e][h] = MaxTries
                          \/ h \in skipped[e] \/ dpc[e] = "lost"
=============================================================================
