----------------------------- MODULE WebBilling -----------------------------
(***************************************************************************)
(* The pages of the web client about plans and addresses: the billing tab  *)
(* of the settings with the claim of a subdomain, pricing, the page after  *)
(* a payment, the tunnel dashboard, and the pairing of an instance.  Each  *)
(* is a group of variables with a next-state relation of its own, for they *)
(* are never shown together.  What the billing service answers is a        *)
(* choice; leaving for Stripe and coming back is a fresh page.             *)
(***************************************************************************)
EXTENDS Integers, FiniteSets

CONSTANTS SubNames,       \* names that could be subdomains
          MaxBillMoves    \* what the user does

ASSUME BillConstantsOK == /\ MaxBillMoves \in Nat
                          /\ SubNames \cap {"blank", "bad"} = {}

Typed == SubNames \cup {"blank", "bad"}
Plans == {"free", "pro", "team"}

VARIABLES
  billMoves,
  setTab,                             \* UserSettingsPage: activeTab
  billPlan, billClaimed,              \* billingStatus: plan ("none" before), a subdomain is claimed
  billLoads, billLoading, billError,  \* loads under way and what is shown of them
  checkouts, checkoutShown,           \* checkouts under way; checkoutLoadingPlan is set
  portal,                             \* openPortal: "idle", or the request it waits for
  subInput, subState,                 \* SubdomainClaimSection: input, checkState
  subFor,                             \* history: the name the shown answer is about
  subId, subDue, subAsks,             \* requestIdRef; the timer's request, 0 for none; checks under way
  subClaiming, subChange, subClaims, subMount,
  prAuthed, prPlan, prAsked, prLoading, prAsks, prBanner,   \* PricingPage
  wlLoading, wlTimedOut, wlConfirmed,                       \* WelcomePage; a poll said the plan is paid
  wlFirst, wlInterval, wlPolls,                             \* first poll, the interval, its polls
  wlElapsed, wlSafety, wlGone,                              \* 30 s since the mount; safety timeout
  tnInput, tnAvail, tnChecking, tnChecks, tnSaving, tnSaves, tnLeaving,  \* TunnelDashboardPage
  pairLoading, pairAsks, pairShown                          \* PairInstancePage

subVars == <<subInput, subState, subFor, subId, subDue, subAsks, subClaiming, subChange, subMount>>
payVars == <<checkouts, checkoutShown, portal>>
billVars == <<setTab, billPlan, billClaimed, billLoads, billLoading, billError, payVars,
              subVars, subClaims>>
priceVars == <<prAuthed, prPlan, prAsked, prLoading, prAsks, prBanner>>
welcomeVars == <<wlLoading, wlTimedOut, wlConfirmed, wlFirst, wlInterval, wlPolls, wlElapsed, wlSafety,
                 wlGone>>
tunnelVars == <<tnInput, tnAvail, tnChecking, tnChecks, tnSaving, tnSaves, tnLeaving>>
pairVars == <<pairLoading, pairAsks, pairShown>>

BillMove == billMoves < MaxBillMoves /\ billMoves' = billMoves + 1

-----------------------------------------------------------------------------
(* The subdomain, on the billing tab *)

SubInit ==
  /\ subInput = "blank" /\ subState = "idle" /\ subFor = "blank" /\ subId = 0 /\ subDue = 0
  /\ subAsks = {} /\ subClaiming = FALSE /\ subChange = FALSE

\* The section is left: its state is lost and answers to its checks have no effect.
SubLeft ==
  /\ subInput' = "blank" /\ subState' = "idle" /\ subFor' = "blank" /\ subId' = 0 /\ subDue' = 0
  /\ subAsks' = {} /\ subClaiming' = FALSE /\ subChange' = FALSE /\ subMount' = subMount + 1

\* The status is there, and the section in it.
StatusShown == setTab = "billing" /\ ~billLoading /\ ~billError /\ billPlan # "none"

\* isClaimed: the claimed address is shown in place of the form.
IsClaimed(plan, claimed, change) == plan = "team" /\ claimed /\ ~change

SubForm == StatusShown /\ billPlan = "team" /\ ~IsClaimed(billPlan, billClaimed, subChange)

\* validateSubdomain, and what an invalid or reserved name is answered.
Verdict(name) == CASE name \in SubNames -> "checking" [] name = "bad" -> "invalid" [] OTHER -> "idle"

\* The effect on the typed name: its timer replaces the last one; a name that is
\* not checked leaves the number of the last check as it is.
SubEffect(plan, claimed, change, name) ==
  /\ subState' = IF plan # "team" \/ IsClaimed(plan, claimed, change) THEN "idle" ELSE Verdict(name)
  /\ subId' = IF subState' = "checking" THEN subId + 1 ELSE subId
  /\ subDue' = IF subState' = "checking" THEN subId' ELSE 0

SubType ==
  /\ SubForm /\ ~subClaiming /\ BillMove
  /\ subInput' \in Typed \ {subInput}
  /\ SubEffect(billPlan, billClaimed, subChange, subInput')
  /\ UNCHANGED <<setTab, billPlan, billClaimed, billLoads, billLoading, billError, payVars,
                 subFor, subAsks, subClaiming, subChange, subMount, subClaims>>

SubChangeAsked ==
  /\ StatusShown /\ IsClaimed(billPlan, billClaimed, subChange) /\ BillMove
  /\ subChange' = TRUE
  /\ SubEffect(billPlan, billClaimed, TRUE, subInput)
  /\ UNCHANGED <<setTab, billPlan, billClaimed, billLoads, billLoading, billError, payVars,
                 subInput, subFor, subAsks, subClaiming, subMount, subClaims>>

\* 600 ms after the name was typed.
SubTimer ==
  /\ subDue # 0
  /\ subDue' = 0
  /\ subAsks' = subAsks \cup {[id |-> subDue, name |-> subInput]}
  /\ UNCHANGED <<billMoves, setTab, billPlan, billClaimed, billLoads, billLoading, billError, payVars,
                 subInput, subState, subFor, subId, subClaiming, subChange, subMount, subClaims>>

\* Mutant of Current: whichever answer comes is the answer.
CurrentWithoutId(a) == a \in subAsks

\* The answer is to the last check that was started.
Current(a) == a.id = subId

SubAnswered(a) ==
  /\ a \in subAsks
  /\ subAsks' = subAsks \ {a}
  /\ IF Current(a)
     THEN subState' \in {"available", "taken", "idle"} /\ subFor' = a.name
     ELSE UNCHANGED <<subState, subFor>>
  /\ UNCHANGED <<billMoves, setTab, billPlan, billClaimed, billLoads, billLoading, billError, payVars,
                 subInput, subId, subDue, subClaiming, subChange, subMount, subClaims>>

\* handleClaim
SubClaim ==
  /\ SubForm /\ subState = "available" /\ ~subClaiming /\ BillMove
  /\ subClaiming' = TRUE
  /\ subClaims' = subClaims \cup {[name |-> subInput, mount |-> subMount]}
  /\ UNCHANGED <<setTab, billPlan, billClaimed, billLoads, billLoading, billError, payVars,
                 subInput, subState, subFor, subId, subDue, subAsks, subChange, subMount>>

\* loadBilling starts: the status gives way to a skeleton.
LoadStarts == billLoads' = billLoads + 1 /\ billLoading' = TRUE /\ billError' = FALSE /\ SubLeft

\* A claim went through, also one of a section that was left: the status is loaded again.
SubClaimed(c) ==
  /\ c \in subClaims /\ BillMove
  /\ subClaims' = subClaims \ {c}
  /\ LoadStarts
  /\ UNCHANGED <<setTab, billPlan, billClaimed, payVars>>

SubClaimFails(c) ==
  /\ c \in subClaims
  /\ subClaims' = subClaims \ {c}
  /\ subClaiming' = (subClaiming /\ c.mount # subMount)
  /\ UNCHANGED <<billMoves, setTab, billPlan, billClaimed, billLoads, billLoading, billError, payVars,
                 subInput, subState, subFor, subId, subDue, subAsks, subChange, subMount>>

-----------------------------------------------------------------------------
(* The billing tab *)

BillInit ==
  /\ setTab \in {"profile", "billing"}
  /\ billPlan = "none" /\ billClaimed = FALSE /\ billError = FALSE
  /\ billLoads = (IF setTab = "billing" THEN 1 ELSE 0) /\ billLoading = TRUE
  /\ checkouts = 0 /\ checkoutShown = FALSE /\ portal = "idle"
  /\ SubInit /\ subMount = 0 /\ subClaims = {}

\* The tabs; the billing tab loads the status unless there is one.
SetTab(t) ==
  /\ t # setTab /\ BillMove
  /\ setTab' = t
  /\ IF t = "billing" /\ billPlan = "none"
     THEN LoadStarts
     ELSE SubLeft /\ UNCHANGED <<billLoads, billLoading, billError>>
  /\ UNCHANGED <<billPlan, billClaimed, payVars, subClaims>>

\* A status arrives; one that arrives under a shown section changes its props.
BillLoaded(plan, claimed) ==
  /\ billLoads > 0
  /\ billLoads' = billLoads - 1 /\ billLoading' = FALSE
  /\ billPlan' = plan /\ billClaimed' = claimed
  /\ LET same == /\ (plan = "team") = (billPlan = "team")
                 /\ IsClaimed(plan, claimed, subChange) = IsClaimed(billPlan, billClaimed, subChange)
     IN IF StatusShown /\ ~same
        THEN SubEffect(plan, claimed, subChange, subInput)
        ELSE UNCHANGED <<subState, subId, subDue>>
  /\ UNCHANGED <<billMoves, setTab, billError, payVars, subInput, subFor, subAsks, subClaiming,
                 subChange, subMount, subClaims>>

BillLoadFails ==
  /\ billLoads > 0
  /\ billLoads' = billLoads - 1 /\ billLoading' = FALSE /\ billError' = TRUE
  /\ SubLeft
  /\ UNCHANGED <<billMoves, setTab, billPlan, billClaimed, payVars, subClaims>>

BillRetry ==
  /\ setTab = "billing" /\ billError /\ ~billLoading /\ BillMove
  /\ LoadStarts
  /\ UNCHANGED <<setTab, billPlan, billClaimed, payVars, subClaims>>

\* The page is left for Stripe, and comes back as a new one.
BillReturns ==
  /\ setTab' = "billing" /\ billPlan' = "none" /\ billClaimed' = FALSE /\ billError' = FALSE
  /\ billLoads' = 1 /\ billLoading' = TRUE
  /\ checkouts' = 0 /\ checkoutShown' = FALSE /\ portal' = "idle"
  /\ SubLeft /\ subClaims' = {}

\* The buttons that start a checkout: those of the plan wait for the last one,
\* the subdomain section's does not.
UpgradeOffers ==
  IF ~StatusShown \/ billPlan = "team" THEN {}
  ELSE {"section"} \cup (IF checkoutShown THEN {} ELSE {"plan", "prompt"})

CheckoutStart ==
  /\ UpgradeOffers # {} /\ BillMove
  /\ checkouts' = checkouts + 1 /\ checkoutShown' = TRUE
  /\ UNCHANGED <<setTab, billPlan, billClaimed, billLoads, billLoading, billError, portal,
                 subVars, subClaims>>

CheckoutAnswered ==
  /\ checkouts > 0 /\ UNCHANGED billMoves
  /\ \/ BillReturns
     \/ /\ checkouts' = checkouts - 1 /\ checkoutShown' = FALSE
        /\ UNCHANGED <<setTab, billPlan, billClaimed, billLoads, billLoading, billError, portal,
                       subVars, subClaims>>

PortalOpen ==
  /\ StatusShown /\ billPlan # "free" /\ portal = "idle" /\ BillMove
  /\ portal' = "get"
  /\ UNCHANGED <<setTab, billPlan, billClaimed, billLoads, billLoading, billError, checkouts,
                 checkoutShown, subVars, subClaims>>

\* createPortalSession asks again with POST when GET fails; an answer without an
\* address is a failure too.
PortalAnswered ==
  /\ portal # "idle" /\ UNCHANGED billMoves
  /\ \/ BillReturns
     \/ /\ portal' \in IF portal = "get" THEN {"post", "idle"} ELSE {"idle"}
        /\ UNCHANGED <<setTab, billPlan, billClaimed, billLoads, billLoading, billError, checkouts,
                       checkoutShown, subVars, subClaims>>

BillNext ==
  \/ SubType \/ SubChangeAsked \/ SubTimer \/ SubClaim
  \/ \E a \in subAsks : SubAnswered(a)
  \/ \E c \in subClaims : SubClaimed(c) \/ SubClaimFails(c)
  \/ \E t \in {"profile", "billing"} : SetTab(t)
  \/ \E plan \in Plans, claimed \in BOOLEAN : BillLoaded(plan, claimed)
  \/ BillLoadFails \/ BillRetry \/ CheckoutStart \/ CheckoutAnswered \/ PortalOpen \/ PortalAnswered

-----------------------------------------------------------------------------
(* Pricing *)

PriceInit ==
  /\ prAuthed \in BOOLEAN /\ prAsked = prAuthed /\ prPlan = "none"
  /\ prLoading = FALSE /\ prAsks = 0
  /\ prBanner \in {"none", "upgraded", "canceled"}

\* The plan arrives; without one the page stays as it is.
PricePlan(plan) ==
  /\ prAsked
  /\ prAsked' = FALSE /\ prPlan' = plan
  /\ UNCHANGED <<billMoves, prAuthed, prLoading, prAsks, prBanner>>

\* Eight seconds later, or by its x.
PriceBannerGoes ==
  /\ prBanner # "none"
  /\ prBanner' = "none"
  /\ UNCHANGED <<billMoves, prAuthed, prPlan, prAsked, prLoading, prAsks>>

\* proCta, teamCta: a plan one has, or has more than, is no button.
PriceCta(p) == IF p = "pro" THEN prPlan \in {"none", "free"} ELSE prPlan # "team"

\* The buttons of both plans wait for the checkout under way.
PriceOffers == IF prLoading THEN {} ELSE {p \in {"pro", "team"} : PriceCta(p)}

\* Left for the sign-in page, or for Stripe, and opened again.
PriceReturns ==
  /\ prAuthed' \in BOOLEAN /\ prAsked' = prAuthed' /\ prPlan' = "none"
  /\ prLoading' = FALSE /\ prAsks' = 0 /\ prBanner' = "none"

PriceCheckout(p) ==
  /\ p \in PriceOffers /\ BillMove
  /\ IF ~prAuthed THEN PriceReturns
     ELSE prLoading' = TRUE /\ prAsks' = prAsks + 1 /\ UNCHANGED <<prAuthed, prPlan, prAsked, prBanner>>

PriceAnswered ==
  /\ prAsks > 0 /\ UNCHANGED billMoves
  /\ \/ PriceReturns
     \/ prAsks' = prAsks - 1 /\ prLoading' = FALSE /\ UNCHANGED <<prAuthed, prPlan, prAsked, prBanner>>

PriceNext ==
  \/ \E plan \in Plans \cup {"none"} : PricePlan(plan)
  \/ \E p \in {"pro", "team"} : PriceCheckout(p)
  \/ PriceBannerGoes \/ PriceAnswered

-----------------------------------------------------------------------------
(* After a payment: polling for the plan *)

WelcomeInit ==
  /\ wlLoading = TRUE /\ wlTimedOut = FALSE /\ wlConfirmed = FALSE
  /\ wlFirst = TRUE /\ wlInterval = FALSE /\ wlPolls = 0
  /\ wlElapsed = FALSE /\ wlSafety = "none" /\ wlGone = FALSE

\* What poll() does with an answer: a paid plan ends the wait.
PollApplied(paid) ==
  IF paid /\ ~wlGone
  THEN wlConfirmed' = TRUE /\ wlTimedOut' = FALSE /\ wlLoading' = FALSE
  ELSE UNCHANGED <<wlConfirmed, wlTimedOut, wlLoading>>

\* The answer to the first poll.  Only now, and unless it ends the wait, are the
\* interval of three seconds and the safety timeout of 30.5 s armed.
WelcomeFirst(paid) ==
  /\ wlFirst
  /\ wlFirst' = FALSE
  /\ PollApplied(paid)
  /\ wlInterval' = (~paid /\ ~wlGone)
  /\ wlSafety' = IF wlInterval' THEN "armed" ELSE "none"
  /\ UNCHANGED <<billMoves, wlPolls, wlElapsed, wlGone>>

\* 30 s have passed since startedAt, which the mount sets; no timer runs out, but the
\* interval looks at it.
WelcomeElapses ==
  /\ ~wlElapsed
  /\ wlElapsed' = TRUE
  /\ UNCHANGED <<billMoves, wlLoading, wlTimedOut, wlConfirmed, wlFirst, wlInterval, wlPolls, wlSafety,
                 wlGone>>

\* The safety timeout, at the earliest 30.5 s after the mount, clears the interval and
\* says nothing; ticks that come late may find themselves overtaken by it.
WelcomeSafety ==
  /\ wlSafety = "armed" /\ wlElapsed
  /\ wlSafety' = "fired" /\ wlInterval' = FALSE
  /\ UNCHANGED <<billMoves, wlLoading, wlTimedOut, wlConfirmed, wlFirst, wlPolls, wlElapsed, wlGone>>

\* The interval fires, whether or not the last poll was answered, and after the page is left.
WelcomeTick ==
  /\ wlInterval /\ BillMove
  /\ \/ /\ wlElapsed
        /\ wlInterval' = FALSE
        /\ \/ wlGone /\ UNCHANGED <<wlTimedOut, wlLoading>>
           \/ ~wlGone /\ wlTimedOut' = TRUE /\ wlLoading' = FALSE
        /\ UNCHANGED wlPolls
     \/ ~wlElapsed /\ wlPolls' = wlPolls + 1 /\ UNCHANGED <<wlInterval, wlTimedOut, wlLoading>>
  /\ UNCHANGED <<wlConfirmed, wlFirst, wlElapsed, wlSafety, wlGone>>

\* Mutant of WelcomePolled: a confirmed plan leaves the interval running.
WelcomePolledOn(paid) ==
  /\ wlPolls > 0
  /\ wlPolls' = wlPolls - 1
  /\ PollApplied(paid)
  /\ UNCHANGED <<billMoves, wlInterval, wlFirst, wlElapsed, wlSafety, wlGone>>

WelcomePolled(paid) ==
  /\ wlPolls > 0
  /\ wlPolls' = wlPolls - 1
  /\ PollApplied(paid)
  /\ wlInterval' = (wlInterval /\ ~(paid /\ ~wlGone))
  /\ UNCHANGED <<billMoves, wlFirst, wlElapsed, wlSafety, wlGone>>

\* Cleanup of the effect: cancelled is set; the interval and the safety timeout, whose
\* cleanup is the result of then() and reaches nobody, run on.
WelcomeLeft ==
  /\ ~wlGone /\ BillMove
  /\ wlGone' = TRUE
  /\ UNCHANGED <<wlLoading, wlTimedOut, wlConfirmed, wlFirst, wlInterval, wlPolls, wlElapsed,
                 wlSafety>>

\* What the page says.
WelcomeView == CASE wlLoading -> "confirming" [] ~wlLoading /\ wlTimedOut -> "timed out" [] OTHER -> "welcome"

WelcomeNext ==
  \/ \E paid \in BOOLEAN : WelcomeFirst(paid) \/ WelcomePolled(paid)
  \/ WelcomeElapses \/ WelcomeTick \/ WelcomeSafety \/ WelcomeLeft

-----------------------------------------------------------------------------
(* The tunnel dashboard *)

TunnelInit ==
  /\ tnInput = "blank" /\ tnAvail = "unknown" /\ tnChecking = FALSE /\ tnChecks = {}
  /\ tnSaving = FALSE /\ tnSaves = {} /\ tnLeaving = FALSE

\* Typing leaves what the last check said.
TunnelType ==
  /\ BillMove
  /\ tnInput' \in (SubNames \cup {"blank"}) \ {tnInput}
  /\ UNCHANGED <<tnAvail, tnChecking, tnChecks, tnSaving, tnSaves, tnLeaving>>

\* handleCheckAvailability
TunnelCheck ==
  /\ ~tnChecking /\ BillMove
  /\ IF tnInput = "blank" THEN tnAvail' = "no" /\ UNCHANGED <<tnChecking, tnChecks>>
     ELSE tnChecking' = TRUE /\ tnChecks' = tnChecks \cup {tnInput} /\ UNCHANGED tnAvail
  /\ UNCHANGED <<tnInput, tnSaving, tnSaves, tnLeaving>>

TunnelChecked(name) ==
  /\ name \in tnChecks
  /\ tnChecks' = tnChecks \ {name} /\ tnChecking' = FALSE
  /\ tnAvail' \in {"yes", "no", "unknown"}
  /\ UNCHANGED <<billMoves, tnInput, tnSaving, tnSaves, tnLeaving>>

\* Save is there when a name was found free, and saves the name that is typed now.
TunnelOffers ==
  {"plan", "manage"} \cup (IF tnChecking THEN {} ELSE {"check"})
    \cup (IF tnSaving \/ tnAvail # "yes" THEN {} ELSE {"save"})
    \cup (IF tnLeaving THEN {} ELSE {"checkout"})

TunnelSave ==
  /\ "save" \in TunnelOffers /\ tnInput # "blank" /\ BillMove
  /\ tnSaving' = TRUE /\ tnSaves' = tnSaves \cup {tnInput}
  /\ UNCHANGED <<tnInput, tnAvail, tnChecking, tnChecks, tnLeaving>>

TunnelSaved(name) ==
  /\ name \in tnSaves
  /\ tnSaves' = tnSaves \ {name} /\ tnSaving' = FALSE
  /\ tnAvail' \in {tnAvail, "yes"}
  /\ UNCHANGED <<billMoves, tnInput, tnChecking, tnChecks, tnLeaving>>

\* handleCheckout: the button stays disabled unless the checkout fails.
TunnelCheckout ==
  /\ "checkout" \in TunnelOffers /\ BillMove
  /\ tnLeaving' = TRUE
  /\ UNCHANGED <<tnInput, tnAvail, tnChecking, tnChecks, tnSaving, tnSaves>>

TunnelCheckoutFails ==
  /\ tnLeaving
  /\ tnLeaving' = FALSE
  /\ UNCHANGED <<billMoves, tnInput, tnAvail, tnChecking, tnChecks, tnSaving, tnSaves>>

TunnelNext ==
  \/ TunnelType \/ TunnelCheck \/ TunnelSave \/ TunnelCheckout \/ TunnelCheckoutFails
  \/ \E name \in SubNames : TunnelChecked(name) \/ TunnelSaved(name)

-----------------------------------------------------------------------------
(* The pairing code: loading hides the page, refreshing does not, and answers
   are shown as they come. *)

PairInit == pairLoading = TRUE /\ pairAsks = {[how |-> "reload", nr |-> 0]} /\ pairShown = 0

PairOffers == IF pairLoading THEN {} ELSE {"refresh", "reload"}

PairAsk(how) ==
  /\ how \in PairOffers /\ BillMove
  /\ pairAsks' = pairAsks \cup {[how |-> how, nr |-> billMoves']}
  /\ pairLoading' = (how = "reload")
  /\ UNCHANGED pairShown

PairAnswered(a) ==
  /\ a \in pairAsks
  /\ pairAsks' = pairAsks \ {a}
  /\ pairShown' \in {pairShown, a.nr}
  /\ pairLoading' = (pairLoading /\ a.how # "reload")
  /\ UNCHANGED billMoves

PairNext == \/ \E how \in {"refresh", "reload"} : PairAsk(how)
            \/ \E a \in pairAsks : PairAnswered(a)

-----------------------------------------------------------------------------
OnlyBill(A) == A /\ UNCHANGED <<priceVars, welcomeVars, tunnelVars, pairVars>>
OnlyPrice(A) == A /\ UNCHANGED <<billVars, welcomeVars, tunnelVars, pairVars>>
OnlyWelcome(A) == A /\ UNCHANGED <<billVars, priceVars, tunnelVars, pairVars>>
OnlyTunnel(A) == A /\ UNCHANGED <<billVars, priceVars, welcomeVars, pairVars>>
OnlyPair(A) == A /\ UNCHANGED <<billVars, priceVars, welcomeVars, tunnelVars>>

BillingInit ==
  /\ billMoves = 0
  /\ BillInit /\ PriceInit /\ WelcomeInit /\ TunnelInit /\ PairInit

BillingNext ==
  OnlyBill(BillNext) \/ OnlyPrice(PriceNext) \/ OnlyWelcome(WelcomeNext) \/ OnlyTunnel(TunnelNext)
    \/ OnlyPair(PairNext)

billingVars == <<billMoves, billVars, priceVars, welcomeVars, tunnelVars, pairVars>>

BillingSpec == BillingInit /\ [][BillingNext]_billingVars

BillTypes ==
  /\ setTab \in {"profile", "billing"} /\ billPlan \in Plans \cup {"none"} /\ billClaimed \in BOOLEAN
  /\ billLoads \in Nat /\ billLoading \in BOOLEAN /\ billError \in BOOLEAN
  /\ checkouts \in Nat /\ checkoutShown \in BOOLEAN /\ portal \in {"idle", "get", "post"}

SubTypes ==
  /\ subInput \in Typed /\ subFor \in Typed
  /\ subState \in {"idle", "invalid", "checking", "available", "taken"}
  /\ subId \in Nat /\ subDue \in 0..subId /\ subClaiming \in BOOLEAN /\ subChange \in BOOLEAN
  /\ \A a \in subAsks : a.id \in 1..subId /\ a.name \in SubNames
  /\ \A c \in subClaims : c.name \in Typed /\ c.mount \in 0..subMount

PriceTypes ==
  /\ prAuthed \in BOOLEAN /\ prAsked \in BOOLEAN /\ prLoading \in BOOLEAN
  /\ prPlan \in Plans \cup {"none"} /\ prAsks \in Nat /\ prBanner \in {"none", "upgraded", "canceled"}

WelcomeTypes ==
  /\ wlLoading \in BOOLEAN /\ wlTimedOut \in BOOLEAN /\ wlConfirmed \in BOOLEAN
  /\ wlFirst \in BOOLEAN /\ wlInterval \in BOOLEAN /\ wlPolls \in Nat
  /\ wlElapsed \in BOOLEAN /\ wlSafety \in {"none", "armed", "fired"} /\ wlGone \in BOOLEAN

TunnelTypes ==
  /\ tnInput \in SubNames \cup {"blank"} /\ tnAvail \in {"unknown", "yes", "no"}
  /\ tnChecking \in BOOLEAN /\ tnSaving \in BOOLEAN /\ tnLeaving \in BOOLEAN
  /\ tnChecks \subseteq SubNames /\ tnSaves \subseteq SubNames

PairTypes ==
  /\ pairLoading \in BOOLEAN /\ pairShown \in 0..MaxBillMoves
  /\ \A a \in pairAsks : a.how \in {"refresh", "reload"} /\ a.nr \in 0..MaxBillMoves

BillingTypeOK ==
  /\ billMoves \in 0..MaxBillMoves
  /\ BillTypes /\ SubTypes /\ PriceTypes /\ WelcomeTypes /\ TunnelTypes /\ PairTypes

\* A name that could be claimed is only said to be available, or taken, when
\* that is the answer about this name, however the checks of the names typed
\* before overtake each other; and while a claim runs the name stays as it is.
SubdomainOfName ==
  /\ BillingTypeOK
  /\ subState \in {"available", "taken"} /\ subInput \in SubNames => subFor = subInput
  /\ subClaiming => [name |-> subInput, mount |-> subMount] \in subClaims

\* What the page after a payment says, for as long as it is open.  Once a poll has
\* said the plan is paid it welcomes, polls no more, and no later answer or timeout
\* takes the welcome away; it gives up only when 30 s are over and no poll has said
\* so.  It goes on confirming with nobody to end it in two cases only: the first poll
\* is never answered, for neither timer is armed before that, or the safety timeout
\* came before the tick that would have given up.
WelcomeSettles ==
  ~wlGone => /\ wlConfirmed => WelcomeView = "welcome" /\ ~wlInterval
             /\ WelcomeView = "welcome" => wlConfirmed
             /\ WelcomeView = "timed out" => wlElapsed /\ ~wlConfirmed /\ ~wlInterval
             /\ WelcomeView = "confirming" => wlFirst \/ wlInterval \/ wlSafety = "fired"
=============================================================================
