--------------------------- MODULE MCClientPages ---------------------------
(***************************************************************************)
(* Instances of the web client's pages and of the desktop's main process   *)
(* for TLC.  They share no state, so a behaviour runs one of them, chosen  *)
(* at the start, and leaves the others where they begin: their state       *)
(* spaces add up.                                                          *)
(***************************************************************************)
EXTENDS ChatPage, ChatComposer, MessageItem, ChatPanels, WebSession, WebBilling, WebSettings,
        DesktopShell, TLC

CONSTANTS t1, t2, g, c1, c2, d1, i1, i2

VARIABLE page

Pages == {"chat", "composer", "message", "new channel", "description", "new conversation", "members",
          "search", "session", "billing", "pricing", "welcome", "tunnel", "pairing", "account",
          "agent", "keys", "webhooks", "integrations", "desktop"}

\* A page that is not run has one initial state.
Init ==
  /\ page \in Pages
  /\ PgInit
  /\ page # "chat" => srvChannels = {} /\ srvDMs = {} /\ ~pgFirst
  /\ CmpInit
  /\ page # "composer" => cmpMatches = 0
  /\ ItmInit
  /\ page # "message" => ~itmOwn /\ ~itmGrouped
  /\ PnlInit
  /\ SessInit
  /\ page # "session" => stInstance = SessNone
  /\ BillingInit
  /\ page # "billing" => setTab = "profile"
  /\ page # "pricing" => ~prAuthed /\ prBanner = "none"
  /\ SettingsInit
  /\ page # "integrations" => inStored = {}
  /\ ShellInit
  /\ page # "desktop" => shMac

accountVars == <<sessVars, billingVars, settingsVars>>
chatVars == <<pgVars, cmpVars, itmVars, pnlVars>>

On(p, A) == page = p /\ A /\ UNCHANGED page

Next ==
  \/ /\ \/ On("chat", PgNext) /\ UNCHANGED <<cmpVars, itmVars, pnlVars>>
        \/ On("composer", CmpNext) /\ UNCHANGED <<pgVars, itmVars, pnlVars>>
        \/ On("message", ItmNext) /\ UNCHANGED <<pgVars, cmpVars, pnlVars>>
        \/ /\ \/ On("new channel", NewNext) \/ On("description", DescNext)
              \/ On("new conversation", DmNext) \/ On("members", MemNext) \/ On("search", FindNext)
           /\ UNCHANGED <<pgVars, cmpVars, itmVars>>
     /\ UNCHANGED <<accountVars, shellVars>>
  \/ /\ \/ On("session", SessNext) /\ UNCHANGED <<billingVars, settingsVars>>
        \/ /\ \/ On("billing", OnlyBill(BillNext)) \/ On("pricing", OnlyPrice(PriceNext))
              \/ On("welcome", OnlyWelcome(WelcomeNext)) \/ On("tunnel", OnlyTunnel(TunnelNext))
              \/ On("pairing", OnlyPair(PairNext))
           /\ UNCHANGED <<sessVars, settingsVars>>
        \/ /\ \/ On("account", OnlyAcc(AccNext)) \/ On("agent", OnlyAg(AgNext))
              \/ On("keys", OnlyKey(KeyNext)) \/ On("webhooks", OnlyHk(HkNext))
              \/ On("integrations", OnlyIn(InNext))
           /\ UNCHANGED <<sessVars, billingVars>>
     /\ UNCHANGED <<chatVars, shellVars>>
  \/ On("desktop", ShellNext) /\ UNCHANGED <<chatVars, accountVars>>

vars == <<page, chatVars, accountVars, shellVars>>

Spec == Init /\ [][Next]_vars

\* The two tabs are interchangeable.
PageSymmetry == Permutations({t1, t2})
=============================================================================
