---------------------------- MODULE DesktopShell ----------------------------
(***************************************************************************)
(* The main process of the desktop app (main.ts): its one window, what it  *)
(* sends to the renderer from menus, links and notifications, the calls    *)
(* the renderer makes through the preload script, and the queue that shows *)
(* native notifications a second apart.  Electron delivers the events of   *)
(* the system; which platform it is on is chosen at the start.             *)
(***************************************************************************)
EXTENDS Integers, Sequences

CONSTANTS MaxNotes,        \* notifications asked for
          MaxShellMoves    \* what the user and the system do

ASSUME ShellConstantsOK == MaxNotes \in Nat /\ MaxShellMoves \in Nat

VARIABLES
  shMac,          \* process.platform is darwin
  shApp,          \* "starting", "ready", "quit"
  shWindow,       \* mainWindow: "none", "loading", "shown", "maximized", "minimized"
  shFocused,
  shNotify, shDockBadge, shAtLogin,   \* APP_CONFIG: notifications.enabled, dock.badgeEnabled, launchAtLogin
  shBadge,
  shQueue, shProcessing,              \* notificationQueue, isProcessingNotifications
  shTimers,       \* timeouts of processNotificationQueue that are set
  shOnScreen,     \* notifications shown, in order, by number
  shAsked,        \* history: notifications that were let through, in order
  shNotes,        \* notifications asked for
  shSent,         \* history: kinds of message the renderer was sent
  shMoves

shWindowVars == <<shWindow, shFocused, shBadge>>
shConfigVars == <<shNotify, shDockBadge, shAtLogin>>
shNoteVars == <<shQueue, shProcessing, shTimers, shOnScreen, shAsked, shNotes>>
shellVars == <<shMac, shApp, shWindowVars, shConfigVars, shNoteVars, shSent, shMoves>>

ShellInit ==
  /\ shMac \in BOOLEAN /\ shApp = "starting"
  /\ shWindow = "none" /\ shFocused = FALSE /\ shBadge = 0
  /\ shNotify = TRUE /\ shDockBadge = TRUE /\ shAtLogin = FALSE
  /\ shQueue = <<>> /\ shProcessing = FALSE /\ shTimers = 0 /\ shOnScreen = <<>> /\ shAsked = <<>>
  /\ shNotes = 0 /\ shSent = {} /\ shMoves = 0

ShellMove == shApp # "quit" /\ shMoves < MaxShellMoves /\ shMoves' = shMoves + 1

HasWindow == shWindow # "none"

\* Focus clears the badge of the dock.
Focused ==
  /\ shFocused' = TRUE
  /\ shBadge' = IF shMac /\ shDockBadge THEN 0 ELSE shBadge

\* restore() if minimized, then focus().
RestoredAndFocused ==
  /\ shWindow' = IF shWindow = "minimized" THEN "shown" ELSE shWindow
  /\ IF shWindow = "loading" THEN UNCHANGED <<shFocused, shBadge>> ELSE Focused

Sends(kind) == shSent' = IF HasWindow THEN shSent \cup {kind} ELSE shSent

-----------------------------------------------------------------------------
(* The window *)

\* createWindow: hidden until it has something to show.
CreateWindow == shWindow' = "loading" /\ shFocused' = FALSE /\ UNCHANGED shBadge

\* whenReady
ShellReady ==
  /\ shApp = "starting" /\ shApp' = "ready"
  /\ CreateWindow
  /\ UNCHANGED <<shMac, shConfigVars, shNoteVars, shSent, shMoves>>

ReadyToShow ==
  /\ shWindow = "loading" /\ shWindow' = "shown"
  /\ Focused
  /\ UNCHANGED <<shMac, shApp, shConfigVars, shNoteVars, shSent, shMoves>>

\* The user, or another window, changes what has the focus.
WindowFocus ==
  /\ shWindow \in {"shown", "maximized"} /\ ShellMove
  /\ \/ ~shFocused /\ Focused
     \/ shFocused /\ shFocused' = FALSE /\ UNCHANGED shBadge
  /\ UNCHANGED <<shMac, shApp, shWindow, shConfigVars, shNoteVars, shSent>>

\* window-minimize and window-maximize, or the window's own buttons.
WindowSize ==
  /\ shWindow \in {"shown", "maximized"} /\ ShellMove
  /\ \/ shWindow' = "minimized" /\ shFocused' = FALSE
     \/ shWindow' = (IF shWindow = "maximized" THEN "shown" ELSE "maximized") /\ UNCHANGED shFocused
  /\ UNCHANGED <<shMac, shApp, shBadge, shConfigVars, shNoteVars, shSent>>

\* Closed; everywhere but on a Mac the app quits with its last window.
WindowClose ==
  /\ HasWindow /\ ShellMove
  /\ shWindow' = "none" /\ shFocused' = FALSE
  /\ shApp' = IF shMac THEN shApp ELSE "quit"
  /\ UNCHANGED <<shMac, shBadge, shConfigVars, shNoteVars, shSent>>

\* activate: the icon in the dock.
Activate ==
  /\ shMac /\ shApp = "ready" /\ ShellMove
  /\ IF ~HasWindow THEN CreateWindow
     ELSE /\ shWindow' = IF shWindow \in {"minimized", "loading"} THEN "shown" ELSE shWindow
          /\ Focused
  /\ UNCHANGED <<shMac, shApp, shConfigVars, shNoteVars, shSent>>

-----------------------------------------------------------------------------
(* Menus and links *)

\* The application menu, Mac only, sends without showing the window.
MenuAction ==
  /\ shMac /\ shApp = "ready" /\ ShellMove
  /\ Sends("menu-action")
  /\ UNCHANGED <<shMac, shApp, shWindowVars, shConfigVars, shNoteVars>>

\* app.quit(): called by the renderer, or from the menu of a Mac.
AppQuit ==
  /\ shApp = "ready" /\ (shMac \/ HasWindow)
  /\ ShellMove
  /\ shApp' = "quit" /\ shWindow' = "none" /\ shFocused' = FALSE
  /\ UNCHANGED <<shMac, shBadge, shConfigVars, shNoteVars, shSent>>

\* The menu of the dock shows the window first.
DockMenu ==
  /\ shMac /\ HasWindow /\ ShellMove
  /\ shWindow' = IF shWindow \in {"minimized", "loading"} THEN "shown" ELSE shWindow
  /\ Focused /\ Sends("menu-action")
  /\ UNCHANGED <<shMac, shApp, shConfigVars, shNoteVars>>

\* open-url on a Mac, also before the app is ready: without a window the link is dropped.
DeepLink ==
  /\ shMac /\ ShellMove
  /\ Sends("deep-link")
  /\ IF HasWindow THEN RestoredAndFocused ELSE UNCHANGED shWindowVars
  /\ UNCHANGED <<shMac, shApp, shConfigVars, shNoteVars>>

\* second-instance elsewhere, with or without a link.
SecondInstance ==
  /\ ~shMac /\ ShellMove
  /\ shSent' \in {shSent, IF HasWindow THEN shSent \cup {"deep-link"} ELSE shSent}
  /\ IF HasWindow THEN RestoredAndFocused ELSE UNCHANGED shWindowVars
  /\ UNCHANGED <<shMac, shApp, shConfigVars, shNoteVars>>

-----------------------------------------------------------------------------
(* What the renderer calls *)

\* app-config-set: sections that are given take the place of the old ones.
ConfigSet ==
  /\ HasWindow /\ ShellMove
  /\ \/ shNotify' = ~shNotify /\ UNCHANGED <<shDockBadge, shAtLogin>>
     \/ shDockBadge' = ~shDockBadge /\ UNCHANGED <<shNotify, shAtLogin>>
     \/ shAtLogin' = ~shAtLogin /\ UNCHANGED <<shNotify, shDockBadge>>
  /\ UNCHANGED <<shMac, shApp, shWindowVars, shNoteVars, shSent>>

\* dock-badge-set, dock-badge-clear
BadgeSet ==
  /\ HasWindow /\ shMac /\ ShellMove
  /\ \/ shDockBadge /\ shBadge' = 1
     \/ shBadge' = 0
  /\ UNCHANGED <<shMac, shApp, shWindow, shFocused, shConfigVars, shNoteVars, shSent>>

-----------------------------------------------------------------------------
(* Notifications *)

\* Mutant of ProcessQueue: an empty queue leaves the flag set.
ProcessQueueStuck(queue, timers) ==
  IF queue = <<>>
  THEN shQueue' = queue /\ shTimers' = timers /\ UNCHANGED <<shOnScreen, shProcessing>>
  ELSE /\ shProcessing' = TRUE /\ shTimers' = timers + 1
       /\ shQueue' = Tail(queue) /\ shOnScreen' = Append(shOnScreen, Head(queue))

\* processNotificationQueue, with these timeouts set already.
ProcessQueue(queue, timers) ==
  IF queue = <<>>
  THEN shQueue' = queue /\ shTimers' = timers /\ shProcessing' = FALSE /\ UNCHANGED shOnScreen
  ELSE /\ shProcessing' = TRUE /\ shTimers' = timers + 1
       /\ shQueue' = Tail(queue) /\ shOnScreen' = Append(shOnScreen, Head(queue))

\* showNotification, for the renderer or the updater: neither when switched off
\* nor while the window has the focus.
ShowNotification ==
  /\ shApp = "ready" /\ shNotes < MaxNotes
  /\ shNotes' = shNotes + 1
  /\ IF ~shNotify \/ (HasWindow /\ shFocused)
     THEN UNCHANGED <<shQueue, shProcessing, shTimers, shOnScreen, shAsked>>
     ELSE /\ shAsked' = Append(shAsked, shNotes')
          /\ IF shProcessing
             THEN shQueue' = Append(shQueue, shNotes') /\ UNCHANGED <<shProcessing, shTimers, shOnScreen>>
             ELSE ProcessQueue(Append(shQueue, shNotes'), shTimers)
  /\ UNCHANGED <<shMac, shApp, shWindowVars, shConfigVars, shSent, shMoves>>

\* A second after the last one.
NotifyTimer ==
  /\ shApp # "quit" /\ shTimers > 0
  /\ ProcessQueue(shQueue, shTimers - 1)
  /\ UNCHANGED <<shMac, shApp, shWindowVars, shConfigVars, shAsked, shNotes, shSent, shMoves>>

\* A click shows the window there is by now and names the channel.
NotifyClick ==
  /\ shOnScreen # <<>> /\ HasWindow /\ ShellMove
  /\ shWindow' = IF shWindow \in {"minimized", "loading"} THEN "shown" ELSE shWindow
  /\ Focused /\ Sends("navigate-to-channel")
  /\ UNCHANGED <<shMac, shApp, shConfigVars, shNoteVars>>

-----------------------------------------------------------------------------
ShellNext ==
  \/ ShellReady \/ ReadyToShow \/ WindowFocus \/ WindowSize \/ WindowClose \/ Activate
  \/ MenuAction \/ AppQuit \/ DockMenu \/ DeepLink \/ SecondInstance
  \/ ConfigSet \/ BadgeSet
  \/ ShowNotification \/ NotifyTimer \/ NotifyClick

ShellSpec == ShellInit /\ [][ShellNext]_shellVars

ShellTypeOK ==
  /\ shMac \in BOOLEAN /\ shApp \in {"starting", "ready", "quit"}
  /\ shWindow \in {"none", "loading", "shown", "maximized", "minimized"} /\ shFocused \in BOOLEAN
  /\ shNotify \in BOOLEAN /\ shDockBadge \in BOOLEAN /\ shAtLogin \in BOOLEAN /\ shBadge \in {0, 1}
  /\ shQueue \in Seq(Nat) /\ shOnScreen \in Seq(Nat) /\ shAsked \in Seq(Nat)
  /\ shProcessing \in BOOLEAN /\ shTimers \in Nat
  /\ shNotes \in Nat /\ shMoves \in Nat
  /\ shSent \subseteq {"menu-action", "deep-link", "navigate-to-channel"}

\* Every notification that is let through is shown, once and in order, a second
\* apart, whatever happens to the window, the settings and the focus meanwhile:
\* what is on the screen and in the queue is what was asked for, and there is
\* one timeout as long as the flag is set, and a flag as long as something waits.
NotifyInv ==
  /\ ShellTypeOK
  /\ shAsked = shOnScreen \o shQueue
  /\ shTimers = (IF shProcessing THEN 1 ELSE 0)
  /\ shQueue # <<>> => shProcessing
=============================================================================
