---------------------------- MODULE GSManagerOps ----------------------------
(***************************************************************************)
(* The GSManager object of light-locker (gs-manager.c): the lock windows,  *)
(* the lock timer and the timed switch to the greeter.                     *)
(*                                                                         *)
(* Every public function of the object is an operator from a manager       *)
(* record to the manager record it leaves behind.  GSMonitor's callbacks   *)
(* call several of them in one main-loop iteration, so the modules that    *)
(* use this one apply them one after the other inside a single action.     *)
(*                                                                         *)
(* `windows' holds the monitor index of every lock window in               *)
(* manager->windows, `mapped' those whose map-event has been handled.      *)
(* The two timers are the source ids being non-zero.                       *)
(***************************************************************************)
EXTENDS Integers, FiniteSets

CONSTANTS
    MaxMonitors,        \* bound on the monitors GDK reports at one time
    LockAfterValues     \* values of lock-after-screensaver, in seconds

ASSUME ManagerAssumption ==
    /\ MaxMonitors \in Nat \ {0}
    /\ LockAfterValues \subseteq Nat

Monitors == 0 .. (MaxMonitors - 1)

\* The indices GDK gives to n monitors.
FirstMonitors(n) == 0 .. (n - 1)

Manager ==
    [ active : BOOLEAN,         \* the lock windows are up
      visible : BOOLEAN,        \* the session is the active one of its seat
      blank : BOOLEAN,          \* the X11 screen saver is on
      closed : BOOLEAN,         \* the lid is closed
      showContent : BOOLEAN,    \* "This session is locked" is drawn
      greeterTimer : BOOLEAN,   \* greeter_timeout_id # 0
      lockTimer : BOOLEAN,      \* lock_timeout_id # 0
      lockAfter : LockAfterValues,
      windows : SUBSET Monitors,
      mapped : SUBSET Monitors ]

\* gs_manager_init, and gs_manager_set_lock_after as gs_monitor_new calls it.
NewManager(lockAfter) ==
    [ active |-> FALSE, visible |-> TRUE, blank |-> FALSE, closed |-> FALSE,
      showContent |-> FALSE, greeterTimer |-> FALSE, lockTimer |-> FALSE,
      lockAfter |-> lockAfter, windows |-> {}, mapped |-> {} ]

-----------------------------------------------------------------------------
(***************************************************************************)
(* Timers.  Starting a running timer leaves it running.                    *)
(***************************************************************************)

TimedSwitch(m) == [m EXCEPT !.greeterTimer = TRUE]

StopSwitch(m) == [m EXCEPT !.greeterTimer = FALSE]

TimedLock(m) == IF m.lockAfter = 0 THEN m ELSE [m EXCEPT !.lockTimer = TRUE]

StopLock(m) == [m EXCEPT !.lockTimer = FALSE]

-----------------------------------------------------------------------------
(***************************************************************************)
(* Windows.                                                                *)
(***************************************************************************)

\* gs_manager_create_windows: one window for each of the n monitors.
CreateWindows(m, n) == [m EXCEPT !.windows = FirstMonitors(n)]

DestroyWindows(m) == [m EXCEPT !.windows = {}, !.mapped = {}]

\* The window removed is forgotten by the list, not by the map handler.
ResizedStale(m, n) == [m EXCEPT !.windows = FirstMonitors(n)]

\* on_screen_monitors_changed with n monitors: windows are appended for the
\* new ones, or those whose monitor is gone are destroyed.
Resized(m, n) ==
    LET k == Cardinality(m.windows)
    IN  [m EXCEPT !.windows = IF n > k THEN @ \cup (k .. (n - 1))
                                       ELSE @ \cap FirstMonitors(n),
                  !.mapped = @ \cap FirstMonitors(n)]

-----------------------------------------------------------------------------
(***************************************************************************)
(* gs_manager_set_active.  Its result is TRUE exactly when `active' flips. *)
(* `grabbed' is the outcome of gs_grab_grab_root, n the monitor count.     *)
(***************************************************************************)

\* The user can be sent to the greeter: locked, on the seat, screen lit.
Presentable(m) == m.active /\ m.visible /\ ~m.blank /\ ~m.closed

Activate(m, grabbed, n) ==
    IF m.active \/ ~grabbed THEN m
    ELSE LET w == IF m.windows = {} THEN CreateWindows(m, n) ELSE m
             a == [w EXCEPT !.active = TRUE]
         IN  StopLock(IF Presentable(a) THEN TimedSwitch(a) ELSE a)

\* Bug: `active' is reset first, and the lock timer is not restarted.
DeactivateForgetsBlank(m) ==
    IF ~m.active THEN m
    ELSE [StopSwitch(DestroyWindows(m)) EXCEPT
             !.active = FALSE, !.showContent = FALSE]

\* Bug: the timed switch survives the windows.
DeactivateKeepsSwitch(m) ==
    IF ~m.active THEN m
    ELSE LET d == DestroyWindows(m)
         IN  [(IF m.blank THEN TimedLock(d) ELSE d) EXCEPT
                 !.active = FALSE, !.showContent = FALSE]

Deactivate(m) ==
    IF ~m.active THEN m
    ELSE LET d == StopSwitch(DestroyWindows(m))
         IN  [(IF m.blank THEN TimedLock(d) ELSE d) EXCEPT
                 !.active = FALSE, !.showContent = FALSE]

ManagerSetActive(m, active, grabbed, n) ==
    IF active THEN Activate(m, grabbed, n) ELSE Deactivate(m)

-----------------------------------------------------------------------------
(***************************************************************************)
(* The setters GSMonitor drives from logind, X11, UPower and GSettings.    *)
(***************************************************************************)

\* Bug: leaving the seat does not stop the timed switch.
SetVisibleKeepsSwitch(m, visible) ==
    LET v == [m EXCEPT !.visible = visible]
    IN  IF Presentable(v) THEN TimedSwitch(v) ELSE v

ManagerSetSessionVisible(m, visible) ==
    LET v == [m EXCEPT !.visible = visible]
    IN  IF Presentable(v) THEN TimedSwitch(v) ELSE StopSwitch(v)

\* Bug: unblanking a locked session does not start the timed switch.
SetBlankOnly(m, blank) ==
    LET b == [m EXCEPT !.blank = blank]
    IN  IF ~m.active /\ blank THEN TimedLock(b) ELSE StopLock(b)

\* The timed switch is started when the screen goes blank too: the condition
\* at the source does not look at `blank'.
ManagerSetBlankScreen(m, blank) ==
    LET b == [m EXCEPT !.blank = blank]
        s == StopLock(b)
    IN  IF ~m.active /\ blank THEN TimedLock(b)
        ELSE IF m.active /\ m.visible /\ ~m.closed THEN TimedSwitch(s) ELSE s

\* Bug: closing the lid does not stop the timed switch.
SetClosedKeepsSwitch(m, closed) ==
    LET c == [m EXCEPT !.closed = closed]
    IN  IF Presentable(c) THEN TimedSwitch(c) ELSE c

ManagerSetLidClosed(m, closed) ==
    LET c == [m EXCEPT !.closed = closed]
    IN  IF Presentable(c) THEN TimedSwitch(c) ELSE StopSwitch(c)

ManagerSetLockAfter(m, lockAfter) == [m EXCEPT !.lockAfter = lockAfter]

ManagerShowContent(m) == [m EXCEPT !.showContent = TRUE]

-----------------------------------------------------------------------------
(***************************************************************************)
(* Main-loop sources of the object itself.  The signal each one emits is   *)
(* the caller's business: `activated', `switch-greeter' and `lock'.        *)
(***************************************************************************)

\* Off by one: monitors are counted from one.
WindowMappedNext(m, w) == [m EXCEPT !.mapped = @ \cup {w + 1}]

WindowMapped(m, w) == [m EXCEPT !.mapped = @ \cup {w}]

SwitchGreeterFired(m) == [m EXCEPT !.greeterTimer = FALSE]

LockFired(m) == [m EXCEPT !.lockTimer = FALSE]

-----------------------------------------------------------------------------
(***************************************************************************)
(* What the object guarantees between two calls.                           *)
(***************************************************************************)

LockTimerOK(m) == m.lockTimer => m.blank /\ ~m.active

GreeterTimerOK(m) == m.greeterTimer => m.active /\ m.visible /\ ~m.closed

\* n is the number of monitors GDK reports.
WindowsOK(m, n) ==
    /\ m.windows = IF m.active THEN FirstMonitors(n) ELSE {}
    /\ m.mapped \subseteq m.windows

ManagerInv(m, n) == LockTimerOK(m) /\ GreeterTimerOK(m) /\ WindowsOK(m, n)

=============================================================================
