------------------------------ MODULE GSManager ------------------------------
(***************************************************************************)
(* The GSManager object under a most general caller: any public function   *)
(* may be called between two iterations of the main loop, monitors come    *)
(* and go, the lock windows are mapped in any order, and the two timers    *)
(* fire whenever they run.  gs_grab_grab_root succeeds or fails freely.    *)
(*                                                                         *)
(* What holds here holds whatever GSMonitor does with the object;          *)
(* LightLocker puts the real caller in its place.                          *)
(***************************************************************************)
EXTENDS GSManagerOps

VARIABLES
    manager,    \* the GSManager object
    monitors    \* the number of monitors GDK reports

vars == <<manager, monitors>>

Init ==
    /\ manager \in {NewManager(a) : a \in LockAfterValues}
    /\ monitors \in 1 .. MaxMonitors

-----------------------------------------------------------------------------

SetActive(active, grabbed) ==
    /\ manager' = ManagerSetActive(manager, active, grabbed, monitors)
    /\ UNCHANGED monitors

SetSessionVisible(visible) ==
    /\ manager' = ManagerSetSessionVisible(manager, visible)
    /\ UNCHANGED monitors

SetBlankScreen(blank) ==
    /\ manager' = ManagerSetBlankScreen(manager, blank)
    /\ UNCHANGED monitors

SetLidClosed(closed) ==
    /\ manager' = ManagerSetLidClosed(manager, closed)
    /\ UNCHANGED monitors

SetLockAfter(lockAfter) ==
    /\ manager' = ManagerSetLockAfter(manager, lockAfter)
    /\ UNCHANGED monitors

ShowContent ==
    /\ manager' = ManagerShowContent(manager)
    /\ UNCHANGED monitors

\* window_map_event_cb: GTK maps each window once after it was shown.
MapEvent(w) ==
    /\ w \in manager.windows \ manager.mapped
    /\ manager' = WindowMapped(manager, w)
    /\ UNCHANGED monitors

\* on_screen_monitors_changed is connected while there are windows.
MonitorsChanged(n) ==
    /\ n # monitors
    /\ monitors' = n
    /\ manager' = IF manager.windows = {} THEN manager ELSE Resized(manager, n)

SwitchGreeterTimeout ==
    /\ manager.greeterTimer
    /\ manager' = SwitchGreeterFired(manager)
    /\ UNCHANGED monitors

LockTimeout ==
    /\ manager.lockTimer
    /\ manager' = LockFired(manager)
    /\ UNCHANGED monitors

Next ==
    \/ \E active, grabbed \in BOOLEAN : SetActive(active, grabbed)
    \/ \E visible \in BOOLEAN : SetSessionVisible(visible)
    \/ \E blank \in BOOLEAN : SetBlankScreen(blank)
    \/ \E closed \in BOOLEAN : SetLidClosed(closed)
    \/ \E lockAfter \in LockAfterValues : SetLockAfter(lockAfter)
    \/ ShowContent
    \/ \E w \in Monitors : MapEvent(w)
    \/ \E n \in 1 .. MaxMonitors : MonitorsChanged(n)
    \/ SwitchGreeterTimeout
    \/ LockTimeout

Spec == Init /\ [][Next]_vars

-----------------------------------------------------------------------------
(***************************************************************************)
(* Properties.                                                             *)
(***************************************************************************)

\* The record stays well formed: monitor indices are in range.
TypeOK ==
    /\ manager \in Manager
    /\ monitors \in 1 .. MaxMonitors

\* The lock timer runs only while the screen is blank and the session is not
\* locked: whichever of unblanking and locking comes first stops it, so LOCK
\* is never emitted for a user who came back in time (gs-manager.c:390-419).
\* The timed switch runs only while the session is locked, on the seat, and
\* the lid is open, in whatever order those three are gained and lost: an
\* expired timer cannot switch the VT under another user (gs-manager.c:352).
TimersJustified == LockTimerOK(manager) /\ GreeterTimerOK(manager)

\* While locked, every monitor GDK reports has its own lock window, whatever
\* was plugged or unplugged since; while unlocked there are no windows, so
\* the next activation rebuilds them all (gs-manager.c:253-338, 524-526).
EveryMonitorCovered == WindowsOK(manager, monitors)

\* Whichever of the four conditions comes last, on the way to a lock screen
\* somebody looks at, the switch to the greeter is scheduled: nobody is left
\* in front of the lock windows (gs-manager.c:532, 666, 693, 714).
RedirectArmed ==
    [][~Presentable(manager) /\ Presentable(manager)' => manager'.greeterTimer]_vars

BlankUnlocked(m) == m.blank /\ ~m.active

\* A blank and unlocked session is on its way to be locked, whether the
\* screen went blank or an unlock arrived behind the screen saver
\* (gs-manager.c:558, 689).
LockArmed ==
    [][ ~BlankUnlocked(manager) /\ BlankUnlocked(manager)'
        => (manager'.lockTimer <=> manager'.lockAfter # 0) ]_vars

\* What lock-after-screensaver = 0 is documented to mean ("locking after the
\* screensaver is disabled"): the lock timer does not fire then.
ZeroDisablesLock == [][LockTimeout => manager.lockAfter # 0]_vars

=============================================================================
