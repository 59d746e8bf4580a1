----------------------------- MODULE LightLocker -----------------------------
(***************************************************************************)
(* The running light-locker: GSMonitor (gs-monitor.c) between the D-Bus    *)
(* listener (gs-listener-dbus.c), the X11 listener (gs-listener-x11.c),    *)
(* the settings and the manager (GSManagerOps), with the world they talk   *)
(* to: the lid, the seat, logind's delay locks, LightDM.                   *)
(*                                                                         *)
(* light-locker has one thread.  A handler runs to completion, and every   *)
(* call it makes into another object is part of the same action, so an     *)
(* action here is one dispatched message, event, timeout or notification.  *)
(* What interleaves is the order of dispatch: a property can change again  *)
(* before its PropertiesChanged is handled, a timer can fire between a     *)
(* request and its consequence, a window is mapped later than it is shown. *)
(***************************************************************************)
EXTENDS GSManagerOps

CONSTANTS
    Settings,       \* the settings a run starts with
    Mutable,        \* the names of the settings a user changes at run time
    Starts,         \* how light-locker may find the lid and the seat
    HasLid,         \* UPower reports a lid
    InhibitFails,   \* logind may refuse a delay lock
    QueriesFail,    \* logind or UPower may not answer a query
    MaxOneShots,    \* bound on the untracked 1 s timers of each kind
    MaxNotices,     \* bound on the PropertiesChanged in flight of each kind
    MaxFds          \* bound on the delay locks open at one time

SettingRecords ==
    [ lateLocking : BOOLEAN, lockOnSuspend : BOOLEAN, lockOnLid : BOOLEAN,
      idleHint : BOOLEAN, lockAfter : LockAfterValues ]

ASSUME LightLockerAssumption ==
    /\ Settings \subseteq SettingRecords
    /\ Starts \subseteq [lid : BOOLEAN, seat : BOOLEAN]
    /\ HasLid \in BOOLEAN
    /\ InhibitFails \in BOOLEAN
    /\ QueriesFail \in BOOLEAN
    /\ MaxOneShots \in Nat \ {0}
    /\ MaxNotices \in Nat \ {0}
    /\ MaxFds \in Nat \ {0}

VARIABLES
    manager,    \* the GSManager object
    monitor,    \* the GSMonitor object and its untracked timers
    listener,   \* the GSListener object
    x11,        \* GSListenerX11's `active': the screen saver was last seen on
    world,      \* what logind, UPower and GDK know
    request     \* what this step asked LightDM for, or "none"

vars == <<manager, monitor, listener, x11, world, request>>

Requests == {"none", "Lock", "SwitchToGreeter"}

Monitor ==
    [ lateLocking : BOOLEAN, lockOnSuspend : BOOLEAN, lockOnLid : BOOLEAN,
      idleHint : BOOLEAN,
      performLock : BOOLEAN,        \* a lock waits for the lid or the screen
      lockTimers : 0 .. MaxOneShots,    \* pending gs_monitor_lock_session
      switchTimers : 0 .. MaxOneShots ] \* pending gs_monitor_switch_greeter

Listener ==
    [ active : BOOLEAN, lidClosed : BOOLEAN, blanked : BOOLEAN,
      holdsFd : BOOLEAN ]           \* delay_fd >= 0

World ==
    [ lid : BOOLEAN,                \* the lid is closed
      lidNotices : 0 .. MaxNotices, \* LidIsClosed changes not yet handled
      seat : BOOLEAN,               \* the session is active on its seat
      seatNotices : 0 .. MaxNotices,
      openFds : 0 .. MaxFds,        \* delay locks logind counts as taken
      idle : BOOLEAN,               \* the session's IdleHint
      monitors : 1 .. MaxMonitors,
      asked : BOOLEAN ] \* LightDM was asked since the last unlock or seat move

\* The replies logind can give to Inhibit.
InhibitReplies == IF InhibitFails THEN BOOLEAN ELSE {TRUE}

\* gs_monitor_new and gs_listener_init.  Nobody asks how the lid and the seat
\* are: light-locker takes them for open and its own until a notice comes.
Init ==
    \E s \in Settings, at \in Starts, n \in 1 .. MaxMonitors, taken \in InhibitReplies :
        /\ manager = NewManager(s.lockAfter)
        /\ monitor = [ lateLocking |-> s.lateLocking,
                       lockOnSuspend |-> s.lockOnSuspend,
                       lockOnLid |-> s.lockOnLid, idleHint |-> s.idleHint,
                       performLock |-> FALSE,
                       lockTimers |-> 0, switchTimers |-> 0 ]
        /\ listener = [ active |-> FALSE, lidClosed |-> FALSE, blanked |-> FALSE,
                        holdsFd |-> s.lockOnSuspend /\ taken ]
        /\ x11 = FALSE
        /\ world = [ lid |-> at.lid, lidNotices |-> 0,
                     seat |-> at.seat, seatNotices |-> 0,
                     openFds |-> IF s.lockOnSuspend /\ taken THEN 1 ELSE 0,
                     idle |-> FALSE, monitors |-> n, asked |-> FALSE ]
        /\ request = "none"

-----------------------------------------------------------------------------
(***************************************************************************)
(* GSListener.                                                             *)
(***************************************************************************)

\* gs_monitor_lock_screen, down to gs_manager_set_active (TRUE).
LockScreen(m, grabbed) ==
    IF m.active \/ listener.active THEN m
    ELSE Activate(m, grabbed, world.monitors)

\* Bug: priv->active is never stored.
AcceptedNever(m) == listener.active

\* gs_listener_set_active stores the state the handler accepted: the manager
\* returns TRUE exactly when it changed its own.
Accepted(m) == IF m.active # manager.active THEN m.active ELSE listener.active

\* gs_listener_delay_suspend stores the descriptor of a new delay lock over
\* the one it may still hold, which stays open.
OpenFds(take) == world.openFds + (IF take THEN 1 ELSE 0)

\* On an unlock the next suspend must wait for light-locker again.
\* Bug: the delay lock is only taken once, at start.
TakesNoDelay(taken) == FALSE

TakesDelay(taken) == monitor.lockOnSuspend /\ taken

\* Bug: the descriptor is closed without looking whether there is one.
ResumedTwice == [world EXCEPT !.openFds = @ - 1]

\* gs_listener_resume_suspend closes the descriptor it remembers.
ResumedWorld == [world EXCEPT !.openFds = @ - (IF listener.holdsFd THEN 1 ELSE 0)]

\* sd_session_is_active reads logind's own record, which may be ahead of the
\* notice or behind it ("isn't up to date") while one is in flight.
SeatAnswers == {world.seat} \cup (IF world.seatNotices > 0 THEN BOOLEAN ELSE {})

\* query_session_active and query_lid_closed ask for the present value when a
\* notice is handled, whatever the notice said.  A query that fails reads FALSE.
Unanswered == IF QueriesFail THEN {FALSE} ELSE {}

SeatSeen == {world.seat} \cup Unanswered

LidSeen == {world.lid} \cup Unanswered

\* gs_listener_send_lock_session and gs_listener_send_switch_greeter.
Send(what) ==
    \E seated \in SeatAnswers :
        /\ request' = IF seated THEN what ELSE "none"
        /\ world' = [world EXCEPT !.asked = @ \/ seated]

\* gs_monitor_lock_session and gs_monitor_switch_greeter on manager m.
AskOrShow(m, what) ==
    \/ /\ m.visible
       /\ Send(what)
       /\ manager' = m
    \/ /\ ~m.visible
       /\ manager' = ManagerShowContent(m)
       /\ request' = "none"
       /\ UNCHANGED world

-----------------------------------------------------------------------------
(***************************************************************************)
(* Messages from the buses.                                                *)
(***************************************************************************)

\* Whether a lock must wait for the lid to open ("Don't switch VT while the
\* lid is closed").
\* Bug: the manager's copy is asked, which lags the listener's.
DefersToManager == manager.closed

Defers == listener.lidClosed

\* Lock on org.freedesktop.ScreenSaver or org.gnome.ScreenSaver:
\* listener_lock_cb.
SessionLock(grabbed) ==
    LET m == LockScreen(manager, grabbed) IN
    /\ listener' = [listener EXCEPT !.active = Accepted(m)]
    /\ \/ /\ Defers
          /\ monitor' = [monitor EXCEPT !.performLock = TRUE]
          /\ manager' = m
       \/ /\ ~Defers /\ m.visible
          /\ monitor.lockTimers < MaxOneShots
          /\ monitor' = [monitor EXCEPT !.lockTimers = @ + 1]
          /\ manager' = m
       \/ /\ ~Defers /\ ~m.visible
          /\ manager' = ManagerShowContent(m)
          /\ UNCHANGED monitor
    /\ request' = "none"
    /\ UNCHANGED <<x11, world>>

\* logind's Lock signal: listener_locked_cb.
LogindLock(grabbed) ==
    LET m == LockScreen(ManagerShowContent(manager), grabbed) IN
    /\ manager' = m
    /\ listener' = [listener EXCEPT !.active = Accepted(m)]
    /\ monitor' = [monitor EXCEPT !.performLock = FALSE]
    /\ request' = "none"
    /\ UNCHANGED <<x11, world>>

\* logind's Unlock signal: gs_listener_set_active (FALSE).  The delay lock is
\* taken before the windows go.
LogindUnlock(taken) ==
    /\ request' = "none"
    /\ UNCHANGED <<monitor, x11>>
    /\ IF ~listener.active
       THEN UNCHANGED <<manager, listener, world>>
       ELSE LET m == Deactivate(manager)
                take == TakesDelay(taken)
            IN  /\ manager' = m
                /\ listener' = [listener EXCEPT !.active = Accepted(m),
                                                !.holdsFd = @ \/ take]
                /\ OpenFds(take) <= MaxFds
                /\ world' = [world EXCEPT !.openFds = OpenFds(take),
                                          !.asked = FALSE]

\* Bug: the state sd_session_is_active reads is trusted.
SeatNoticeStale ==
    /\ world.seatNotices > 0
    /\ \E seated \in SeatAnswers : manager' = ManagerSetSessionVisible(manager, seated)
    /\ world' = [world EXCEPT !.seatNotices = @ - 1]
    /\ request' = "none"
    /\ UNCHANGED <<monitor, listener, x11>>

\* PropertiesChanged with ActiveSession, of this session or another one.
SeatNotice ==
    /\ world.seatNotices > 0
    /\ \E seated \in SeatSeen : manager' = ManagerSetSessionVisible(manager, seated)
    /\ world' = [world EXCEPT !.seatNotices = @ - 1]
    /\ request' = "none"
    /\ UNCHANGED <<monitor, listener, x11>>

\* PropertiesChanged with LidIsClosed: listener_lid_closed_cb with the answer
\* of the query.  A deferred lock returns early, before
\* gs_manager_set_lid_closed.
LidNotice(grabbed, closed) ==
    LET m == ManagerSetLidClosed(manager, closed) IN
    /\ closed \in LidSeen
    /\ world.lidNotices > 0
    /\ world' = [world EXCEPT !.lidNotices = @ - 1]
    /\ request' = "none"
    /\ UNCHANGED x11
    /\ \/ /\ monitor.performLock /\ ~closed
          /\ monitor.lockTimers < MaxOneShots
          /\ monitor' = [monitor EXCEPT !.lockTimers = @ + 1, !.performLock = FALSE]
          /\ listener' = [listener EXCEPT !.lidClosed = closed]
          /\ UNCHANGED manager
       \/ /\ ~(monitor.performLock /\ ~closed)
          /\ ~monitor.lockOnLid
          /\ manager' = m
          /\ listener' = [listener EXCEPT !.lidClosed = closed]
          /\ UNCHANGED monitor
       \/ /\ closed
          /\ monitor.lockOnLid
          /\ manager' = LockScreen(m, grabbed)
          /\ listener' = [listener EXCEPT
                             !.lidClosed = closed,
                             !.active = Accepted(LockScreen(m, grabbed))]
          /\ UNCHANGED monitor
       \/ /\ ~closed /\ ~monitor.performLock
          /\ monitor.lockOnLid
          /\ monitor.switchTimers < MaxOneShots
          /\ manager' = m
          /\ listener' = [listener EXCEPT !.lidClosed = closed]
          /\ monitor' = [monitor EXCEPT !.switchTimers = @ + 1]

\* Bug: the delay lock is let go before the lock windows are mapped.
SuspendLetsGo(grabbed) ==
    LET m == LockScreen(manager, grabbed) IN
    /\ monitor.lockOnSuspend
    /\ manager' = m
    /\ listener' = [listener EXCEPT !.active = Accepted(m), !.holdsFd = FALSE]
    /\ world' = ResumedWorld
    /\ request' = "none"
    /\ UNCHANGED <<monitor, x11>>

\* PrepareForSleep (TRUE): listener_suspend_cb.
Suspend(grabbed) ==
    LET m == LockScreen(manager, grabbed) IN
    /\ monitor.lockOnSuspend
    /\ manager' = m
    /\ listener' = [listener EXCEPT !.active = Accepted(m)]
    /\ request' = "none"
    /\ UNCHANGED <<monitor, x11, world>>

\* PrepareForSleep (FALSE): listener_resume_cb.
Resume ==
    /\ monitor.lockOnSuspend
    /\ \/ /\ Defers
          /\ monitor' = [monitor EXCEPT !.performLock = TRUE]
       \/ /\ ~Defers
          /\ monitor.switchTimers < MaxOneShots
          /\ monitor' = [monitor EXCEPT !.switchTimers = @ + 1]
    /\ request' = "none"
    /\ UNCHANGED <<manager, listener, x11, world>>

-----------------------------------------------------------------------------
(***************************************************************************)
(* Events and timers of the main loop.                                     *)
(***************************************************************************)

\* xroot_filter reports a ScreenSaverNotify unless it knows the state already.
Reported(active) == x11 # active

\* ScreenSaverNotify: listener_x11_blanking_changed_cb.
BlankingChanged(active) ==
    LET m == ManagerSetBlankScreen(manager, active)
        hinted == IF monitor.idleHint THEN active ELSE world.idle
        due == ~active /\ ~listener.lidClosed /\ monitor.performLock
    IN
    /\ Reported(active)
    /\ x11' = active
    /\ listener' = [listener EXCEPT !.blanked = active]
    /\ monitor' = [monitor EXCEPT !.performLock = @ /\ ~due]
    /\ \/ /\ due /\ m.visible
          /\ manager' = m
          /\ \E seated \in SeatAnswers :
                /\ request' = IF seated THEN "Lock" ELSE "none"
                /\ world' = [world EXCEPT !.idle = hinted, !.asked = @ \/ seated]
       \/ /\ ~(due /\ m.visible)
          /\ manager' = IF due THEN ManagerShowContent(m) ELSE m
          /\ request' = "none"
          /\ world' = [world EXCEPT !.idle = hinted]

\* Bug: the delay lock waits for the monitor with the highest number.
MapEventLast(w) ==
    /\ w \in manager.windows \ manager.mapped
    /\ manager' = WindowMapped(manager, w)
    /\ world' = IF w + 1 = MaxMonitors THEN ResumedWorld ELSE world
    /\ listener' = [listener EXCEPT !.holdsFd = @ /\ w + 1 # MaxMonitors]
    /\ request' = "none"
    /\ UNCHANGED <<monitor, x11>>

\* window_map_event_cb: `activated' releases the delay lock.
MapEvent(w) ==
    /\ w \in manager.windows \ manager.mapped
    /\ manager' = WindowMapped(manager, w)
    /\ world' = ResumedWorld
    /\ listener' = [listener EXCEPT !.holdsFd = FALSE]
    /\ request' = "none"
    /\ UNCHANGED <<monitor, x11>>

\* lock_timeout and manager_lock_cb.
LockTimeout(grabbed) ==
    LET m == LockScreen(LockFired(manager), grabbed) IN
    /\ manager.lockTimer
    /\ listener' = [listener EXCEPT !.active = Accepted(m)]
    /\ \/ /\ monitor.lateLocking
          /\ monitor' = [monitor EXCEPT !.performLock = TRUE]
          /\ manager' = m
       \/ /\ ~monitor.lateLocking /\ m.visible
          /\ monitor.lockTimers < MaxOneShots
          /\ monitor' = [monitor EXCEPT !.lockTimers = @ + 1]
          /\ manager' = m
       \/ /\ ~monitor.lateLocking /\ ~m.visible
          /\ manager' = ManagerShowContent(m)
          /\ UNCHANGED monitor
    /\ request' = "none"
    /\ UNCHANGED <<x11, world>>

\* switch_greeter_timeout and manager_switch_greeter_cb.
GreeterTimeout ==
    /\ manager.greeterTimer
    /\ manager' = SwitchGreeterFired(manager)
    /\ Send("SwitchToGreeter")
    /\ UNCHANGED <<monitor, listener, x11>>

\* The 1 s delays for the VT switch.  Nothing cancels them.
LockSessionTimeout ==
    /\ monitor.lockTimers > 0
    /\ monitor' = [monitor EXCEPT !.lockTimers = @ - 1]
    /\ AskOrShow(manager, "Lock")
    /\ UNCHANGED <<listener, x11>>

SwitchSessionTimeout ==
    /\ monitor.switchTimers > 0
    /\ monitor' = [monitor EXCEPT !.switchTimers = @ - 1]
    /\ AskOrShow(manager, "SwitchToGreeter")
    /\ UNCHANGED <<listener, x11>>

-----------------------------------------------------------------------------
(***************************************************************************)
(* Settings changed at run time: GSettings notifies a changed key only.    *)
(***************************************************************************)

\* conf_lock_on_suspend_cb
ConfLockOnSuspend(taken) ==
    LET on == ~monitor.lockOnSuspend
        take == on /\ taken
    IN
    /\ "lockOnSuspend" \in Mutable
    /\ monitor' = [monitor EXCEPT !.lockOnSuspend = on]
    /\ OpenFds(take) <= MaxFds
    /\ world' = IF on THEN [world EXCEPT !.openFds = OpenFds(take)] ELSE ResumedWorld
    /\ listener' = [listener EXCEPT !.holdsFd = on /\ (@ \/ take)]
    /\ request' = "none"
    /\ UNCHANGED <<manager, x11>>

\* conf_late_locking_cb
ConfLateLocking ==
    /\ "lateLocking" \in Mutable
    /\ monitor' = [monitor EXCEPT !.lateLocking = ~@]
    /\ request' = "none"
    /\ UNCHANGED <<manager, listener, x11, world>>

\* conf_lock_on_lid_cb
ConfLockOnLid ==
    /\ "lockOnLid" \in Mutable
    /\ monitor' = [monitor EXCEPT !.lockOnLid = ~@]
    /\ request' = "none"
    /\ UNCHANGED <<manager, listener, x11, world>>

\* conf_lock_after_screensaver_cb
ConfLockAfter(lockAfter) ==
    /\ "lockAfter" \in Mutable
    /\ lockAfter # manager.lockAfter
    /\ manager' = ManagerSetLockAfter(manager, lockAfter)
    /\ request' = "none"
    /\ UNCHANGED <<monitor, listener, x11, world>>

\* Bug: the screen is not looked at.
ConfIdleHintAlone ==
    /\ "idleHint" \in Mutable
    /\ monitor' = [monitor EXCEPT !.idleHint = ~@]
    /\ world' = [world EXCEPT !.idle = ~monitor.idleHint]
    /\ request' = "none"
    /\ UNCHANGED <<manager, listener, x11>>

\* conf_idle_hint_cb
ConfIdleHint ==
    /\ "idleHint" \in Mutable
    /\ monitor' = [monitor EXCEPT !.idleHint = ~@]
    /\ world' = [world EXCEPT !.idle = ~monitor.idleHint /\ manager.blank]
    /\ request' = "none"
    /\ UNCHANGED <<manager, listener, x11>>

-----------------------------------------------------------------------------
(***************************************************************************)
(* The world moves on its own.                                             *)
(***************************************************************************)

\* The lid is opened or closed; UPower sends a notice.
LidMoves ==
    /\ HasLid
    /\ world.lidNotices < MaxNotices
    /\ world' = [world EXCEPT !.lid = ~@, !.lidNotices = @ + 1]
    /\ request' = "none"
    /\ UNCHANGED <<manager, monitor, listener, x11>>

\* Another session comes to the seat, or this one comes back; logind sends a
\* notice.
SeatMoves ==
    /\ world.seatNotices < MaxNotices
    /\ world' = [world EXCEPT !.seat = ~@, !.seatNotices = @ + 1, !.asked = FALSE]
    /\ request' = "none"
    /\ UNCHANGED <<manager, monitor, listener, x11>>

\* GDK's monitors-changed, handled while there are windows.
MonitorsChanged(n) ==
    /\ n # world.monitors
    /\ world' = [world EXCEPT !.monitors = n]
    /\ manager' = IF manager.windows = {} THEN manager ELSE Resized(manager, n)
    /\ request' = "none"
    /\ UNCHANGED <<monitor, listener, x11>>

-----------------------------------------------------------------------------

Messages ==
    \/ \E grabbed \in BOOLEAN : SessionLock(grabbed) \/ LogindLock(grabbed)
    \/ \E grabbed, closed \in BOOLEAN : LidNotice(grabbed, closed)
    \/ SeatNotice

SleepMessages ==
    \/ \E grabbed \in BOOLEAN : Suspend(grabbed)
    \/ Resume

Bus ==
    \/ Messages
    \/ SleepMessages
    \/ \E taken \in InhibitReplies : LogindUnlock(taken)

\* What light-locker set going itself: windows that are shown, timers.
Scheduled ==
    \/ \E w \in Monitors : MapEvent(w)
    \/ \E grabbed \in BOOLEAN : LockTimeout(grabbed)
    \/ GreeterTimeout
    \/ LockSessionTimeout
    \/ SwitchSessionTimeout

MainLoop ==
    \/ \E active \in BOOLEAN : BlankingChanged(active)
    \/ Scheduled

Preferences ==
    \/ \E lockAfter \in LockAfterValues : ConfLockAfter(lockAfter)
    \/ ConfLateLocking
    \/ ConfLockOnLid
    \/ ConfIdleHint

Configure ==
    \/ \E taken \in InhibitReplies : ConfLockOnSuspend(taken)
    \/ Preferences

Environment ==
    \/ LidMoves
    \/ SeatMoves
    \/ \E n \in 1 .. MaxMonitors : MonitorsChanged(n)

Next == Bus \/ MainLoop \/ Configure \/ Environment

Spec == Init /\ [][Next]_vars

\* A glib timeout that stays installed fires, and a queued message or event
\* is dispatched.  Nothing is assumed of users, logind, UPower or LightDM.
Fairness ==
    /\ WF_vars(\E grabbed \in BOOLEAN : LockTimeout(grabbed))
    /\ WF_vars(GreeterTimeout)
    /\ WF_vars(LockSessionTimeout)
    /\ WF_vars(SwitchSessionTimeout)
    /\ WF_vars(\E w \in Monitors : MapEvent(w))
    /\ WF_vars(SeatNotice)
    /\ WF_vars(\E grabbed, closed \in BOOLEAN : LidNotice(grabbed, closed))

FairSpec == Spec /\ Fairness

-----------------------------------------------------------------------------
(***************************************************************************)
(* Properties.                                                             *)
(***************************************************************************)

\* Every variable keeps its type; the open delay locks are at least the one
\* the listener remembers, so no descriptor is closed twice.
TypeOK ==
    /\ manager \in Manager
    /\ monitor \in Monitor
    /\ listener \in Listener
    /\ x11 \in BOOLEAN
    /\ world \in World
    /\ request \in Requests
    /\ listener.holdsFd => world.openFds > 0

\* What GSManager guarantees any caller holds under this one, which calls it
\* several times in one handler (gs-manager.c).
ManagerOK == ManagerInv(manager, world.monitors)

\* The three copies of the screen saver's state and the two copies of the
\* lock's never part, whichever of the grab, the listener and the manager
\* refuses: else gs_listener_set_active would refuse the next Unlock as "already
\* inactive" (gs-listener-dbus.c:334) and the screen would stay covered.
CopiesAgree ==
    /\ listener.active = manager.active
    /\ x11 = manager.blank
    /\ x11 = listener.blanked

\* Once every notice in flight has been handled, light-locker sees the seat
\* and the lid as they are, however often they moved while the notices were
\* queued: the handlers ask for the present value (gs-listener-dbus.c:1337,
\* 1345).  It needs a start with the lid open and the session on the seat, and
\* queries that are answered.
SettledViewsAgree ==
    /\ world.seatNotices = 0 => manager.visible = world.seat
    /\ world.lidNotices = 0 => listener.lidClosed = world.lid

\* A lock that was put off is never forgotten: the screen is blank or the lid
\* is closed, and the event that ends that performs it (gs-monitor.c:133, 225,
\* 297, 358, 407).
DeferredLockHasTrigger == monitor.performLock => x11 \/ listener.lidClosed

\* LightDM is only asked by the session that is seen on the seat: a timer
\* that outlived a VT switch does not take the VT from another user
\* (gs-monitor.c:84, 102).
RequestOnlyWhenVisible == request # "none" => manager.visible

\* The 10 s timer to the greeter does not run behind a closed lid, although
\* the manager's idea of the lid lags the listener's (gs-monitor.c:358-370).
NoTimedSwitchUnderClosedLid == manager.greeterTimer => ~listener.lidClosed

\* With lock-on-suspend, an unlocked session holds a delay lock, so logind
\* waits for the lock screen: through unlocks, failed grabs and changes of the
\* setting (gs-monitor.c:155, 255, 555).  It needs a logind that grants them.
SuspendDelayedWhileUnlocked ==
    monitor.lockOnSuspend /\ ~manager.active => listener.holdsFd

\* Once a lock window is mapped, light-locker does not hold up a suspend any
\* more (gs-monitor.c:117).  Turning lock-on-suspend on while the session is
\* locked breaks this, so it is checked for a fixed setting.
SuspendFreeOnceMapped == manager.mapped # {} => ~listener.holdsFd

\* The delay lock is let go only behind a lock window that has just been
\* mapped, or because the user turned lock-on-suspend off: never by an unlock,
\* a failed grab or a lock screen that was only asked for.
ReleaseOnlyBehindLock ==
    [][ listener.holdsFd /\ ~listener'.holdsFd
        => \/ manager.active /\ manager.mapped # manager'.mapped
           \/ ~monitor'.lockOnSuspend ]_vars

\* logind's IdleHint says "idle" exactly while the setting is on and the
\* screen saver runs, whichever of the two changed last (gs-monitor.c:205, 402).
IdleHintTracksScreen == world.idle = (monitor.idleHint /\ x11)

\* A user looks at the lock windows and LightDM has not been asked since the last
\* unlock or seat move.
Stranded ==
    /\ manager.active /\ ~world.asked
    /\ world.seat /\ world.seatNotices = 0
    /\ ~world.lid /\ world.lidNotices = 0
    /\ ~x11

\* The message on the lock windows: "You'll be redirected to the unlock dialog
\* automatically in a few seconds" (gs-content.c:114).  A user who looks at the
\* lock windows of the seat's session is not left there.
Redirected == Stranded ~> ~Stranded

\* Somebody looks at the lock windows, as far as the manager knows, and the
\* notices that may correct it have been handled.
Attended == Presentable(manager) /\ world.seat /\ world.seatNotices = 0

Stage ==
    CASE ~manager.active -> "unlocked"
      [] manager.active /\ ~Attended -> "unattended"
      [] Attended /\ world.asked -> "asked"
      [] Attended /\ ~world.asked /\ manager.greeterTimer -> "waiting"
      [] OTHER -> "stranded"

Promise == INSTANCE ScreenLock WITH
    Configurable <- "lockOnSuspend" \in Mutable,
    stage <- Stage, covered <- manager.mapped # {}, delays <- listener.holdsFd

\* With lid, seat, settings and timers hidden, light-locker keeps the promises
\* of ScreenLock: whatever comes in which order, no step leaves an attended
\* lock screen without a switch to the greeter under way or gives up the delay
\* lock for anything but a window on the screen (gs-monitor.c:113-118, 249,
\* gs-manager.c:532, 558, 666, 693, 714).
KeepsPromise == Promise!Spec

\* A user who is stranded, if only for a moment, has a timer to wait for: the
\* liveness of Redirected rests on that timer alone.  It needs a machine
\* without a lid, whose early return (gs-monitor.c:368) leaves `closed' behind,
\* and queries that are answered.
StrandedIsTimed == Stranded => manager.greeterTimer

\* "Don't switch VT while the lid is closed" (gs-monitor.c:224, 296).
NoRequestUnderClosedLid == request # "none" => ~listener.lidClosed

=============================================================================
