# A formal model of light-locker

light-locker locks an X session without drawing a lock dialog of its own: it
covers the monitors with lock windows, asks LightDM to lock the session or to
switch to the greeter, and uncovers them when logind says `Unlock`. The program
has one thread and a few hundred lines of decisions. What is hard about them is
*order*: the lid, the screen saver, the seat, suspend, the session bus and four
kinds of timers all act on the same few flags, which are copied between objects.

This directory holds TLA+ modules translated from the C source, the TLC
configurations that check them on small instances, and TLAPS proofs of the
safety properties for every value of the constants. Paths below are relative to
the repository; `gs-*.c` are in its `src/`.

## Inventory

| Component | State | Operations | Correct when |
|---|---|---|---|
| **GSManager** `gs-manager.c` | `active`, `visible`, `blank`, `closed`, `show_content`, `lock_after`, two timeout ids, the list of windows | `set_active`, `set_session_visible`, `set_blank_screen`, `set_lid_closed`, `set_lock_after`, `show_content`; callbacks for map events, changed monitors, two timeouts | timers run exactly when they may; every monitor is covered while locked; whoever looks at the lock windows will be redirected |
| **GSMonitor** `gs-monitor.c` | five settings, `perform_lock`, untracked 1 s timeouts | one callback per signal of the listeners, the manager and the settings | a lock that was put off is not lost; no VT switch on behalf of a session nobody sees or under a closed lid; the delay lock is held while unlocked and given up behind the lock windows |
| **GSListener** `gs-listener-dbus.c` | `active`, `lid_closed`, `blanked`, `delay_fd`, session and seat paths, two connections, `inhibit_list` and its counter | D-Bus methods of three interfaces, signals of logind and UPower, requests to LightDM and logind | its copies agree with the manager's and with the world's; inhibitions live as long as their client; one screen saver serves a session; a lost bus is connected again |
| **GSListenerX11** `gs-listener-x11.c` | `active` | the X event filter, force the screen saver, reset it, suspend it | each change of the screen saver is reported once |
| **GSGrab** `gs-grab-x11.c` | its record of the windows that hold keyboard and pointer | grab with retries, move, release; broken grabs and destroyed windows | both devices or none; the record agrees with the display; locking answers |
| **GSWindow** `gs-window-x11.c` | screen, monitor, geometry, a queued resize | create, show, resize, destroy | the windows leave no gap on a locked screen, whatever the layout |
| **LLConfig** `ll-config.c` | the settings | properties bound to GSettings | a changed key is notified |
| **main** `light-locker.c` | – | option parsing, start-up | a second light-locker does not run |
| **light-locker-command** | `do_inhibit`, `uninhibit_cookie`, `do_uninhibit`, the child | one D-Bus call per option; `-i` waits, alone or with a command | it inhibits while it waits, and no longer |
| **gs-content**, **gs-debug**, `preview.c`, `test-window.c` | – | a fixed text, logging, development tools | not modelled |

How they interact: GSMonitor owns the other objects and connects to their
signals. A message of a bus, an X event, a timeout or a settings notification is
dispatched by the GLib main loop; its handler calls into the other objects
synchronously and runs to completion. `Unlock`, for instance, is
`gs_listener_set_active (FALSE)` → signal `active-changed` →
`listener_active_changed_cb` → `gs_listener_delay_suspend` (a blocking call to
logind) → `gs_manager_set_active (FALSE)` → the return value decides whether the
listener stores its new state.

Hard behaviours: properties that change again before their notice is handled
(and are then queried, so that the notice's own content is not used); the
one-shot timers that outlive their reason; handlers that return early; a grab
that fails between a lock and its consequences; windows that are mapped later
than shown; monitors that come and go; settings that change in between; logind
or UPower that do not answer; a bus that is lost; clients that leave. The list,
line by line, is `hazards` in `PROJECT.json`.

## Modules

| Module | Stands for |
|---|---|
| `GSManagerOps` | GSManager as operators from a record to a record: one per public function, the timers, the windows, and `ManagerInv`, what the object guarantees |
| `GSManager` | the object under a most general caller: any function at any time; a lock succeeds or fails in one step |
| `GSWindow` | `GSManager` with the layout of the monitors and the area each window covers |
| `GSGrab` | `GSManager`'s locking taken apart into the tries of `gs-grab-x11.c`, against other X clients |
| `LightLocker` | the program: GSMonitor's callbacks between the listener's state, the manager (the same operators) and the world |
| `ScreenLock` | the abstract specification: what light-locker promises to the user in front of it, to logind and to the owner of the session, without flags and timers |
| `Sleep` | `LightLocker` under logind's protocol for suspending: announcement, delay locks, time-out |
| `ScreenSaver` | `Sleep` with the X server's screen saver, its event queue and the session-bus calls that switch it |
| `Inhibitors` | Inhibit/UnInhibit: the list, the cookie counter, the clients and the X server's suspension count |
| `LightLockerCommand` | `Inhibitors` with some clients being `light-locker-command` processes |
| `Buses` | the names on the session bus, for which several light-lockers and other screen savers race, the loss of either bus and the attempts to reconnect |
| `MC...` | values for TLC, one module for each specification that is run |
| `GSManagerOpsProofs` | lemmas about the operators: types, and `ManagerInv` kept by each |
| `GSManagerProofs`, `GSWindowProofs`, `GSGrabProofs`, `LightLockerProofs`, `SleepProofs`, `InhibitorsProofs`, `BusesProofs` | the theorems about the module of that name; `SleepProofs` also has those of `ScreenSaver`, `InhibitorsProofs` those of `LightLockerCommand` |

`LightLocker` starts after a successful `gs_listener_acquire` and its buses stay
up; `Buses` is what comes before and beside that. `Inhibitors` takes the place of
the session bus while it is up. These three share no variables. The others are
layers:

    GSWindow ────────► GSManager ◄──── GSGrab        (arrows: implements)
                          ╎ same operators
    ScreenSaver ► Sleep ► LightLocker ► ScreenLock

    LightLockerCommand ► Inhibitors                  Buses

`LightLocker` is not shown to implement `GSManager` step by step: one of its
handlers makes several calls of the manager (an unlock that is a repetition, a
lock with its `show_content`), which is one step there and several here. It uses
the manager's operators instead, and `ManagerIsOK` proves that the object's
guarantees hold under this caller.

Operators named `...Short`, `...Stale`, `DefersToManager`, ... with a comment
starting "Bug:" or "Off by one:" are not part of any specification. Each is the form a
plausible mistake would give to the definition after it, and is what the
mutation check substitutes to see that a property notices.

### State and code

`GSManagerOps`: the fields of `Manager` are those of `struct _GSManager`
(`gs-manager.c:35-55`). The two timeout ids are booleans, `windows` is a set of
monitor indices, and `mapped` holds the windows whose map event has been
handled, which the code does not store but its `activated` signal depends on.
Functions call one another as in the code: `Deactivate` destroys the windows,
stops the switch and restarts the lock timer in the source's order.

`GSWindow`: a rectangle is what `gdk_screen_get_monitor_geometry` reports, a
region its set of pixels. `Geometry` is `update_geometry`: a window covers the
bounding box of what monitors with a lower number leave of its own. New windows
compute it when they are shown; windows that stay are told to resize
(`gs-manager.c:298-306`) and do it in idle callbacks of their own (`Resize`),
between which everything else may happen.

`GSGrab`: `call` is the program counter inside `gs_manager_activate` or
`gs_grab_move_to_window`, which block the main loop; handlers need `call.at =
"loop"`, while the rivals act at any time. `grabs.server` is what the X server
knows, `grabs.record` GSGrab's two `..._grab_window` pointers, `grabs.broken` the
queued `grab-broken-event`s. `TryKeyboard` and `TryPointer` are one turn of the
two loops of `gs_grab_grab_window`, with the one removal of the focus between
two rounds of tries for the keyboard; `Return` is its end, which gives back what
was got if the other device was not, and the rest of `gs_manager_activate`.
`Move` is the sequence under `XGrabServer`, during which no other client runs.

`LightLocker`: `manager` is that record; `monitor` is `struct _GSMonitor` with a
count for each kind of untracked `g_timeout_add (1000, ...)`; `listener` holds
the private fields that take part (`holdsFd` is `delay_fd >= 0`); `x11` is
GSListenerX11's `active`. `world` is what the other processes know: lid and seat
with the number of notices in flight, the delay locks logind counts, the idle
hint, the monitors, and whether LightDM has been asked since the last unlock or
seat change. `request` is what the current step asked LightDM for.

`ScreenLock`: `Stage` maps a state of `LightLocker` to `unlocked`, `unattended`
(locked, and nobody is known to look), `waiting` (the switch to the greeter is
timed) or `asked` (LightDM knows); `covered` is that a lock window is mapped,
`delays` that a delay lock is held. An attended state that is neither timed nor
asked maps to a stage that `ScreenLock` does not have, so the refinement says
that there is none, and that the steps between the others are the promised
ones: a delay lock is let go only with a window on the screen (or the setting
changed), a lock uncovers nothing, an unlock is one step.

One action is one dispatched source and everything its handler does:

| Action | Dispatch | Handler |
|---|---|---|
| `SessionLock` | `Lock` on either screen saver interface | `listener_lock_cb` |
| `LogindLock`, `LogindUnlock` | logind's signals | `listener_locked_cb`, `gs_listener_set_active (FALSE)` |
| `SeatNotice` | `PropertiesChanged` with `ActiveSession` | `query_session_active`, `listener_session_switched_cb` |
| `LidNotice` | `PropertiesChanged` with `LidIsClosed` | `query_lid_closed`, `listener_lid_closed_cb` |
| `Suspend`, `Resume` | `PrepareForSleep` | `listener_suspend_cb`, `listener_resume_cb` |
| `BlankingChanged` | `ScreenSaverNotify` | `xroot_filter`, `listener_x11_blanking_changed_cb` |
| `MapEvent` | a lock window is mapped | `window_map_event_cb`, `manager_activated_cb` |
| `LockTimeout`, `GreeterTimeout` | the manager's timers | `manager_lock_cb`, `manager_switch_greeter_cb` |
| `LockSessionTimeout`, `SwitchSessionTimeout` | the 1 s timeouts | `gs_monitor_lock_session`, `gs_monitor_switch_greeter` |
| `Conf...` | a setting changed | `conf_..._cb` |
| `MonitorsChanged` | GDK | `on_screen_monitors_changed` |
| `LidMoves`, `SeatMoves` | the world | – |

`Sleep`: `preparing` and `signals` are logind's; `SleepSignal` is the dispatch of
the oldest `PrepareForSleep`, which may be long out of date. `waits` is a history
variable for the property: light-locker held a delay lock when the suspend was
announced, and neither an unlock nor the setting has released it from its duty.
A new delay lock is granted only while nothing is being prepared, as logind does
it. Suspending and waking up are one step: nothing of light-locker runs in between.

`ScreenSaver`: `saver` is the server's screen saver, `events` the
`ScreenSaverNotify` events not dispatched yet. Users and the session-bus calls
(`SetActive`, `SimulateUserActivity`) switch it; `Notify` is `xroot_filter`, which
leaves out what is not news and otherwise is `BlankingChanged`. Requests of
light-locker to the server take effect at once: their delay could only add to
that of the events.

`Inhibitors`: `owner` is `inhibit_list` as a function from cookies,
`lastCookie` the 32-bit counter (2^32 is the constant `CookieSpace`),
`suspends` the X server's count for `XScreenSaverSuspend`, `inbox` the messages
the bus has for light-locker, in the bus's order. Only light-locker's half comes
from the source; the clients follow the bus's rules and the interface.

`LightLockerCommand`: `process[c].at` is where a process is: in `do_command`
before or in the `Inhibit` call, waiting in its main loop, after the loop, or
gone. `Reply` is the answer with the child spawned or not, `NoReply` the time-out
of the call with the answer still to come, `ChildTerm` and `HandleTerm` the
callbacks that end the loop, `Kill` any signal nobody handles.

`Buses`: `pc` says how far a process got in `gs_listener_acquire`. Each blocking
call to the bus is a step, because other programs act between two of them:
`Check` and `CheckGNOME` are the two `dbus_bus_name_has_owner` of
`screensaver_is_running`, `Request` and `RequestGNOME` the two
`dbus_bus_request_name`; the filters and match rules, which nothing can
interrupt, are added in the last one. `link` holds the two connection pointers
(`closed` is a pointer to a connection whose loss has not been noticed, `none`
is NULL), `wired` the connections that carry the filter, `retries` the running
`reinit_dbus` timeouts. `HandleDisconnected` is the first branch of either
filter, `ReinitTimeout` one call of `reinit_dbus` with `gs_listener_dbus_init`
(`Reached`, `Done`). The daemons, rival programs and the killing of a process
are the environment.

### Constants that say what the world may do

* `Starts`: how light-locker finds the lid and the seat. It never asks; it takes
  the lid for open and the session for visible (`gs-manager.c:114`).
  `SaverStarts`: the same for the screen saver, which it takes for off.
* `InhibitFails`, `QueriesFail`: logind may refuse a delay lock; a query may
  fail, and then reads FALSE (`gs-listener-dbus.c:1094`).
* `Mutable`: the settings that change while light-locker runs. A notification
  comes for a key that changed: GSettings does not emit one otherwise.
* `HasLid`, `ReleaseNames`: UPower has a lid; clients own well-known names.
* `CallsFail`: the session bus may answer a call with an error although the
  connection is open (a timeout, no memory).
* `Layouts`: the arrangements of monitors GDK may report. `Rivals`: the other X
  clients that grab devices. `Retries`: the tries of `gs_grab_grab_window`.
* In `LightLocker` and above, the grab (`gs_grab_grab_root`) succeeds or fails
  freely wherever it is tried. `GSGrab` is where that choice comes from.

## What is checked

| Run | Configuration | Shows |
|---|---|---|
| `manager` | `GSManager.cfg`, `MCGSWindow` | GSManager's guarantees under any caller: both timers justified, every monitor has a window, redirection and lock timer started by whichever condition comes last; and the windows cover a locked screen whatever layouts follow one another, at once when the queued resizes are through (`ScreenCovered`) and in the end if the layout stays (`CoveredInTheEnd`) (39 168 states) |
| `manager_zero` (violation) | `GSManagerZero.cfg`, `MCGSManager` | see finding 1 |
| `grabs` | `GSGrab.cfg`, `MCGSGrab` | keyboard and pointer are held together or not at all, an unlocked session holds neither, the record is right, a device is lost only with its window, locking answers however long others hold the devices, the unbounded loop ends if they let go, and the whole implements `GSManager` (119 324 states) |
| `laptop` | `LightLockerLaptop.cfg`, `MCLightLocker` | the program with two monitors and any of the laptop settings: copies agree, settled views agree, requests only when visible, nothing timed behind a closed lid, and the whole implements `ScreenLock` (`KeepsPromise`) (799 040 states) |
| `settings` | `LightLockerSettings.cfg`, `MCLightLocker` | every setting changes at run time, queries fail, any start: the delay lock is held while unlocked and released only behind a mapped window, put-off locks have a trigger, the idle hint is exact (about 1.8 million states) |
| `desktop` | `LightLockerDesktop.cfg`, `MCScreenSaver` | the composition with logind and the X server, without a lid: light-locker's idea of the screen saver settles (`BlankingSettles`), a machine that waited for the delay lock sleeps behind the lock screen (`SleepsBehindLock`), nobody is left in front of the lock windows (`Redirected`, liveness), and there is a timer at once (`StrandedIsTimed`) (774 144 states) |
| `lid` (violation) | `LightLockerLid.cfg`, `MCLightLocker` | see finding 2 |
| `closed_lid` (violation) | `LightLockerClosedLid.cfg`, `MCLightLocker` | see finding 3 |
| `inhibitors` | `Inhibitors.cfg`, `MCLightLockerCommand` | a light-locker-command next to any other client: the suspension count, no stale entry, nobody ends another's inhibition, the process inhibits while it waits, and termination or the end of its command ends that (liveness) (116 733 states) |
| `inhibitors_names` (violation) | `InhibitorsNames.cfg`, `MCInhibitors` | see finding 4 |
| `buses` | `Buses.cfg`, `MCBuses` | two light-lockers and a rival with failing calls and buses that come and go: at most one serves, a lost bus is retried until it is back (liveness), a first name without the second is given back (liveness), no more than two retries (about 12 000 states) |
| `buses_lost` (violation) | `BusesLost.cfg`, `MCBuses` | see finding 5 |

### Bounds

* `MaxMonitors` is 3 for the manager, its windows and the grabs: a change then
  adds or removes windows next to ones that stay, and the window with the grabs
  can go while two stay. It is 2 in `laptop`, where what matters is that one
  window can be mapped and another not, and 1 elsewhere.
* `Layouts` has monitors side by side in both orders, one that mirrors another,
  and ones that leave a monitor an L-shaped rest or one in two pieces: these are
  the ways in which a bounding box can differ from a region.
* `Retries` is 4, the code's value (`gs-grab-x11.c:533`). Two rivals let one hold
  the keyboard and another the pointer.
* `lock-after-screensaver` is 0 or 5; the code distinguishes only 0. `grabs` has
  5 only, since the grabs do not depend on it.
* `MaxNotices` notices of each kind in flight. With one, a property can differ
  from what was last handled; with two (`laptop`) it can change *back* before the
  first notice is handled. The query makes further ones look like these.
* `MaxSignals` is 3: an announcement is posted only when its resume will fit, so
  a stale announcement and its resume can wait while the next suspend starts,
  behind a main loop that was blocked. `MaxEvents` is 2: the screen saver can
  change back before the first event is dispatched.
* `MaxOneShots` is 1. The handlers of the 1 s timeouts do not see how many there
  are; a second one only repeats the first.
* `MaxFds`: delay locks leak (see below), so their number is cut off: 2 is the
  least that lets one be overwritten, and `settings` has one more.
* `CookieSpace` is 3 and `MaxInbox` 2: the counter wraps around in a few steps,
  and a client can leave behind a message of its own. `CookiesLeft` leaves out
  that a cookie is kept while all the others are given out (2^32 calls).
  `MaxInbox` is at most `CookieSpace`: no more calls wait than there are cookies.
* `MaxCalls` is 1 of the 8 calls a light-locker-command may make before `Inhibit`;
  each can end the process or not, and changes nothing else.
* `Buses` needs no bound: it is finite for a finite number of processes. Two
  light-lockers and one rival give every pair of competitors for the names.

A bound disables the action that would pass it, so it limits how much is in
flight and not what is done with it.

### Fairness

`SaverFairSpec` (and `FairSpec` of `LightLocker`, `SleepFairSpec` of `Sleep`)
assume what the main loop gives: an installed timeout fires, a shown window is
mapped, a queued notice, signal or event is dispatched. Weak fairness is enough,
since none of them is disabled and enabled again without the code having stopped
the timer or destroyed the window. Nothing is assumed of users, logind or
LightDM: blanking, locks, suspends and VT switches may never happen.

`FairSpec` of `GSGrab` assumes that a call in progress goes on: it is a loop with
`sleep (1)`. `ActivationAnswers` needs no more. `MoveEnds` is about a loop
without a limit; it is stated for rivals that let go for good, and nothing
forces them to. `WindowsFairSpec` assumes that GTK runs its idle callbacks.

`CommandFairSpec` assumes that light-locker dispatches what has arrived and that a
process reacts to the end of its child. `SendUnInhibit` is strongly fair because
the model, not the program, can keep it from sending: by `MaxInbox`. No
process has to terminate. `FairSpec` of `Buses` assumes that a process runs and
that its main loop fires its timeouts and dispatches `Disconnected`; buses and
rivals may do anything or nothing. `Reconnects` asks for a connection only if
both buses end up there for good.

`Redirected` asks that LightDM has been asked (or the user has gone, or
unlocked): whether LightDM grants it is not light-locker's.

### Findings

1. `lock-after-screensaver` = 0 "disables" the timed lock
   (`data/light-locker.1:35`), but `gs_manager_set_lock_after` leaves a timer
   that is already running, and the session is locked (`ZeroDisablesLock`).
2. When the lid opens on a lock that was put off, `listener_lid_closed_cb`
   (`gs-monitor.c:358-368`) returns before `gs_manager_set_lid_closed`, and the
   manager believes the lid closed until it moves again. The next logind `Lock`
   then covers the screen with "You'll be redirected to the unlock dialog
   automatically in a few seconds" (`gs-content.c:114`) and nothing redirects
   (`Redirected` in run `lid`).
3. "Don't switch VT while the lid is closed" (`gs-monitor.c:224`) is only looked
   at when the 1 s timeout is started, not when it fires
   (`NoRequestUnderClosedLid`).
4. `NameOwnerChanged` is taken for the end of the old owner's connection,
   whatever name changed hands: the match rule names no argument, and only the
   old owner is read (`gs-listener-dbus.c:1057`). A client that gives up a
   well-known name and stays loses its inhibitions, and "Inhibitor disconnected"
   (`gs-listener-dbus.c:551`) is said of it (`DisconnectedHaveLeft`).
5. "Got disconnected from the session message bus; retrying to reconnect every
   10 seconds" (`gs-listener-dbus.c:1497`): `reinit_dbus` connects and does
   nothing else. The new connection has no filter, no match rules, no object
   paths and no names, so calls, `Lock` and `Unlock` no longer arrive, and a
   second loss is not even noticed (`ReconnectedListens`).

Not stated as findings, for want of a document that says otherwise:

* an unlock before any lock window is mapped, or switching lock-on-suspend off
  and on while locked, leaks a delay lock (`gs-listener-dbus.c:469` overwrites
  `delay_fd`);
* an unlock does not cancel a lock that was put off or a 1 s timeout;
* an unlock while a suspend is being prepared is refused a new delay lock, and
  the resume does not ask again while the session stays unlocked: the next
  suspend is not delayed, which is why `SuspendDelayedWhileUnlocked` assumes that
  logind grants delay locks and `SleepsBehindLock` speaks of suspends that waited;
* unplugging the monitor whose window holds the grabs ends both grabs while the
  session stays locked, and nothing takes them again until another window is
  mapped under the pointer (`LostOnlyWithWindow` says that this is the only way
  to lose them);
* a screen saver that is on when light-locker starts is taken for off until it
  changes.

## What is proved

TLAPS proves the following for every number of monitors, every set of settings,
every start, and every value of the bounds.

*About GSManager* (`GSManagerProofs`): `TypeOK`, `TimersJustified`,
`EveryMonitorCovered`, and the action properties `RedirectArmed` and
`LockArmed`. `OnlyChangedToZero` delimits finding 1: a lock is timed at 0 only
if the timer ran when the setting was changed. `ManagerInv` is inductive as it stands;
`GSManagerOpsProofs` shows for each operator that it keeps the record's type and
that it keeps `ManagerInv` (for `Resized`, with the new number of monitors,
which needs `|0..n-1| = n`).

*About the windows* (`GSWindowProofs`): `ScreenCovered` for any layouts, and
`WindowsSpec => Spec`, so that what is proved of `GSManager` holds of its windows
with their geometry. `NoGap` is the geometry: of the monitors that show a pixel
the one with the lowest number leaves it out for nobody, so it lies in that
window's region and in the box around it; the lowest number exists because < is
well-founded on the naturals. `Fresh` strengthens the property into an
invariant: a window without a queued resize has the geometry of the present
layout.

*About the grabs* (`GSGrabProofs`): `TypeOK`, `HeldTogether`, `UnlockedIsFree`,
`RecordTrusted`, `LostOnlyWithWindow`, `LockedOnlyWithBoth` (a session becomes
locked only with both devices grabbed), for any number of tries, monitors and
other clients, and `Spec => ImplementsGSManager`: a try is a stutter there,
`Return` is `SetActive`. The properties speak of the main loop and are not
inductive; `InCall` says what each point of a call in progress has achieved (the
keyboard is ours exactly if `keyboardGot` says so, a move has brought the
keyboard to the window before the pointer's turn), and `HolderExists` that a
grab is on a window that exists.

*About the program* (`LightLockerProofs`): `TypeOK`, `ManagerOK`, `CopiesAgree`,
`DeferredLockHasTrigger`, `RequestOnlyWhenVisible`,
`NoTimedSwitchUnderClosedLid`, `IdleHintTracksScreen`, `ReleaseOnlyBehindLock`
without further assumptions;
`SuspendDelayedWhileUnlocked` if logind grants delay locks
(`InhibitFails = FALSE`: otherwise it is false); `SuspendFreeOnceMapped` if
lock-on-suspend is not changed at run time (otherwise it is false);
`SettledViewsAgree` if light-locker starts with an open lid and a visible session
and queries are answered (otherwise it is false).

`NoTimedSwitchUnderClosedLid` is not inductive: it relates the greeter's timer to
the *listener's* idea of the lid, while the manager starts the timer by its own,
which lags (finding 2). The strengthening is `LidLag`: the two ideas differ only
in that the manager believes the lid closed when the listener knows it is open,
never the other way round; with `ManagerInv` (a running timer means that the
manager thinks the lid open) the property follows. The other strengthenings say
which copies are equal: with `CopiesAgree` in the invariant, the guard
`m.active \/ listener.active` of `gs_monitor_lock_screen` and the result of
`gs_manager_set_active` become facts about one flag. `IInv` is their conjunction;
there is one lemma per action, `NextSound` puts them together and `AlwaysSound`
is `Spec => []IInv`. The conditional theorems and the action property have
lemmas of their own on top of `IInv`; for `SettledViewsAgree` these show that all
but four kinds of steps leave views, facts and notices alone (`SameViews`).

*The promise* (`LightLockerProofs`): `PromiseIsKept` is `Spec => KeepsPromise`, for
any settings, starts, late answers and failing queries. The invariant it needs
beyond `IInv` is `Armed` (`WatcherIsTimed`): whoever is known to look at the lock
windows has a switch timed or asked for. Three facts make it inductive. Of all the
manager's functions only the expiry of the timer leaves somebody without it
(`TimelyOperations`); the expiry itself asks LightDM, because with no notice in
flight logind's answer is the truth (`SeatAnswers` is `{TRUE}` there); and what was
asked is forgotten only by an unlock or a move of the seat (`AskedSteps`), after
which nobody is known to look. The steps are then mapped one by one: those that
touch neither the delay lock nor the windows (`Steady`), the others action by
action. `Armed` speaks of what the *manager* knows. `OnlyStaleLidStrands` says how
far that is from the truth: with queries answered, a user who is in fact stranded
without a timer has a manager that wrongly takes the lid for closed, which is
finding 2 and nothing else; without a lid, `StrandedHasTimer` follows.
`LeakNeedsEarlyUnlock` says of the delay locks that leak (see above) that each is
due to an unlock that finds the last one still held, before any lock window is
mapped if the setting is fixed.

*About suspending and the screen saver* (`SleepProofs`): `SleepSpec => Spec` and
`SaverSpec => SleepSpec`: logind's protocol and the X server only restrict when
things happen, so every theorem about `LightLocker` holds in the composition.
`SleepsBehindLock` follows from `HeldOrLocked`, which says that the delay lock
logind waits for is held or the lock screen is up. `BlankingSettles` is proved
for a screen saver that is off at the start and any number of events; its
invariant `Told` finds, in the queue, the event after which light-locker will know
the present state: the last one that is not a cycle, or none if what it knows is
right. `PromiseIsKeptBeside` and `StrandedHasTimerBeside` state for the composition what
was proved of `LightLocker`. `WatchedScreenIsTimed` needs both parts: with what
light-locker knows of the screen settled, a user in front of a lit and locked
screen, on the seat and without a lid, has the switch timer running.

*About inhibitions* (`InhibitorsProofs`): `TypeOK`, `SuspendedWhileInhibited`,
`NoStaleInhibitor` and the action property `OthersUntouched`, for any clients,
any `CookieSpace` and any `MaxInbox` up to it. `OnlyReleasedNamesMislead` delimits
finding 4: where no client gives up a well-known name, only those that left are
taken for disconnected. Two strengthenings carry the
proof. `Reserved`: the cookies that the `Inhibit` calls in the queue will be given
are free, so that a new entry never overwrites another one; it follows from
`CookiesLeft` when the call is posted, and stays true because the counter moves
by the one cookie that the head of the queue takes. `Followed`: an `Inhibit` of
a client that left has the client's `NameOwnerChanged` behind it, so that the
entry made for nobody is removed. Without either, the invariants are not
inductive: a late `Inhibit` could take a cookie in use, or leave an entry for
good. `CommandImplementsClients` shows that a light-locker-command is one of the
clients these theorems allow; `CommandInhibits` is proved with `AllCalm`: a
process that has not begun to leave has nothing in the queue that ends its
inhibition.

*About the buses* (`BusesProofs`): `TypeOK`, `OneScreenSaver`, `RetryUntilBack`,
for any number of processes. `RetriesPaid` says that each pending retry stands
for a bus whose filter is gone, which bounds them by two; `OwnsSecond` says that
a process that serves owns the GNOME name. The second name is the one that
counts: the first may have failed with an error and been passed over. The two
halves of the names are not alike. The first name alone lasts until the second
request is answered (`FirstAloneMovesOn`). The second name alone is kept by a
process that runs; `SecondAloneByRequest` says that it comes about only by the
second request, made without having the first, and `OnlyErrorsSplitNames` that
without errors of the bus (`CallsFail` = FALSE) a process that runs has both names
or none, whatever other programs do and however often the buses die.

*The safety part of liveness.* Liveness under fairness is out of the prover's
reach. What can be proved is what each argument for it rests on: that the waiting
is for one thing only, and that each step of it is progress.

| Liveness (TLC) | Proved for every instance | Left to fairness |
|---|---|---|
| `Redirected` | `StrandedHasTimer`: a stranded user has the timer installed | the timer fires |
| `CoveredInTheEnd` | `NothingResizesForEver`: while the layout stays, each idle callback leaves fewer resizes, and none is added; with none left `ScreenIsCovered` applies | idle callbacks run |
| `ActivationAnswers` | `TriesRunOut`: at most three times `Retries` tries are left, each leaves fewer, and nobody else touches the call | the call goes on |
| `MoveEnds` | `OnlyRivalsDelayMoves`: a turn that no rival obstructs ends its loop | the call goes on, rivals let go |
| `InhibitionEnds` | `GoneAreForgotten`: a client that left sends nothing more and is forgotten once its messages are handled; `CookieIsGivenBack`: after `UnInhibit` was sent, a command's only entry is the one it named; `OneCookieIsEnough`: it never has two | messages are dispatched, the process goes on |
| `Reconnects` | `OneTimeoutConnects` (with both buses there, one timeout is enough) and `RetryUntilBack` (one is pending) | the timeout fires |
| `FirstNameGivenBack` | `FirstAloneMovesOn`: the first name is owned without the second only before the second request is answered, which ends it | the process goes on |

`CookieIsGivenBack` and `OneCookieIsEnough` need more than `AllCalm`. `AllSingle`: a
process has asked at most once, and has no entry while its call is still in the
queue; so an answer that comes after the time-out, and makes an entry the process
does not know of, cannot make a second one. `AllReturning`: after `UnInhibit` the
queue has nothing of the process but that call, with the right cookie.

*Only model-checked* is then the last column: the temporal step from "always
enabled and progress" to "eventually". Every invariant and action property of the
passing runs, and both refinements, are proved.

## What is not modelled

* Builds without systemd, UPower or the X screen saver extension (ConsoleKit
  among them); the defaults of `meson_options.txt` are assumed where a build
  option decides.
* The clock: a timer may fire as soon as it runs. Whatever holds does not depend
  on 10 s being longer than 1 s.
* Calls that only read: `GetActive`, `GetActiveTime`, `GetSessionIdleTime`. DPMS.
* Grabs: GDK's display has one master keyboard and one master pointer here. The
  hot keys of XF86Misc and the call that closes GNOME Shell's overview have no
  answer the code looks at; the offscreen grab is called by nobody.
* Windows: raising above others and the watchdog are a contest with the window
  manager that the source does not decide; the `obscured` property is not used;
  drawing (`gs-content.c`) and logging (`gs-debug.c`) keep no state.
* light-locker-command: what it prints and its exit status.
* `gs_monitor_start` failing, and disposal: the process exits. Option parsing and
  translations. `preview.c` and `test-window.c` are development tools.
* The session bus lost while `inhibit_list` has entries: `Buses` shows that the
  new connection gets no message at all (finding 5), so nothing can end them, and
  no document says what should.
* LightDM's answers: `SwitchToGreeter` and `Lock` are sent without waiting.

## Plan

Done, the most important behaviour first: `GSManagerOps`, `GSManager`,
`LightLocker`, `Inhibitors`, `Buses` and their proofs; then `GSGrab` and
`GSWindow` as refinements of `GSManager`, `Sleep` and `ScreenSaver` as
compositions over `LightLocker`, `LightLockerCommand` over `Inhibitors`, and
their proofs; then `ScreenLock` with `LightLocker` as its refinement, and the
safety parts of the liveness properties. Left:

1. `GSGrab` inside `LightLocker`: the main loop is blocked between the tries, so
   notices pile up; today the choice `grabbed` stands for it, with the queues of
   `Sleep` and `ScreenSaver` for what waits meanwhile.
2. `Buses` and `Inhibitors` composed, once it is decided what a lost bus should do
   to the list.
3. The start-up queries of the session and the seat, if light-locker comes to ask
   for the lid, the seat and the screen saver when it starts.

None of the modules declares a RECURSIVE operator, so that all can be proved
about. Runs stay within a few million states.

## Running

    tlc -config GSManager.cfg MCGSWindow
    tlc -config GSGrab.cfg MCGSGrab
    tlc -config LightLockerLaptop.cfg MCLightLocker
    tlc -config LightLockerDesktop.cfg MCScreenSaver
    tlc -config Inhibitors.cfg MCLightLockerCommand
    tlapm LightLockerProofs.tla
    tlapm GSGrabProofs.tla

`PROJECT.json` lists every run with its module and configuration, and for each
definition the lines of the source it models.
