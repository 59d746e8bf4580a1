-------------------------------- MODULE Sleep --------------------------------
(***************************************************************************)
(* LightLocker under logind's protocol for suspending.                     *)
(*                                                                         *)
(* LightLocker lets the PrepareForSleep signals come at any time.  Here    *)
(* they come from logind: it announces a suspend, waits for the delay      *)
(* locks, for InhibitDelayMaxSec at most, suspends, and announces the      *)
(* resume.  While it waits it refuses new delay locks.  Its signals queue  *)
(* up behind light-locker's main loop, which gs_grab_grab_root may block   *)
(* for longer than logind waits.                                           *)
(***************************************************************************)
EXTENDS LightLocker, Sequences

CONSTANT
    MaxSignals  \* bound on the PrepareForSleep signals in flight

ASSUME SleepAssumption ==
    /\ MaxSignals \in Nat
    /\ InhibitFails

VARIABLES
    preparing,  \* logind waits for the delay locks
    signals,    \* PrepareForSleep signals not dispatched yet
    waits       \* logind waits for a delay lock light-locker has to give up

logindVars == <<preparing, signals, waits>>

sleepVars == <<manager, monitor, listener, x11, world, request, preparing, signals, waits>>

-----------------------------------------------------------------------------
(***************************************************************************)
(* logind.                                                                 *)
(***************************************************************************)

\* A suspend is announced.
PrepareForSleep ==
    /\ ~preparing
    /\ Len(signals) + 2 <= MaxSignals
    /\ preparing' = TRUE
    /\ signals' = Append(signals, TRUE)
    /\ waits' = listener.holdsFd
    /\ UNCHANGED vars

\* The machine sleeps and wakes up; nothing of light-locker runs in between.
SleepAndWake ==
    /\ preparing
    /\ preparing' = FALSE
    /\ signals' = Append(signals, FALSE)
    /\ waits' = FALSE
    /\ UNCHANGED vars

AllReleased == SleepAndWake /\ world.openFds = 0

DelayMaxSecOver == SleepAndWake /\ world.openFds > 0

\* A delay lock is granted unless a suspend is under way.
Grants == ~preparing

-----------------------------------------------------------------------------
(***************************************************************************)
(* light-locker.                                                           *)
(***************************************************************************)

Quietly(A) == A /\ UNCHANGED logindVars

\* PrepareForSleep in listener_dbus_handle_system_message, which emits SUSPEND
\* or RESUME; either handler returns at once while lock-on-suspend is off.
SleepSignal ==
    /\ signals # <<>>
    /\ signals' = Tail(signals)
    /\ \/ /\ monitor.lockOnSuspend /\ Head(signals)
          /\ \E grabbed \in BOOLEAN : Suspend(grabbed)
       \/ /\ monitor.lockOnSuspend /\ ~Head(signals)
          /\ Resume
       \/ /\ ~monitor.lockOnSuspend
          /\ UNCHANGED vars
    /\ UNCHANGED <<preparing, waits>>

\* The user unlocks: what logind waits for is no lock screen any more.
Unlock ==
    /\ LogindUnlock(Grants)
    /\ waits' = (waits /\ ~listener.active)
    /\ UNCHANGED <<preparing, signals>>

SwitchLockOnSuspend ==
    /\ ConfLockOnSuspend(Grants)
    /\ waits' = FALSE
    /\ UNCHANGED <<preparing, signals>>

SleepInit ==
    /\ Init
    /\ preparing = FALSE
    /\ signals = <<>>
    /\ waits = FALSE

\* Everything but the screen saver's events.
SleepProtocol ==
    \/ PrepareForSleep
    \/ AllReleased
    \/ DelayMaxSecOver
    \/ SleepSignal
    \/ Unlock
    \/ SwitchLockOnSuspend
    \/ Quietly(Messages)
    \/ Quietly(Scheduled)
    \/ Quietly(Preferences)
    \/ Quietly(Environment)

SleepNext ==
    \/ SleepProtocol
    \/ Quietly(\E active \in BOOLEAN : BlankingChanged(active))

SleepSpec == SleepInit /\ [][SleepNext]_sleepVars

\* As in LightLocker.  A suspend does not disable what it delays.
SleepFairness ==
    /\ WF_sleepVars(Quietly(\E grabbed \in BOOLEAN : LockTimeout(grabbed)))
    /\ WF_sleepVars(Quietly(GreeterTimeout))
    /\ WF_sleepVars(Quietly(LockSessionTimeout))
    /\ WF_sleepVars(Quietly(SwitchSessionTimeout))
    /\ WF_sleepVars(Quietly(\E w \in Monitors : MapEvent(w)))
    /\ WF_sleepVars(Quietly(SeatNotice))
    /\ WF_sleepVars(SleepSignal)

SleepFairSpec == SleepSpec /\ SleepFairness

-----------------------------------------------------------------------------
(***************************************************************************)
(* Properties.                                                             *)
(***************************************************************************)

\* A machine that logind suspends because its delay locks were given up sleeps
\* behind the lock screen, if light-locker held one when the suspend was
\* announced, the user did not unlock since and did not touch lock-on-suspend:
\* whatever else happens in the meantime, a failed grab, monitors, a VT switch,
\* the delay lock is not let go for anything but the lock screen
\* (gs-monitor.c:113-118, 273-284).
SleepsBehindLock ==
    [][ /\ preparing /\ ~preparing'
        /\ world.openFds = 0
        /\ waits
        => manager.active ]_sleepVars

=============================================================================
