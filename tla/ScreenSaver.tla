----------------------------- MODULE ScreenSaver -----------------------------
(***************************************************************************)
(* Sleep with the X server's screen saver, as GSListenerX11 drives and     *)
(* watches it (gs-listener-x11.c).                                         *)
(*                                                                         *)
(* The server starts the screen saver when the user is idle and stops it   *)
(* when there is input; clients on the session bus do both through         *)
(* light-locker.  It tells light-locker by events, which are dispatched    *)
(* later: by then the screen saver may be in another state, and what the   *)
(* main loop does in between goes by the old one.                          *)
(***************************************************************************)
EXTENDS Sleep

CONSTANTS
    SaverStarts,    \* how light-locker may find the screen saver
    MaxEvents       \* bound on the ScreenSaverNotify events in flight

ASSUME SaverAssumption ==
    /\ SaverStarts \subseteq BOOLEAN
    /\ MaxEvents \in Nat

VARIABLES
    saver,      \* the screen saver is on
    events      \* states in ScreenSaverNotify events not dispatched yet

saverVars == <<saver, events>>

sessionVars ==
    <<manager, monitor, listener, x11, world, request, preparing, signals, waits, saver, events>>

States == {"On", "Off", "Cycle"}

-----------------------------------------------------------------------------
(***************************************************************************)
(* The X server.                                                           *)
(***************************************************************************)

Tells(state) ==
    /\ Len(events) < MaxEvents
    /\ events' = Append(events, state)

Switches(on) ==
    /\ saver # on
    /\ saver' = on
    /\ Tells(IF on THEN "On" ELSE "Off")
    /\ UNCHANGED sleepVars

\* The user has been idle for the server's timeout.
UserIdles == Switches(TRUE)

\* There is input.
UserActs == Switches(FALSE)

\* The server changes the picture of a screen saver that is on.
Cycles ==
    /\ saver
    /\ Tells("Cycle")
    /\ UNCHANGED <<sleepVars, saver>>

-----------------------------------------------------------------------------
(***************************************************************************)
(* light-locker.                                                           *)
(***************************************************************************)

\* gs_listener_x11_force_blanking
ForceBlanking(active) == Switches(active)

\* listener_blanking_cb leaves the screen saver on behind a lock.
SetActive(active) ==
    /\ active \/ ~manager.active
    /\ ForceBlanking(active)

\* gs_listener_x11_simulate_activity, locked or not.
SimulateUserActivity == Switches(FALSE)

\* The calls on the session bus that change the screen saver.
SessionCalls ==
    \/ \E active \in BOOLEAN : SetActive(active)
    \/ SimulateUserActivity

\* Bug: whatever is not "on" ends the screen saver.
KnownElse(state) == x11 = (state = "On")

\* States that are not news to xroot_filter.
Known(state) == state = "Cycle" \/ x11 = (state = "On")

\* xroot_filter takes the next event.
Notify ==
    /\ events # <<>>
    /\ events' = Tail(events)
    /\ \/ Known(Head(events)) /\ UNCHANGED vars
       \/ ~Known(Head(events)) /\ BlankingChanged(Head(events) = "On")
    /\ UNCHANGED <<logindVars, saver>>

-----------------------------------------------------------------------------

SaverInit ==
    /\ SleepInit
    /\ saver \in SaverStarts
    /\ events = <<>>

Beside(A) == A /\ UNCHANGED saverVars

SaverNext ==
    \/ UserIdles
    \/ UserActs
    \/ Cycles
    \/ SessionCalls
    \/ Notify
    \/ Beside(SleepProtocol)

SaverSpec == SaverInit /\ [][SaverNext]_sessionVars

\* As in Sleep.
SaverFairness ==
    /\ WF_sessionVars(Beside(Quietly(\E grabbed \in BOOLEAN : LockTimeout(grabbed))))
    /\ WF_sessionVars(Beside(Quietly(GreeterTimeout)))
    /\ WF_sessionVars(Beside(Quietly(LockSessionTimeout)))
    /\ WF_sessionVars(Beside(Quietly(SwitchSessionTimeout)))
    /\ WF_sessionVars(Beside(Quietly(\E w \in Monitors : MapEvent(w))))
    /\ WF_sessionVars(Beside(Quietly(SeatNotice)))
    /\ WF_sessionVars(Beside(SleepSignal))
    /\ WF_sessionVars(Notify)

SaverFairSpec == SaverSpec /\ SaverFairness

-----------------------------------------------------------------------------
(***************************************************************************)
(* Properties.                                                             *)
(***************************************************************************)

\* Once the events in flight are handled, what the lock timer goes by and what
\* GetActive answers is what the screen saver does, however often users and
\* clients switched it meanwhile and whatever else the server told
\* (gs-listener-x11.c:109-133, gs-monitor.c:399-400).  It needs a screen saver
\* that is off when light-locker starts: nobody asks.
BlankingSettles ==
    events = <<>> => manager.blank = saver /\ listener.blanked = saver

=============================================================================
