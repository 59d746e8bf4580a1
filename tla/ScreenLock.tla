----------------------------- MODULE ScreenLock -----------------------------
(***************************************************************************)
(* What light-locker promises to the three who rely on it, without the     *)
(* flags and timers it keeps the promise with:                             *)
(*                                                                         *)
(*   - to the user in front of a locked screen, that the switch to the     *)
(*     greeter is on its way or LightDM has been asked already;            *)
(*   - to logind, that the delay lock is not let go before a lock window   *)
(*     covers the screen, and is let go then;                              *)
(*   - to the owner of the session, that covering and uncovering it are    *)
(*     one step each, in which nothing else is given up.                   *)
(***************************************************************************)

CONSTANT
    Configurable    \* TRUE if the user may turn the delay of suspends on and off

VARIABLES
    stage,      \* how far the way from the lock to the greeter is
    covered,    \* a lock window is on the screen
    delays      \* the next suspend waits for light-locker

promised == <<stage, covered, delays>>

(***************************************************************************)
(* "unattended" is a locked session in front of which nobody is taken to   *)
(* be: blank, behind a closed lid, or not on its seat.  There is no stage  *)
(* for somebody who looks at the lock windows and is sent nowhere.         *)
(***************************************************************************)
LockedStages == {"unattended", "waiting", "asked"}

Init ==
    /\ stage = "unlocked"
    /\ covered = FALSE
    /\ delays \in BOOLEAN

\* The lock windows are made.  None is on the screen yet, so a suspend that
\* waits goes on waiting.
Lock ==
    /\ stage = "unlocked"
    /\ stage' \in LockedStages
    /\ UNCHANGED <<covered, delays>>

\* A lock window reaches the screen: nothing is left to wait for.
Cover ==
    /\ stage \in LockedStages
    /\ covered' = TRUE
    /\ delays' = FALSE
    /\ UNCHANGED stage

\* The monitors with the windows on the screen go.
Unplug ==
    /\ covered
    /\ covered' = FALSE
    /\ UNCHANGED <<stage, delays>>

\* Somebody comes to the lock windows.
Attend ==
    /\ stage = "unattended"
    /\ stage' \in {"waiting", "asked"}
    /\ UNCHANGED <<covered, delays>>

\* LightDM is asked.
Ask ==
    /\ stage = "waiting"
    /\ stage' = "asked"
    /\ UNCHANGED <<covered, delays>>

\* Nobody looks at the lock windows any more.  What was asked is void once the
\* session has left its seat.
Abandon ==
    /\ stage \in {"waiting", "asked"}
    /\ stage' = "unattended"
    /\ UNCHANGED <<covered, delays>>

\* The session is opened.  The next suspend waits again, if it did before.
Unlock ==
    /\ stage \in LockedStages
    /\ stage' = "unlocked"
    /\ covered' = FALSE
    /\ delays' \in {delays, TRUE}

\* The user turns the delay on or off.
Prefer ==
    /\ Configurable
    /\ delays' = ~delays
    /\ UNCHANGED <<stage, covered>>

Next ==
    \/ Lock \/ Cover \/ Unplug
    \/ Attend \/ Ask \/ Abandon
    \/ Unlock \/ Prefer

Spec == Init /\ [][Next]_promised

=============================================================================
