------------------------------- MODULE GSGrab -------------------------------
(***************************************************************************)
(* The keyboard and pointer grabs of light-locker (gs-grab-x11.c), driven  *)
(* by GSManager (gs-manager.c), against an X server whose devices other    *)
(* clients grab too.                                                       *)
(*                                                                         *)
(* To activate, GSManager grabs both devices on the root window, trying    *)
(* again every second; when the lock window under the pointer is mapped    *)
(* the grabs are moved there, trying again until it works.  Both block the *)
(* main loop, so no handler of light-locker runs meanwhile: `call' is the  *)
(* call in progress.  Other clients do run between two tries.              *)
(*                                                                         *)
(* The X server lets one client grab a device at a time, on a viewable     *)
(* window; destroying the window ends the grab.  GSGrab keeps a record of  *)
(* its own grabs, which GDK's weak pointers and `grab-broken-event's       *)
(* correct.  One master keyboard and one master pointer are modelled.      *)
(***************************************************************************)
EXTENDS GSManagerOps

CONSTANTS
    Rivals,     \* the other X clients that grab devices
    Root,       \* the root window
    None,       \* no client, no window
    Retries     \* tries per device in gs_grab_grab_window

ASSUME GrabAssumption ==
    /\ Retries \in Nat \ {0}
    /\ Root # None
    /\ {Root, None} \cap (Monitors \cup Rivals) = {}
    /\ Monitors \cap Rivals = {}

VARIABLES
    manager,    \* the GSManager object
    monitors,   \* the number of monitors GDK reports
    pointer,    \* the monitor the pointer is on
    grabs,      \* the devices, and GSGrab's record of them
    call        \* the call of GSGrab that is in progress

vars == <<manager, monitors, pointer, grabs, call>>

Devices == {"keyboard", "pointer"}

\* Windows of ours that can hold a grab; a lock window is its monitor.
Ours == Monitors \cup {Root}

Grabs ==
    [ server : [Devices -> Ours \cup Rivals \cup {None}],   \* who holds it
      record : [Devices -> Ours \cup {None}],   \* ..._grab_window of GSGrab
      broken : SUBSET (Monitors \X Devices) ]   \* queued grab-broken-events

Call ==
    [ at : {"loop", "keyboard", "pointer", "moveKeyboard", "movePointer"},
      missed : 0 .. Retries,        \* tries without success
      nuked : BOOLEAN,              \* the focus was taken away (focus_fuckus)
      keyboardGot : BOOLEAN,        \* kstatus = GDK_GRAB_SUCCESS
      window : Monitors \cup {None} ]   \* where the grabs are moved

Loop == [at |-> "loop", missed |-> 0, nuked |-> FALSE, keyboardGot |-> FALSE,
         window |-> None]

InLoop == call.at = "loop"

\* What this module implements when the tries are hidden: gs_manager_set_active
\* succeeds or fails in one step.
GSM == INSTANCE GSManager WITH manager <- manager, monitors <- monitors

-----------------------------------------------------------------------------
(***************************************************************************)
(* GSGrab's functions, on a record of Grabs.                               *)
(***************************************************************************)

Available(g, d) == g.server[d] \notin Rivals

\* gs_grab_get_keyboard, gs_grab_get_mouse, when the device is available.
Get(g, d, w) == [g EXCEPT !.server[d] = w, !.record[d] = w]

Reset(g, d) == [g EXCEPT !.record[d] = None]

Release(g, d) ==
    [Reset(g, d) EXCEPT !.server[d] = IF @ \in Ours THEN None ELSE @]

\* gs_grab_move_mouse asks GDK first whether the grab was lost.
Seen(g, d) == IF d = "pointer" /\ g.server[d] \notin Ours THEN Reset(g, d) ELSE g

\* The old grab, if there is one on record, is given up before the new one.
Freed(g, d) == IF Seen(g, d).record[d] = None THEN g ELSE Release(g, d)

\* The result of gs_grab_move_keyboard and gs_grab_move_mouse.
Moves(g, d, w) == Seen(g, d).record[d] = w \/ Available(Freed(g, d), d)

\* Bug: the server is not grabbed, others come between release and get.
MoveInTwoSteps(g, d, w) ==
    IF g.record[d] = w THEN g
    ELSE IF g.record[d] # None THEN Release(g, d)
    ELSE IF Available(g, d) THEN Get(g, d, w)
    ELSE g

\* gs_grab_move_keyboard, gs_grab_move_mouse.  Nothing of another client comes
\* between its steps, sleep (1) included: the server is grabbed.  The second
\* try and the way back to the old window then meet the same server as the
\* first try.  GDK tells the lock window that had the grab that it is broken.
Move(g, d, w) ==
    IF Seen(g, d).record[d] = w THEN g
    ELSE IF Available(Freed(g, d), d)
    THEN [Get(Freed(g, d), d, w) EXCEPT
             !.broken = @ \cup ((({g.server[d]} \cap Monitors) \ {w}) \X {d})]
    ELSE Reset(g, d)

\* Bug: what was grabbed is kept when the other device is not to be had.
UnwoundNot(g, keyboardGot, pointerGot) == g

\* The end of gs_grab_grab_window without success.
Unwound(g, keyboardGot, pointerGot) ==
    LET k == IF keyboardGot THEN Release(g, "keyboard") ELSE g
    IN  IF pointerGot THEN Release(k, "pointer") ELSE k

\* Bug: the record outlives its window.
ForgetsRecord(g, gone) ==
    [ g EXCEPT
        !.server = [d \in Devices |-> IF @[d] \in gone THEN None ELSE @[d]],
        !.broken = @ \ (gone \X Devices) ]

\* The lock windows `gone' are destroyed: the server ends their grabs, the
\* weak pointers clear the record, their events have nowhere to go.
Destroyed(g, gone) ==
    [ server |-> [d \in Devices |->
                     IF g.server[d] \in gone THEN None ELSE g.server[d]],
      record |-> [d \in Devices |->
                     IF g.record[d] \in gone THEN None ELSE g.record[d]],
      broken |-> g.broken \ (gone \X Devices) ]

-----------------------------------------------------------------------------
(***************************************************************************)
(* gs_manager_activate.                                                    *)
(***************************************************************************)

\* gs_grab_grab_root is entered.
BeginActivate ==
    /\ InLoop
    /\ ~manager.active
    /\ call' = [call EXCEPT !.at = "keyboard"]
    /\ UNCHANGED <<manager, monitors, pointer, grabs>>

\* Bug: the focus is taken away again and again.
KeyboardMissedAgain ==
    IF call.missed + 1 < Retries THEN [call EXCEPT !.missed = @ + 1]
    ELSE [call EXCEPT !.missed = 0, !.nuked = TRUE]

\* Bug: the tries are not counted to their end.
KeyboardMissedOnce ==
    IF call.missed < Retries + 1 THEN [call EXCEPT !.missed = @ + 1]
    ELSE [call EXCEPT !.missed = 0, !.at = "pointer"]

\* Another second for the keyboard; the focus is taken away once, halfway.
KeyboardMissed ==
    IF call.missed + 1 < Retries THEN [call EXCEPT !.missed = @ + 1]
    ELSE IF ~call.nuked THEN [call EXCEPT !.missed = 0, !.nuked = TRUE]
    ELSE [call EXCEPT !.missed = 0, !.at = "pointer"]

TryKeyboard ==
    /\ call.at = "keyboard"
    /\ \/ /\ Available(grabs, "keyboard")
          /\ grabs' = Get(grabs, "keyboard", Root)
          /\ call' = [call EXCEPT !.at = "pointer", !.missed = 0,
                                  !.keyboardGot = TRUE]
       \/ /\ ~Available(grabs, "keyboard")
          /\ call' = KeyboardMissed
          /\ UNCHANGED grabs
    /\ UNCHANGED <<manager, monitors, pointer>>

\* The rest of gs_manager_activate, with the result of gs_grab_grab_root.
Return(g, keyboardGot, pointerGot) ==
    LET grabbed == keyboardGot /\ pointerGot
    IN  /\ manager' = ManagerSetActive(manager, TRUE, grabbed, monitors)
        /\ grabs' = IF grabbed THEN g ELSE Unwound(g, keyboardGot, pointerGot)
        /\ call' = Loop

TryPointer ==
    /\ call.at = "pointer"
    /\ \/ /\ Available(grabs, "pointer")
          /\ Return(Get(grabs, "pointer", Root), call.keyboardGot, TRUE)
       \/ /\ ~Available(grabs, "pointer")
          /\ call.missed + 1 = Retries
          /\ Return(grabs, call.keyboardGot, FALSE)
       \/ /\ ~Available(grabs, "pointer")
          /\ call.missed + 1 < Retries
          /\ call' = [call EXCEPT !.missed = @ + 1]
          /\ UNCHANGED <<manager, grabs>>
    /\ UNCHANGED <<monitors, pointer>>

-----------------------------------------------------------------------------
(***************************************************************************)
(* Handlers of the main loop.                                              *)
(***************************************************************************)

\* Bug: it is left to the windows to take their grabs with them.
DeactivatedWithoutRelease ==
    /\ InLoop
    /\ manager.active
    /\ manager' = ManagerSetActive(manager, FALSE, FALSE, monitors)
    /\ grabs' = Destroyed(grabs, manager.windows)
    /\ UNCHANGED <<monitors, pointer, call>>

\* gs_manager_deactivate: everything is released, then the windows go.
Deactivated ==
    /\ InLoop
    /\ manager.active
    /\ manager' = ManagerSetActive(manager, FALSE, FALSE, monitors)
    /\ grabs' = Destroyed(Release(Release(grabs, "pointer"), "keyboard"),
                          manager.windows)
    /\ UNCHANGED <<monitors, pointer, call>>

\* Bug: the handler of a destroyed window is still connected.
MapEventLate(w) ==
    /\ InLoop
    /\ w \notin manager.mapped
    /\ manager.active
    /\ manager' = WindowMapped(manager, w)
    /\ UNCHANGED <<monitors, pointer, grabs, call>>

\* window_map_event_cb with manager_maybe_grab_window, which enters
\* gs_grab_move_to_window for the window under the pointer.
MapEvent(w) ==
    /\ InLoop
    /\ w \in manager.windows \ manager.mapped
    /\ manager' = WindowMapped(manager, w)
    /\ call' = IF pointer = w
               THEN [call EXCEPT !.at = "moveKeyboard", !.window = w]
               ELSE call
    /\ UNCHANGED <<monitors, pointer, grabs>>

\* Bug: without an old grab there is nothing to move.
MoveKeyboardOnRecord ==
    /\ call.at = "moveKeyboard"
    /\ grabs.record["keyboard"] # None
    /\ grabs' = Move(grabs, "keyboard", call.window)
    /\ call' = IF Moves(grabs, "keyboard", call.window)
               THEN [call EXCEPT !.at = "movePointer"] ELSE call
    /\ UNCHANGED <<manager, monitors, pointer>>

\* One turn of the first loop of gs_grab_move_to_window.
MoveKeyboard ==
    /\ call.at = "moveKeyboard"
    /\ grabs' = Move(grabs, "keyboard", call.window)
    /\ call' = IF Moves(grabs, "keyboard", call.window)
               THEN [call EXCEPT !.at = "movePointer"] ELSE call
    /\ UNCHANGED <<manager, monitors, pointer>>

\* One turn of the second.
MovePointer ==
    /\ call.at = "movePointer"
    /\ grabs' = Move(grabs, "pointer", call.window)
    /\ call' = IF Moves(grabs, "pointer", call.window) THEN Loop ELSE call
    /\ UNCHANGED <<manager, monitors, pointer>>

\* window_grab_broken_cb.
GrabBroken(w, d) ==
    /\ InLoop
    /\ <<w, d>> \in grabs.broken
    /\ grabs' = [Reset(grabs, d) EXCEPT !.broken = @ \ {<<w, d>>}]
    /\ UNCHANGED <<manager, monitors, pointer, call>>

\* on_screen_monitors_changed, connected while there are windows.  A pointer
\* that was on a monitor that is gone is on one that stays.
MonitorsChanged(n) ==
    /\ InLoop
    /\ n # monitors
    /\ monitors' = n
    /\ manager' = IF manager.windows = {} THEN manager ELSE Resized(manager, n)
    /\ grabs' = Destroyed(grabs, manager.windows \ manager'.windows)
    /\ pointer' \in IF pointer < n THEN {pointer} ELSE FirstMonitors(n)
    /\ UNCHANGED call

\* The calls and timers of GSManager that touch neither grabs nor windows.
OtherCall ==
    /\ InLoop
    /\ \/ \E b \in BOOLEAN : \/ manager' = ManagerSetSessionVisible(manager, b)
                             \/ manager' = ManagerSetBlankScreen(manager, b)
                             \/ manager' = ManagerSetLidClosed(manager, b)
       \/ \E a \in LockAfterValues : manager' = ManagerSetLockAfter(manager, a)
       \/ manager' = ManagerShowContent(manager)
       \/ manager.greeterTimer /\ manager' = SwitchGreeterFired(manager)
       \/ manager.lockTimer /\ manager' = LockFired(manager)
    /\ UNCHANGED <<monitors, pointer, grabs, call>>

-----------------------------------------------------------------------------
(***************************************************************************)
(* The other clients and the user, at any moment.                          *)
(***************************************************************************)

RivalGrabs(r, d) ==
    /\ grabs.server[d] = None
    /\ grabs' = [grabs EXCEPT !.server[d] = r]
    /\ UNCHANGED <<manager, monitors, pointer, call>>

RivalReleases(r, d) ==
    /\ grabs.server[d] = r
    /\ grabs' = [grabs EXCEPT !.server[d] = None]
    /\ UNCHANGED <<manager, monitors, pointer, call>>

PointerMoves(m) ==
    /\ m # pointer
    /\ pointer' = m
    /\ UNCHANGED <<manager, monitors, grabs, call>>

Init ==
    /\ GSM!Init
    /\ pointer \in FirstMonitors(monitors)
    /\ grabs \in { [server |-> s, record |-> [d \in Devices |-> None],
                    broken |-> {}] : s \in [Devices -> Rivals \cup {None}] }
    /\ call = Loop

Next ==
    \/ BeginActivate \/ TryKeyboard \/ TryPointer
    \/ Deactivated
    \/ \E w \in Monitors : MapEvent(w)
    \/ MoveKeyboard \/ MovePointer
    \/ \E w \in Monitors, d \in Devices : GrabBroken(w, d)
    \/ \E n \in 1 .. MaxMonitors : MonitorsChanged(n)
    \/ OtherCall
    \/ \E r \in Rivals, d \in Devices : RivalGrabs(r, d) \/ RivalReleases(r, d)
    \/ \E m \in FirstMonitors(monitors) : PointerMoves(m)

Spec == Init /\ [][Next]_vars

\* A call in progress goes on.
Fairness ==
    /\ WF_vars(TryKeyboard)
    /\ WF_vars(TryPointer)
    /\ WF_vars(MoveKeyboard)
    /\ WF_vars(MovePointer)

FairSpec == Spec /\ Fairness

-----------------------------------------------------------------------------
(***************************************************************************)
(* Properties.                                                             *)
(***************************************************************************)

TypeOK ==
    /\ manager \in Manager
    /\ monitors \in 1 .. MaxMonitors
    /\ pointer \in FirstMonitors(monitors)
    /\ grabs \in Grabs
    /\ call \in Call

\* While handlers run, the two devices are held on one and the same window or
\* neither is held, whatever other clients did between the tries, whichever
\* try failed and whichever window was destroyed: the user is never left with
\* a keyboard that works and a pointer that does not (gs-grab-x11.c:583-597,
\* gs-manager.c:278-300).
HeldTogether ==
    /\ InLoop
    /\ \E d \in Devices : grabs.server[d] \in Ours
    => grabs.server["keyboard"] = grabs.server["pointer"]

\* An unlocked session keeps no grab behind: neither after an activation that
\* failed halfway nor after one that was undone (gs-grab-x11.c:585-597,
\* gs-manager.c:553).
UnlockedIsFree ==
    InLoop /\ ~manager.active => \A d \in Devices : grabs.server[d] \notin Ours

\* A window GSGrab has on record holds the device and exists, although the
\* record is written by calls, broken grabs and weak pointers at different
\* times: gs_grab_move_keyboard takes the record's word for it and skips the
\* grab (gs-grab-x11.c:409).
RecordTrusted ==
    \A d \in Devices :
        grabs.record[d] # None =>
            /\ grabs.server[d] = grabs.record[d]
            /\ grabs.record[d] \in manager.windows \cup {Root}

\* A session becomes locked only when nobody else holds either device.
LockedOnlyWithBoth ==
    [][ ~manager.active /\ manager'.active
        => \A d \in Devices : grabs'.server[d] = Root ]_vars

\* While the session is locked a device is lost only with the window that
\* holds it: moving a grab from window to window never lets another client in
\* between (gs-grab-x11.c:371-394).
LostOnlyWithWindow ==
    [][ \A d \in Devices :
            /\ manager.active
            /\ manager'.active
            /\ grabs.server[d] \in Ours
            /\ grabs'.server[d] \notin Ours
            => grabs.server[d] \in manager.windows \ manager'.windows ]_vars

\* gs_manager_set_active answers, however long others hold the devices: the
\* tries are counted (gs-grab-x11.c:535-567).
ActivationAnswers ==
    call.at \in {"keyboard", "pointer"} ~> InLoop

\* gs_grab_move_to_window, which counts nothing, still gives the main loop back
\* if the other clients let go for good (gs-grab-x11.c:660-668).
MoveEnds ==
    <>[](\A d \in Devices : grabs.server[d] \notin Rivals) => []<>InLoop

\* With its tries hidden, the locking done here is GSManager's.
ImplementsGSManager == GSM!Spec

=============================================================================
