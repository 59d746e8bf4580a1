---------------------------- MODULE GSGrabProofs ----------------------------
(***************************************************************************)
(* The grabs of a session, against any number of other clients, monitors   *)
(* and tries; and that GSManager's own specification is implemented.       *)
(***************************************************************************)
EXTENDS GSGrab, GSManagerOpsProofs

-----------------------------------------------------------------------------
(***************************************************************************)
(* The inductive invariant.                                                *)
(***************************************************************************)

\* A grab of ours is on a window that exists.
HolderExists ==
    \A d \in Devices :
        grabs.server[d] \in Ours => grabs.server[d] \in manager.windows \cup {Root}

\* Both devices are on one window of ours, or neither is on any.
Together ==
    (\E d \in Devices : grabs.server[d] \in Ours)
        => grabs.server["keyboard"] = grabs.server["pointer"]

Free(d) == grabs.server[d] \notin Ours

\* What the call in progress has achieved so far.
InCall ==
    /\ call.at = "loop" =>
           /\ call = Loop
           /\ Together
           /\ ~manager.active => Free("keyboard") /\ Free("pointer")
    /\ call.at = "keyboard" =>
           /\ ~manager.active /\ call.missed < Retries /\ ~call.keyboardGot
           /\ Free("keyboard") /\ Free("pointer")
    /\ call.at = "pointer" =>
           /\ ~manager.active /\ call.missed < Retries
           /\ call.keyboardGot => grabs.server["keyboard"] = Root
           /\ ~call.keyboardGot => Free("keyboard")
           /\ Free("pointer")
    /\ call.at = "moveKeyboard" =>
           manager.active /\ call.window \in manager.windows /\ Together
    /\ call.at = "movePointer" =>
           /\ manager.active /\ call.window \in manager.windows
           /\ grabs.server["keyboard"] = call.window

Typed ==
    /\ monitors \in 1 .. MaxMonitors
    /\ Sound(manager, monitors)
    /\ pointer \in FirstMonitors(monitors)
    /\ grabs \in Grabs
    /\ call \in Call

IInv == Typed /\ RecordTrusted /\ HolderExists /\ InCall

-----------------------------------------------------------------------------
(***************************************************************************)
(* GSGrab's functions on a single record.                                  *)
(***************************************************************************)

\* What the functions keep of the type, and what they leave of the record.
LEMMA GetTyped ==
    ASSUME NEW g \in Grabs, NEW d \in Devices, NEW w \in Ours
    PROVE  /\ Get(g, d, w) \in Grabs
           /\ Get(g, d, w).server[d] = w /\ Get(g, d, w).record[d] = w
           /\ \A e \in Devices \ {d} : /\ Get(g, d, w).server[e] = g.server[e]
                                       /\ Get(g, d, w).record[e] = g.record[e]
           /\ Get(g, d, w).broken = g.broken
BY DEF Get, Grabs

LEMMA ReleaseTyped ==
    ASSUME NEW g \in Grabs, NEW d \in Devices
    PROVE  /\ Release(g, d) \in Grabs
           /\ Release(g, d).server[d] =
                  IF g.server[d] \in Ours THEN None ELSE g.server[d]
           /\ Release(g, d).record[d] = None
           /\ \A e \in Devices \ {d} : /\ Release(g, d).server[e] = g.server[e]
                                       /\ Release(g, d).record[e] = g.record[e]
           /\ Release(g, d).broken = g.broken
BY DEF Release, Reset, Grabs

LEMMA ResetTyped ==
    ASSUME NEW g \in Grabs, NEW d \in Devices
    PROVE  /\ Reset(g, d) \in Grabs
           /\ Reset(g, d).server = g.server
           /\ Reset(g, d).record[d] = None
           /\ \A e \in Devices \ {d} : Reset(g, d).record[e] = g.record[e]
           /\ Reset(g, d).broken = g.broken
BY DEF Reset, Grabs

LEMMA DestroyedTyped ==
    ASSUME NEW g \in Grabs, NEW gone
    PROVE  /\ Destroyed(g, gone) \in Grabs
           /\ \A d \in Devices :
                 /\ Destroyed(g, gone).server[d] =
                        IF g.server[d] \in gone THEN None ELSE g.server[d]
                 /\ Destroyed(g, gone).record[d] =
                        IF g.record[d] \in gone THEN None ELSE g.record[d]
BY DEF Destroyed, Grabs

\* A move ends on the window exactly when it says so; otherwise the device is
\* another client's and nothing is on record.  The other device is untouched.
LEMMA MoveSound ==
    ASSUME GrabAssumption, NEW g \in Grabs, NEW d \in Devices, NEW w \in Monitors,
           g.record[d] # None => g.server[d] = g.record[d]
    PROVE  LET r == Move(g, d, w) IN
           /\ r \in Grabs
           /\ Moves(g, d, w) => r.server[d] = w
           /\ ~Moves(g, d, w) => /\ r.server[d] = g.server[d]
                                 /\ g.server[d] \in Rivals
           /\ r.record[d] \in {r.server[d], None}
           /\ \A e \in Devices \ {d} : /\ r.server[e] = g.server[e]
                                       /\ r.record[e] = g.record[e]
<1> DEFINE f == Freed(g, d)
<1>1. /\ f \in Grabs
      /\ f.server[d] = g.server[d] \/ f.server[d] = None
      /\ \A e \in Devices \ {d} : /\ f.server[e] = g.server[e]
                                  /\ f.record[e] = g.record[e]
      /\ g.server[d] \in Rivals <=> f.server[d] \in Rivals
  BY ReleaseTyped DEF Freed, Seen, GrabAssumption, Ours, Grabs
<1>2. w \in Ours /\ w # None
  BY DEF Ours, GrabAssumption
<1>3. CASE Seen(g, d).record[d] = w
  <2>1. g.record[d] = w
    BY <1>2, <1>3, ResetTyped DEF Seen
  <2>2. QED
    BY <1>2, <1>3, <2>1 DEF Move, Moves
<1>4. CASE Seen(g, d).record[d] # w /\ Available(f, d)
  <2> DEFINE h == Get(f, d, w)
             b == (({g.server[d]} \cap Monitors) \ {w}) \X {d}
  <2>1. h \in Grabs /\ h.server[d] = w /\ h.record[d] = w
        /\ \A e \in Devices \ {d} : /\ h.server[e] = g.server[e]
                                    /\ h.record[e] = g.record[e]
    BY <1>1, <1>2, GetTyped
  <2>2. Move(g, d, w) = [h EXCEPT !.broken = @ \cup b]
    BY <1>4 DEF Move
  <2>3. Moves(g, d, w)
    BY <1>4 DEF Moves
  <2>4. b \subseteq Monitors \X Devices
    OBVIOUS
  <2> HIDE DEF h, b
  <2>5. [h EXCEPT !.broken = @ \cup b] \in Grabs
    BY <2>1, <2>4 DEF Grabs
  <2>6. /\ [h EXCEPT !.broken = @ \cup b].server = h.server
        /\ [h EXCEPT !.broken = @ \cup b].record = h.record
    BY <2>1 DEF Grabs
  <2>7. QED
    BY <2>1, <2>2, <2>3, <2>5, <2>6
<1>5. CASE Seen(g, d).record[d] # w /\ ~Available(f, d)
  BY <1>1, <1>5, ResetTyped DEF Move, Moves, Available
<1>6. QED
  BY <1>3, <1>4, <1>5


LEMMA ZeroTries == GrabAssumption => 0 \in 0 .. Retries /\ 0 < Retries
BY DEF GrabAssumption

\* The windows of a sound manager follow from `active' and the monitors.
LEMMA SoundWindows ==
    ASSUME ManagerAssumption, NEW n \in 1 .. MaxMonitors, NEW m, Sound(m, n)
    PROVE  /\ m.windows = IF m.active THEN FirstMonitors(n) ELSE {}
           /\ m.windows \subseteq Monitors
           /\ m \in Manager
BY MonitorsInRange DEF Sound, ManagerInv, WindowsOK

-----------------------------------------------------------------------------
(***************************************************************************)
(* Each action keeps the invariant.                                        *)
(***************************************************************************)

LEMMA InitSound == Init => IInv
<1> SUFFICES ASSUME Init
             PROVE  IInv
  OBVIOUS
<1> USE ManagerAssumption, GrabAssumption
<1>1. Typed
  BY NewManagerSound DEF Init, GSM!Init, GSM!NewManager, NewManager, Typed, Grabs,
     Call, Loop
<1>2. \A d \in Devices : grabs.record[d] = None /\ Free(d)
  BY DEF Init, Free, Ours
<1>3. call = Loop
  BY DEF Init
<1>4. QED
  BY <1>1, <1>2, <1>3 DEF IInv, RecordTrusted, HolderExists, InCall, Together,
     Free, Loop, Devices

LEMMA BeginActivateSound == IInv /\ BeginActivate => IInv'
<1> SUFFICES ASSUME IInv, BeginActivate
             PROVE  IInv'
  OBVIOUS
<1> USE DEF BeginActivate, IInv, InLoop
<1>1. Typed'
  BY DEF Typed, Call
<1>2. InCall'
  BY GrabAssumption DEF InCall, Free, Typed, Call, Loop
<1>3. QED
  BY <1>1, <1>2 DEF RecordTrusted, HolderExists

LEMMA TryKeyboardSound == IInv /\ TryKeyboard => IInv'
<1> SUFFICES ASSUME IInv, TryKeyboard
             PROVE  IInv'
  OBVIOUS
<1> USE GrabAssumption DEF IInv
<1>0. /\ ~manager.active /\ call.missed < Retries /\ ~call.keyboardGot
      /\ Free("keyboard") /\ Free("pointer")
  BY DEF InCall, TryKeyboard
<1>1. CASE Available(grabs, "keyboard")
  <2>1. /\ grabs' = Get(grabs, "keyboard", Root)
        /\ call' = [call EXCEPT !.at = "pointer", !.missed = 0,
                                !.keyboardGot = TRUE]
        /\ UNCHANGED <<manager, monitors, pointer>>
    BY <1>1 DEF TryKeyboard
  <2>2. Root \in Ours /\ "keyboard" \in Devices /\ "pointer" \in Devices
    BY DEF Ours, Devices
  <2>3. /\ grabs' \in Grabs
        /\ grabs'.server["keyboard"] = Root /\ grabs'.record["keyboard"] = Root
        /\ grabs'.server["pointer"] = grabs.server["pointer"]
        /\ grabs'.record["pointer"] = grabs.record["pointer"]
    BY <2>1, <2>2, GetTyped DEF Typed
  <2>4. Typed'
    <3>1. call' \in Call
      BY <2>1, ZeroTries DEF Typed, Call
    <3>2. QED
      BY <2>1, <2>3, <3>1 DEF Typed
  <2>5. InCall'
    BY <1>0, <2>1, <2>3 DEF InCall, Free, Typed, Call
  <2>6. QED
    BY <2>1, <2>3, <2>4, <2>5 DEF RecordTrusted, HolderExists, Devices
<1>2. CASE ~Available(grabs, "keyboard")
  <2>1. call' = KeyboardMissed /\ UNCHANGED <<manager, monitors, pointer, grabs>>
    BY <1>2 DEF TryKeyboard
  <2>2. call \in Call /\ call.at = "keyboard"
    BY DEF Typed, TryKeyboard
  <2>3. call' \in Call /\ call'.missed < Retries
        /\ call'.keyboardGot = call.keyboardGot /\ call'.at \in {"keyboard", "pointer"}
    <3>1. CASE call.missed + 1 < Retries
      <4>1. call' = [call EXCEPT !.missed = @ + 1]
        BY <2>1, <3>1 DEF KeyboardMissed
      <4>2. QED
        BY <1>0, <2>2, <3>1, <4>1 DEF Call
    <3>2. CASE ~(call.missed + 1 < Retries)
      <4>1. CASE ~call.nuked
        <5>1. call' = [call EXCEPT !.missed = 0, !.nuked = TRUE]
          BY <2>1, <3>2, <4>1 DEF KeyboardMissed
        <5>2. QED
          BY <1>0, <2>2, <5>1, ZeroTries DEF Call
      <4>2. CASE call.nuked
        <5>1. call' = [call EXCEPT !.missed = 0, !.at = "pointer"]
          BY <2>1, <3>2, <4>2 DEF KeyboardMissed
        <5>2. QED
          BY <1>0, <2>2, <5>1, ZeroTries DEF Call
      <4>3. QED
        BY <4>1, <4>2
    <3>3. QED
      BY <3>1, <3>2
  <2>4. InCall'
    BY <1>0, <2>1, <2>3 DEF InCall, Free
  <2>5. QED
    BY <2>1, <2>3, <2>4 DEF Typed, RecordTrusted, HolderExists
<1>3. QED
  BY <1>1, <1>2

\* The tries end one way or the other: with both devices on the root window
\* and the session locked, or with neither and nothing changed.
LEMMA ReturnSound ==
    ASSUME IInv, call.at = "pointer", NEW g \in Grabs, NEW k \in BOOLEAN,
           NEW p \in BOOLEAN, Return(g, k, p), UNCHANGED <<monitors, pointer>>,
           \A d \in Devices : g.record[d] # None =>
               g.server[d] = g.record[d] /\ g.record[d] = Root,
           \A d \in Devices : g.server[d] \in Ours => g.server[d] = Root,
           k <=> g.server["keyboard"] = Root,
           p <=> g.server["pointer"] = Root
    PROVE  IInv'
<1> USE ManagerAssumption, GrabAssumption
<1> DEFINE grabbed == k /\ p
           u == Release(g, "keyboard")
<1>1. manager' = Activate(manager, grabbed, monitors) /\ call' = Loop
  BY DEF Return, ManagerSetActive
<1>2. ~manager.active /\ manager \in Manager /\ monitors \in 1 .. MaxMonitors
      /\ Sound(manager, monitors)
  BY SoundWindows DEF IInv, InCall, Typed
<1>3. Sound(manager', monitors) /\ (manager'.active <=> grabbed)
  BY <1>1, <1>2, ActivateSound
<1>4. "keyboard" \in Devices /\ "pointer" \in Devices
  BY DEF Devices
<1>5. /\ grabs' \in Grabs
      /\ \A d \in Devices :
            /\ grabs'.server[d] \in Ours => grabbed /\ grabs'.server[d] = Root
            /\ grabbed => grabs'.server[d] = Root
            /\ grabs'.record[d] # None => grabs'.server[d] = grabs'.record[d]
                                          /\ grabs'.record[d] = Root
  <2>1. CASE grabbed
    BY <2>1 DEF Return, Devices
  <2>2. CASE ~grabbed
    <3>1. grabs' = Unwound(g, k, p)
      BY <2>2 DEF Return
    <3>2. None \notin Ours
      BY DEF Ours
    <3>3. CASE k /\ ~p
      <4>1. grabs' = u
        BY <3>1, <3>3 DEF Unwound
      <4>2. QED
        BY <2>2, <3>2, <3>3, <4>1, <1>4, ReleaseTyped DEF Devices
    <3>4. CASE ~k /\ p
      <4>1. grabs' = Release(g, "pointer")
        BY <3>1, <3>4 DEF Unwound
      <4>2. /\ grabs' \in Grabs
            /\ grabs'.server["keyboard"] = g.server["keyboard"]
            /\ grabs'.record["keyboard"] = g.record["keyboard"]
            /\ grabs'.server["pointer"] = None /\ grabs'.record["pointer"] = None
        BY <4>1, <1>4, <3>4, ReleaseTyped DEF Devices, Ours
      <4>3. g.server["keyboard"] \notin Ours /\ g.record["keyboard"] = None
        BY <1>4, <3>4
      <4>4. QED
        BY <2>2, <3>2, <4>2, <4>3 DEF Devices
    <3>5. CASE ~k /\ ~p
      BY <2>2, <3>1, <3>5 DEF Unwound, Devices
    <3>6. QED
      BY <2>2, <3>3, <3>4, <3>5
  <2>3. QED
    BY <2>1, <2>2
<1>6. Typed'
  BY <1>1, <1>3, <1>5 DEF IInv, Typed, Call, Loop
<1>7. InCall'
  BY <1>1, <1>3, <1>4, <1>5 DEF InCall, Loop, Together, Free
<1>8. QED
  BY <1>5, <1>6, <1>7 DEF IInv, RecordTrusted, HolderExists

LEMMA TryPointerSound == IInv /\ TryPointer => IInv'
<1> SUFFICES ASSUME IInv, TryPointer
             PROVE  IInv'
  OBVIOUS
<1> USE ManagerAssumption, GrabAssumption
<1>1. /\ call.at = "pointer" /\ call.missed < Retries
      /\ ~manager.active /\ manager.windows = {}
      /\ call.keyboardGot <=> grabs.server["keyboard"] = Root
      /\ Free("pointer")
      /\ grabs \in Grabs /\ call \in Call
      /\ UNCHANGED <<monitors, pointer>>
  BY SoundWindows DEF IInv, InCall, TryPointer, Typed, Free, Ours
<1>2. "keyboard" \in Devices /\ "pointer" \in Devices /\ Root \in Ours
  BY DEF Devices, Ours
<1>3. \A d \in Devices :
         /\ grabs.server[d] \in Ours => grabs.server[d] = Root
         /\ grabs.record[d] # None => /\ grabs.server[d] = grabs.record[d]
                                      /\ grabs.record[d] = Root
  BY <1>1 DEF IInv, RecordTrusted, HolderExists
<1>4. CASE Available(grabs, "pointer")
  <2> DEFINE g == Get(grabs, "pointer", Root)
  <2>1. Return(g, call.keyboardGot, TRUE)
    BY <1>4 DEF TryPointer
  <2>2. /\ g \in Grabs
        /\ g.server["pointer"] = Root /\ g.record["pointer"] = Root
        /\ g.server["keyboard"] = grabs.server["keyboard"]
        /\ g.record["keyboard"] = grabs.record["keyboard"]
    BY <1>1, <1>2, GetTyped
  <2>3. call.keyboardGot \in BOOLEAN
    BY <1>1 DEF Call
  <2> HIDE DEF g
  <2>4. \A d \in Devices : /\ g.record[d] # None => g.server[d] = g.record[d]
                                                     /\ g.record[d] = Root
                           /\ g.server[d] \in Ours => g.server[d] = Root
    BY <1>3, <2>2 DEF Devices
  <2>5. QED
    BY <1>1, <2>1, <2>2, <2>3, <2>4, ReturnSound
<1>5. CASE ~Available(grabs, "pointer") /\ call.missed + 1 = Retries
  <2>0. ~(call.missed + 1 < Retries)
    BY <1>5
  <2>1. Return(grabs, call.keyboardGot, FALSE)
    BY <1>5, <2>0, Zenon DEF TryPointer
  <2>2. grabs.server["pointer"] # Root
    BY <1>1 DEF Free, Ours
  <2>3. QED
    BY <1>1, <1>3, <2>1, <2>2, ReturnSound DEF Call
<1>6. CASE ~Available(grabs, "pointer") /\ call.missed + 1 # Retries
  <2>1. /\ call' = [call EXCEPT !.missed = @ + 1] /\ call.missed + 1 < Retries
        /\ UNCHANGED <<manager, monitors, pointer, grabs>>
    BY <1>6 DEF TryPointer
  <2>2. /\ call' \in Call /\ call'.at = "pointer" /\ call'.missed < Retries
        /\ call'.keyboardGot = call.keyboardGot
    BY <1>1, <2>1 DEF Call
  <2>3. InCall'
    BY <1>1, <2>1, <2>2 DEF IInv, InCall, Free
  <2>4. QED
    BY <2>1, <2>2, <2>3 DEF IInv, Typed, RecordTrusted, HolderExists
<1>7. QED
  BY <1>4, <1>5, <1>6

LEMMA DeactivatedSound == IInv /\ Deactivated => IInv'
<1> SUFFICES ASSUME IInv, Deactivated
             PROVE  IInv'
  OBVIOUS
<1> USE ManagerAssumption, GrabAssumption
<1> DEFINE r == Release(Release(grabs, "pointer"), "keyboard")
<1>1. /\ Sound(manager, monitors) /\ monitors \in 1 .. MaxMonitors
      /\ grabs \in Grabs
      /\ manager' = Deactivate(manager)
      /\ grabs' = Destroyed(r, manager.windows)
      /\ call = Loop
      /\ UNCHANGED <<monitors, pointer, call>>
  BY DEF IInv, Typed, Deactivated, ManagerSetActive, InCall, InLoop
<1>2. Sound(manager', monitors) /\ ~manager'.active
  BY <1>1, DeactivateSound
<1>3. /\ r \in Grabs
      /\ \A d \in Devices : r.server[d] \notin Ours /\ r.record[d] = None
  <2>1. "keyboard" \in Devices /\ "pointer" \in Devices /\ None \notin Ours
    BY DEF Devices, Ours
  <2> DEFINE q == Release(grabs, "pointer")
  <2>2. /\ q \in Grabs /\ q.server["pointer"] \notin Ours
        /\ q.record["pointer"] = None
    BY <1>1, <2>1, ReleaseTyped
  <2> HIDE DEF q
  <2>3. /\ Release(q, "keyboard") \in Grabs
        /\ Release(q, "keyboard").server["keyboard"] \notin Ours
        /\ Release(q, "keyboard").record["keyboard"] = None
        /\ Release(q, "keyboard").server["pointer"] = q.server["pointer"]
        /\ Release(q, "keyboard").record["pointer"] = q.record["pointer"]
    BY <2>1, <2>2, ReleaseTyped DEF Devices
  <2>4. QED
    BY <2>2, <2>3 DEF Devices, q
<1> HIDE DEF r
<1>4. /\ grabs' \in Grabs
      /\ \A d \in Devices : grabs'.server[d] \notin Ours /\ grabs'.record[d] = None
  BY <1>1, <1>3, DestroyedTyped DEF Ours
<1>5. Typed'
  BY <1>1, <1>2, <1>4 DEF IInv, Typed
<1>6. InCall'
  BY <1>1, <1>4 DEF InCall, Loop, Together, Free, Devices
<1>7. QED
  BY <1>4, <1>5, <1>6 DEF IInv, RecordTrusted, HolderExists

\* A call that keeps `active' leaves the windows alone, and so all that is
\* said of the grabs.
LEMMA OtherSound ==
    ASSUME IInv, Sound(manager', monitors), manager'.active = manager.active,
           UNCHANGED <<monitors, pointer, grabs, call>>
    PROVE  IInv'
<1>1. manager'.windows = manager.windows
  BY ManagerAssumption, SoundWindows DEF IInv, Typed
<1>2. QED
  BY <1>1 DEF IInv, Typed, RecordTrusted, HolderExists, InCall, Together, Free

LEMMA MapEventSound ==
    ASSUME IInv, NEW w \in Monitors, MapEvent(w)
    PROVE  IInv'
<1> USE ManagerAssumption, GrabAssumption
<1>1. /\ Sound(manager, monitors) /\ monitors \in 1 .. MaxMonitors
      /\ w \in manager.windows /\ manager' = WindowMapped(manager, w)
      /\ call = Loop /\ call \in Call /\ Together
      /\ UNCHANGED <<monitors, pointer, grabs>>
  BY DEF IInv, Typed, InCall, MapEvent, InLoop
<1>2. /\ Sound(manager', monitors) /\ manager'.active = manager.active
      /\ manager'.windows = manager.windows
  BY <1>1, QuietOperations, SoundWindows DEF Quiet
<1>3. manager.active
  BY <1>1, SoundWindows
<1>4. CASE pointer = w
  <2>1. call' = [call EXCEPT !.at = "moveKeyboard", !.window = w]
    BY <1>4 DEF MapEvent
  <2>2. call' \in Call /\ call'.at = "moveKeyboard" /\ call'.window = w
    BY <1>1, <2>1 DEF Call
  <2>3. Typed' /\ InCall'
    BY <1>1, <1>2, <1>3, <2>2 DEF IInv, Typed, InCall, Together
  <2>4. QED
    BY <1>1, <1>2, <2>3 DEF IInv, RecordTrusted, HolderExists
<1>5. CASE pointer # w
  <2>1. UNCHANGED call
    BY <1>5 DEF MapEvent
  <2>2. Typed' /\ InCall'
    BY <1>1, <1>2, <2>1 DEF IInv, Typed, InCall, Together, Loop, Free
  <2>3. QED
    BY <1>1, <1>2, <2>2 DEF IInv, RecordTrusted, HolderExists
<1>6. QED
  BY <1>4, <1>5

LEMMA MoveKeyboardSound == IInv /\ MoveKeyboard => IInv'
<1> SUFFICES ASSUME IInv, MoveKeyboard
             PROVE  IInv'
  OBVIOUS
<1> USE ManagerAssumption, GrabAssumption
<1> DEFINE w == call.window
<1>1. /\ Sound(manager, monitors) /\ monitors \in 1 .. MaxMonitors
      /\ grabs \in Grabs /\ call \in Call /\ call.at = "moveKeyboard"
      /\ manager.active /\ w \in manager.windows /\ w \in Monitors
      /\ Together
      /\ grabs' = Move(grabs, "keyboard", w)
      /\ UNCHANGED <<manager, monitors, pointer>>
  BY SoundWindows DEF IInv, Typed, InCall, MoveKeyboard
<1>2. "keyboard" \in Devices /\ "pointer" \in Devices /\ w \in Ours
      /\ \A r \in Rivals : r \notin Ours
  BY <1>1 DEF Devices, Ours
<1>3. /\ grabs' \in Grabs
      /\ Moves(grabs, "keyboard", w) => grabs'.server["keyboard"] = w
      /\ ~Moves(grabs, "keyboard", w) =>
             /\ grabs'.server["keyboard"] = grabs.server["keyboard"]
             /\ grabs.server["keyboard"] \in Rivals
      /\ grabs'.record["keyboard"] \in {grabs'.server["keyboard"], None}
      /\ grabs'.server["pointer"] = grabs.server["pointer"]
      /\ grabs'.record["pointer"] = grabs.record["pointer"]
  BY <1>1, <1>2, MoveSound DEF IInv, RecordTrusted, Devices
<1> HIDE DEF w
<1>4. \A d \in Devices :
         grabs'.server[d] \in Ours => grabs'.server[d] \in manager.windows \cup {Root}
  BY <1>1, <1>2, <1>3 DEF IInv, HolderExists, Devices
<1>5. \A d \in Devices : grabs'.record[d] # None => grabs'.server[d] = grabs'.record[d]
  BY <1>3 DEF IInv, RecordTrusted, Devices
<1>6. RecordTrusted'
  <2>1. \A d \in Devices : grabs'.record[d] # None => grabs'.record[d] \in Ours
    BY <1>3 DEF Grabs
  <2>2. QED
    BY <1>1, <1>4, <1>5, <2>1 DEF RecordTrusted
<1>7. CASE Moves(grabs, "keyboard", w)
  <2>1. call' = [call EXCEPT !.at = "movePointer"]
    BY <1>7 DEF MoveKeyboard, w
  <2>2. call' \in Call /\ call'.at = "movePointer" /\ call'.window = w
    BY <1>1, <2>1 DEF Call, w
  <2>3. Typed' /\ InCall'
    BY <1>1, <1>3, <1>7, <2>2 DEF IInv, Typed, InCall
  <2>4. QED
    BY <1>1, <1>4, <1>6, <2>3 DEF IInv, HolderExists
<1>8. CASE ~Moves(grabs, "keyboard", w)
  <2>1. UNCHANGED call
    BY <1>8 DEF MoveKeyboard, w
  <2>2. Together'
    BY <1>1, <1>2, <1>3, <1>8 DEF Together, Devices
  <2>3. Typed' /\ InCall'
    BY <1>1, <1>3, <2>1, <2>2 DEF IInv, Typed, InCall, w
  <2>4. QED
    BY <1>1, <1>4, <1>6, <2>3 DEF IInv, HolderExists
<1>9. QED
  BY <1>7, <1>8

LEMMA MovePointerSound == IInv /\ MovePointer => IInv'
<1> SUFFICES ASSUME IInv, MovePointer
             PROVE  IInv'
  OBVIOUS
<1> USE ManagerAssumption, GrabAssumption
<1> DEFINE w == call.window
<1>1. /\ Sound(manager, monitors) /\ monitors \in 1 .. MaxMonitors
      /\ grabs \in Grabs /\ call \in Call /\ call.at = "movePointer"
      /\ manager.active /\ w \in manager.windows /\ w \in Monitors
      /\ grabs.server["keyboard"] = w
      /\ grabs' = Move(grabs, "pointer", w)
      /\ UNCHANGED <<manager, monitors, pointer>>
  BY SoundWindows DEF IInv, Typed, InCall, MovePointer
<1>2. "keyboard" \in Devices /\ "pointer" \in Devices /\ w \in Ours
      /\ \A r \in Rivals : r \notin Ours
  BY <1>1 DEF Devices, Ours
<1>3. /\ grabs' \in Grabs
      /\ Moves(grabs, "pointer", w) => grabs'.server["pointer"] = w
      /\ ~Moves(grabs, "pointer", w) =>
             /\ grabs'.server["pointer"] = grabs.server["pointer"]
             /\ grabs.server["pointer"] \in Rivals
      /\ grabs'.record["pointer"] \in {grabs'.server["pointer"], None}
      /\ grabs'.server["keyboard"] = w
      /\ grabs'.record["keyboard"] = grabs.record["keyboard"]
  BY <1>1, <1>2, MoveSound DEF IInv, RecordTrusted, Devices
<1> HIDE DEF w
<1>4. \A d \in Devices :
         grabs'.server[d] \in Ours => grabs'.server[d] \in manager.windows \cup {Root}
  BY <1>1, <1>2, <1>3 DEF IInv, HolderExists, Devices
<1>5. \A d \in Devices : grabs'.record[d] # None => grabs'.server[d] = grabs'.record[d]
  BY <1>1, <1>3 DEF IInv, RecordTrusted, Devices
<1>6. RecordTrusted'
  <2>1. \A d \in Devices : grabs'.record[d] # None => grabs'.record[d] \in Ours
    BY <1>3 DEF Grabs
  <2>2. QED
    BY <1>1, <1>4, <1>5, <2>1 DEF RecordTrusted
<1>7. CASE Moves(grabs, "pointer", w)
  <2>1. call' = Loop
    BY <1>7 DEF MovePointer, w
  <2>2. call' \in Call
    BY <2>1, ZeroTries DEF Call, Loop
  <2>3. Together'
    BY <1>3, <1>7 DEF Together
  <2>4. Typed' /\ InCall'
    BY <1>1, <1>3, <2>1, <2>2, <2>3 DEF IInv, Typed, InCall, Loop
  <2>5. QED
    BY <1>1, <1>4, <1>6, <2>4 DEF IInv, HolderExists
<1>8. CASE ~Moves(grabs, "pointer", w)
  <2>1. UNCHANGED call
    BY <1>8 DEF MovePointer, w
  <2>2. Typed' /\ InCall'
    BY <1>1, <1>3, <2>1 DEF IInv, Typed, InCall, w
  <2>3. QED
    BY <1>1, <1>4, <1>6, <2>2 DEF IInv, HolderExists
<1>9. QED
  BY <1>7, <1>8

LEMMA GrabBrokenSound ==
    ASSUME IInv, NEW w \in Monitors, NEW d \in Devices, GrabBroken(w, d)
    PROVE  IInv'
<1> DEFINE r == Reset(grabs, d)
<1>1. /\ grabs \in Grabs /\ grabs' = [r EXCEPT !.broken = @ \ {<<w, d>>}]
      /\ UNCHANGED <<manager, monitors, pointer, call>>
  BY DEF IInv, Typed, GrabBroken
<1>2. /\ r \in Grabs /\ r.server = grabs.server
      /\ \A e \in Devices : r.record[e] \in {grabs.record[e], None}
  BY <1>1, ResetTyped DEF Devices
<1> HIDE DEF r
<1>3. /\ grabs' \in Grabs /\ grabs'.server = r.server /\ grabs'.record = r.record
  BY <1>1, <1>2 DEF Grabs
<1>4. QED
  BY <1>1, <1>2, <1>3 DEF IInv, Typed, RecordTrusted, HolderExists, InCall,
     Together, Free

LEMMA MonitorsChangedSound ==
    ASSUME IInv, NEW n \in 1 .. MaxMonitors, MonitorsChanged(n)
    PROVE  IInv'
<1> USE ManagerAssumption, GrabAssumption
<1> DEFINE gone == manager.windows \ manager'.windows
<1>1. /\ Sound(manager, monitors) /\ monitors \in 1 .. MaxMonitors
      /\ grabs \in Grabs /\ call = Loop /\ call \in Call /\ Together
      /\ ~manager.active => Free("keyboard") /\ Free("pointer")
      /\ monitors' = n /\ call' = call
      /\ grabs' = Destroyed(grabs, gone)
  BY DEF IInv, Typed, InCall, MonitorsChanged, InLoop
<1>2. Quiet(manager', manager, n)
  BY <1>1, ResizedSound, UnwatchedSound DEF MonitorsChanged
<1>3. Sound(manager', n) /\ manager'.active = manager.active
  BY <1>2 DEF Quiet
<1>4. pointer' \in FirstMonitors(n)
  BY DEF MonitorsChanged, IInv, Typed, FirstMonitors
<1>5. /\ grabs' \in Grabs
      /\ \A d \in Devices :
            /\ grabs'.server[d] =
                  IF grabs.server[d] \in gone THEN None ELSE grabs.server[d]
            /\ grabs'.record[d] =
                  IF grabs.record[d] \in gone THEN None ELSE grabs.record[d]
  BY <1>1, DestroyedTyped
<1>6. None \notin Ours /\ "keyboard" \in Devices /\ "pointer" \in Devices
      /\ Root \notin gone
  BY <1>1, SoundWindows DEF Ours, Devices
<1> HIDE DEF gone
<1>7. HolderExists'
  BY <1>5, <1>6 DEF IInv, HolderExists, gone
<1>8. RecordTrusted'
  BY <1>5, <1>6 DEF IInv, RecordTrusted, gone
<1>9. Together'
  BY <1>1, <1>5, <1>6 DEF Together, Devices
<1>10. InCall'
  BY <1>1, <1>3, <1>5, <1>6, <1>9 DEF InCall, Loop, Free
<1>11. QED
  BY <1>1, <1>3, <1>4, <1>5, <1>7, <1>8, <1>10 DEF IInv, Typed

LEMMA OtherCallSound == IInv /\ OtherCall => IInv'
<1> SUFFICES ASSUME IInv, OtherCall
             PROVE  IInv'
  OBVIOUS
<1>1. Sound(manager, monitors) /\ UNCHANGED <<monitors, pointer, grabs, call>>
  BY DEF IInv, Typed, OtherCall
<1>2. Sound(manager', monitors) /\ manager'.active = manager.active
  <2>1. ASSUME NEW b \in BOOLEAN,
               \/ manager' = ManagerSetSessionVisible(manager, b)
               \/ manager' = ManagerSetBlankScreen(manager, b)
               \/ manager' = ManagerSetLidClosed(manager, b)
        PROVE  Sound(manager', monitors) /\ manager'.active = manager.active
    BY <1>1, <2>1, SetSessionVisibleSound, SetBlankScreenSound, SetLidClosedSound
  <2>2. CASE \E a \in LockAfterValues : manager' = ManagerSetLockAfter(manager, a)
    BY <1>1, <2>2, QuietOperations DEF Quiet
  <2>3. CASE \/ manager' = ManagerShowContent(manager)
             \/ manager' = SwitchGreeterFired(manager)
             \/ manager' = LockFired(manager)
    BY <1>1, <2>3, QuietOperations DEF Quiet
  <2>4. QED
    BY <2>1, <2>2, <2>3 DEF OtherCall
<1>3. QED
  BY <1>1, <1>2, OtherSound

\* Another client takes a device nobody has, or gives up one it has: what we
\* hold and have on record stays.
LEMMA RivalSound ==
    ASSUME IInv, NEW r \in Rivals, NEW d \in Devices,
           RivalGrabs(r, d) \/ RivalReleases(r, d)
    PROVE  IInv'
<1> USE GrabAssumption
<1>1. /\ grabs \in Grabs
      /\ grabs.server[d] \in Rivals \cup {None}
      /\ UNCHANGED <<manager, monitors, pointer, call>>
  BY DEF IInv, Typed, RivalGrabs, RivalReleases
<1>2. PICK x \in Rivals \cup {None} : grabs' = [grabs EXCEPT !.server[d] = x]
  BY DEF RivalGrabs, RivalReleases
<1>3. /\ grabs' \in Grabs /\ grabs'.record = grabs.record
      /\ grabs'.server[d] = x
      /\ \A e \in Devices \ {d} : grabs'.server[e] = grabs.server[e]
  BY <1>1, <1>2 DEF Grabs
<1>4. /\ \A y \in Rivals \cup {None} : y \notin Ours
      /\ "keyboard" \in Devices /\ "pointer" \in Devices
  BY DEF Ours, Devices
<1>5. grabs.record[d] = None
  <2>1. grabs.record[d] \in Ours \cup {None}
    BY <1>1 DEF Grabs
  <2>2. QED
    BY <1>1, <1>4, <2>1 DEF IInv, RecordTrusted
<1>6. RecordTrusted' /\ HolderExists'
  BY <1>1, <1>3, <1>4, <1>5 DEF IInv, RecordTrusted, HolderExists
<1>7. \A e \in Devices :
         /\ grabs'.server[e] \in Ours <=> grabs.server[e] \in Ours
         /\ grabs.server[e] \in Ours => grabs'.server[e] = grabs.server[e]
  BY <1>1, <1>3, <1>4
<1>8. Together => Together'
  <2>1. SUFFICES ASSUME Together, NEW e \in Devices, grabs.server[e] \in Ours
                 PROVE  grabs'.server["keyboard"] = grabs'.server["pointer"]
    BY <1>7 DEF Together
  <2>2. QED
    BY <1>4, <1>7, <2>1 DEF Together, Devices
<1>9. manager.active => manager.windows \subseteq Ours
  BY ManagerAssumption, SoundWindows DEF IInv, Typed, Ours
<1>10. InCall'
  BY <1>1, <1>4, <1>7, <1>8, <1>9 DEF IInv, InCall, Free, Ours
<1>11. QED
  BY <1>1, <1>3, <1>6, <1>10 DEF IInv, Typed

LEMMA PointerMovesSound ==
    ASSUME IInv, NEW m \in FirstMonitors(monitors), PointerMoves(m)
    PROVE  IInv'
BY DEF PointerMoves, IInv, Typed, RecordTrusted, HolderExists, InCall, Together, Free

LEMMA NextSound == IInv /\ [Next]_vars => IInv'
<1> SUFFICES ASSUME IInv, [Next]_vars
             PROVE  IInv'
  OBVIOUS
<1>1. CASE BeginActivate \/ TryKeyboard \/ TryPointer
  BY <1>1, BeginActivateSound, TryKeyboardSound, TryPointerSound
<1>2. CASE Deactivated \/ MoveKeyboard \/ MovePointer \/ OtherCall
  BY <1>2, DeactivatedSound, MoveKeyboardSound, MovePointerSound, OtherCallSound
<1>3. CASE \E w \in Monitors : MapEvent(w)
  BY <1>3, MapEventSound
<1>4. CASE \E w \in Monitors, d \in Devices : GrabBroken(w, d)
  BY <1>4, GrabBrokenSound
<1>5. CASE \E n \in 1 .. MaxMonitors : MonitorsChanged(n)
  BY <1>5, MonitorsChangedSound
<1>6. CASE \E r \in Rivals, d \in Devices : RivalGrabs(r, d) \/ RivalReleases(r, d)
  BY <1>6, RivalSound
<1>7. CASE \E m \in FirstMonitors(monitors) : PointerMoves(m)
  BY <1>7, PointerMovesSound
<1>8. CASE UNCHANGED vars
  BY <1>8 DEF vars, IInv, Typed, RecordTrusted, HolderExists, InCall, Together, Free
<1>9. QED
  BY <1>1, <1>2, <1>3, <1>4, <1>5, <1>6, <1>7, <1>8 DEF Next

-----------------------------------------------------------------------------
(***************************************************************************)
(* The theorems.                                                           *)
(***************************************************************************)

\* The invariant holds whatever other clients, users and monitors do.
THEOREM AlwaysSound == Spec => []IInv
BY InitSound, NextSound, PTL DEF Spec

\* Devices, record and call stay well formed.
THEOREM TypeCorrect == Spec => []TypeOK
<1>1. IInv => TypeOK
  BY DEF IInv, Typed, Sound, TypeOK
<1>2. QED
  BY <1>1, AlwaysSound, PTL

\* While handlers run both devices are on one window of ours, or neither is.
THEOREM HeldTogetherAlways == Spec => []HeldTogether
<1>1. IInv => HeldTogether
  BY DEF IInv, InCall, InLoop, Together, HeldTogether
<1>2. QED
  BY <1>1, AlwaysSound, PTL

\* An unlocked session holds no device.
THEOREM UnlockedIsAlwaysFree == Spec => []UnlockedIsFree
<1>1. IInv => UnlockedIsFree
  BY DEF IInv, InCall, InLoop, Free, Devices, UnlockedIsFree
<1>2. QED
  BY <1>1, AlwaysSound, PTL

\* What GSGrab has on record, it holds.
THEOREM RecordIsTrusted == Spec => []RecordTrusted
<1>1. IInv => RecordTrusted
  BY DEF IInv
<1>2. QED
  BY <1>1, AlwaysSound, PTL

-----------------------------------------------------------------------------
(***************************************************************************)
(* Why a call ends: the steps behind ActivationAnswers and MoveEnds.       *)
(***************************************************************************)

\* The tries a call of gs_grab_grab_window has left, at most.
TriesLeft(c) ==
    IF c.at = "keyboard" /\ ~c.nuked THEN (Retries - c.missed) + (Retries + Retries)
    ELSE IF c.at = "keyboard" THEN (Retries - c.missed) + Retries
    ELSE IF c.at = "pointer" THEN Retries - c.missed
    ELSE 0

Trying == call.at \in {"keyboard", "pointer"}

\* Each try leaves fewer tries, and nobody else touches the call: with the tries
\* scheduled, gs_manager_set_active answers (gs-grab-x11.c:535-567).
TriesCounted ==
    [][ Trying => IF TryKeyboard \/ TryPointer
                  THEN TriesLeft(call') < TriesLeft(call)
                  ELSE call' = call ]_vars

\* A turn of gs_grab_move_to_window that no other client obstructs ends its
\* loop, whatever grabs and record were before (gs-grab-x11.c:660-668).
MovesUnlessHeld ==
    [][ /\ MoveKeyboard /\ Available(grabs, "keyboard") => call'.at = "movePointer"
        /\ MovePointer /\ Available(grabs, "pointer") => call' = Loop ]_vars

LEMMA KeyboardTried ==
    ASSUME IInv, TryKeyboard
    PROVE  TriesLeft(call') < TriesLeft(call)
<1> USE GrabAssumption
<1>1. /\ call \in Call /\ call.at = "keyboard" /\ call.missed < Retries
      /\ call.missed \in Nat /\ Retries \in Nat \ {0} /\ call.nuked \in BOOLEAN
  BY DEF IInv, Typed, InCall, TryKeyboard, Call
<1>2. CASE Available(grabs, "keyboard")
  <2>1. call'.at = "pointer" /\ call'.missed = 0
    BY <1>1, <1>2 DEF TryKeyboard, Call
  <2>2. QED
    BY <1>1, <2>1 DEF TriesLeft
<1>3. CASE ~Available(grabs, "keyboard")
  <2>1. call' = KeyboardMissed
    BY <1>3 DEF TryKeyboard
  <2>2. CASE call.missed + 1 < Retries
    <3>1. /\ call'.at = "keyboard" /\ call'.missed = call.missed + 1
          /\ call'.nuked = call.nuked
      BY <1>1, <2>1, <2>2 DEF KeyboardMissed, Call
    <3>2. QED
      BY <1>1, <3>1 DEF TriesLeft
  <2>3. CASE ~(call.missed + 1 < Retries) /\ ~call.nuked
    <3>1. call'.at = "keyboard" /\ call'.missed = 0 /\ call'.nuked
      BY <1>1, <2>1, <2>3 DEF KeyboardMissed, Call
    <3>2. QED
      BY <1>1, <2>3, <3>1 DEF TriesLeft
  <2>4. CASE ~(call.missed + 1 < Retries) /\ call.nuked
    <3>1. call'.at = "pointer" /\ call'.missed = 0
      BY <1>1, <2>1, <2>4 DEF KeyboardMissed, Call
    <3>2. QED
      BY <1>1, <2>4, <3>1 DEF TriesLeft
  <2>5. QED
    BY <2>2, <2>3, <2>4
<1>4. QED
  BY <1>2, <1>3

LEMMA PointerTried ==
    ASSUME IInv, TryPointer
    PROVE  TriesLeft(call') < TriesLeft(call)
<1> USE GrabAssumption
<1>1. /\ call \in Call /\ call.at = "pointer" /\ call.missed < Retries
      /\ call.missed \in Nat /\ Retries \in Nat \ {0}
  BY DEF IInv, Typed, InCall, TryPointer, Call
<1>2. CASE call' = Loop
  <2>1. call'.at = "loop"
    BY <1>2 DEF Loop
  <2>2. QED
    BY <1>1, <2>1 DEF TriesLeft
<1>3. CASE call' = [call EXCEPT !.missed = @ + 1]
  <2>1. call'.at = "pointer" /\ call'.missed = call.missed + 1
    BY <1>1, <1>3 DEF Call
  <2>2. QED
    BY <1>1, <2>1 DEF TriesLeft
<1>4. QED
  BY <1>2, <1>3 DEF TryPointer, Return

\* A call of gs_manager_set_active has at most three times Retries tries, each
\* uses one up, and while it lasts no other step of anybody changes it.
THEOREM TriesRunOut ==
    Spec => [](Trying => TriesLeft(call) \in 1 .. (Retries + Retries + Retries))
            /\ TriesCounted
<1>1. IInv => (Trying => TriesLeft(call) \in 1 .. (Retries + Retries + Retries))
  <2>1. SUFFICES ASSUME IInv, Trying
                 PROVE  TriesLeft(call) \in 1 .. (Retries + Retries + Retries)
    OBVIOUS
  <2>2. call.missed < Retries /\ call.missed \in Nat /\ Retries \in Nat \ {0}
    BY <2>1, GrabAssumption DEF IInv, Typed, InCall, Trying, Call
  <2>3. QED
    BY <2>1, <2>2 DEF Trying, TriesLeft
<1>2. ASSUME IInv, [Next]_vars, Trying
      PROVE  IF TryKeyboard \/ TryPointer
             THEN TriesLeft(call') < TriesLeft(call) ELSE call' = call
  <2>1. CASE TryKeyboard \/ TryPointer
    BY <1>2, <2>1, KeyboardTried, PointerTried
  <2>2. CASE ~TryKeyboard /\ ~TryPointer
    <3>1. ~InLoop /\ ~MoveKeyboard /\ ~MovePointer
      BY <1>2 DEF Trying, InLoop, MoveKeyboard, MovePointer
    <3>2. QED
      BY <1>2, <2>2, <3>1 DEF Next, BeginActivate, Deactivated, MapEvent, GrabBroken,
         MonitorsChanged, OtherCall, RivalGrabs, RivalReleases, PointerMoves, vars
  <2>3. QED
    BY <2>1, <2>2
<1>3. IInv /\ [Next]_vars =>
         [ Trying => IF TryKeyboard \/ TryPointer
                     THEN TriesLeft(call') < TriesLeft(call)
                     ELSE call' = call ]_vars
  BY <1>2
<1>4. QED
  BY <1>1, <1>3, AlwaysSound, PTL DEF Spec, TriesCounted

\* The move between windows waits for other clients and for nothing else.
THEOREM OnlyRivalsDelayMoves == Spec => MovesUnlessHeld
<1>1. ASSUME IInv, NEW d \in Devices, NEW w, Available(grabs, d)
      PROVE  Moves(grabs, d, w)
  <2>1. grabs \in Grabs /\ None \notin Rivals
    BY <1>1, GrabAssumption DEF IInv, Typed
  <2>2. Release(grabs, d).server[d] \in {None, grabs.server[d]}
    BY <1>1, <2>1, ReleaseTyped DEF Ours
  <2>3. QED
    BY <1>1, <2>1, <2>2 DEF Moves, Freed, Available
<1>2. ASSUME IInv, MoveKeyboard, Available(grabs, "keyboard")
      PROVE  call'.at = "movePointer"
  <2>1. call \in Call /\ "keyboard" \in Devices
    BY <1>2 DEF IInv, Typed, Devices
  <2>2. QED
    BY <1>1, <1>2, <2>1 DEF MoveKeyboard, Call
<1>3. ASSUME IInv, MovePointer, Available(grabs, "pointer")
      PROVE  call' = Loop
  <2>1. call \in Call /\ "pointer" \in Devices
    BY <1>3 DEF IInv, Typed, Devices
  <2>2. QED
    BY <1>1, <1>3, <2>1 DEF MovePointer
<1>4. IInv /\ [Next]_vars =>
         [ /\ MoveKeyboard /\ Available(grabs, "keyboard") => call'.at = "movePointer"
           /\ MovePointer /\ Available(grabs, "pointer") => call' = Loop ]_vars
  BY <1>2, <1>3
<1>5. QED
  BY <1>4, AlwaysSound, PTL DEF Spec, MovesUnlessHeld

-----------------------------------------------------------------------------
(***************************************************************************)
(* What a step may never do.                                               *)
(***************************************************************************)

\* Every step but those of gs_manager_activate's last try, gs_manager_deactivate
\* and the monitors keeps `active' and the windows.
LEMMA ActiveKept ==
    ASSUME IInv, [Next]_vars, ~TryPointer, ~Deactivated
    PROVE  manager'.active = manager.active
<1> USE ManagerAssumption
<1>1. Sound(manager, monitors) /\ monitors \in 1 .. MaxMonitors
  BY DEF IInv, Typed
<1>2. CASE OtherCall
  <2>1. ASSUME NEW b \in BOOLEAN,
               \/ manager' = ManagerSetSessionVisible(manager, b)
               \/ manager' = ManagerSetBlankScreen(manager, b)
               \/ manager' = ManagerSetLidClosed(manager, b)
        PROVE  manager'.active = manager.active
    BY <1>1, <2>1, SetSessionVisibleSound, SetBlankScreenSound, SetLidClosedSound
  <2>2. CASE \E a \in LockAfterValues : manager' = ManagerSetLockAfter(manager, a)
    BY <1>1, <2>2, QuietOperations DEF Quiet
  <2>3. CASE \/ manager' = ManagerShowContent(manager)
             \/ manager' = SwitchGreeterFired(manager)
             \/ manager' = LockFired(manager)
    BY <1>1, <2>3, QuietOperations DEF Quiet
  <2>4. QED
    BY <1>2, <2>1, <2>2, <2>3 DEF OtherCall
<1>3. ASSUME NEW w \in Monitors, MapEvent(w)
      PROVE  manager'.active = manager.active
  BY <1>1, <1>3, QuietOperations DEF MapEvent, Quiet
<1>4. ASSUME NEW n \in 1 .. MaxMonitors, MonitorsChanged(n)
      PROVE  manager'.active = manager.active
  BY <1>1, <1>4, ResizedSound, UnwatchedSound DEF MonitorsChanged, Quiet
<1>5. CASE UNCHANGED manager
  BY <1>5
<1>6. QED
  BY <1>2, <1>3, <1>4, <1>5 DEF Next, BeginActivate, TryKeyboard, MoveKeyboard,
     MovePointer, GrabBroken, RivalGrabs, RivalReleases, PointerMoves, vars

\* Whoever else competes for the devices, locked means that both were grabbed.
THEOREM LocksWithBoth == Spec => LockedOnlyWithBoth
<1>1. ASSUME IInv, [Next]_vars, ~manager.active, manager'.active
      PROVE  \A d \in Devices : grabs'.server[d] = Root
  <2> USE ManagerAssumption, GrabAssumption
  <2>1. Sound(manager, monitors) /\ monitors \in 1 .. MaxMonitors
        /\ grabs \in Grabs /\ call \in Call
    BY <1>1 DEF IInv, Typed
  <2>2. TryPointer
    <3>1. CASE Deactivated
      BY <1>1, <3>1 DEF Deactivated
    <3>2. QED
      BY <1>1, <3>1, ActiveKept
  <2>3. ASSUME NEW g, NEW k \in BOOLEAN, NEW p \in BOOLEAN, Return(g, k, p)
        PROVE  k /\ p /\ grabs' = g
    <3>1. manager' = Activate(manager, k /\ p, monitors)
      BY <2>3 DEF Return, ManagerSetActive
    <3>2. k /\ p
      BY <1>1, <2>1, <3>1, ActivateSound
    <3>3. QED
      BY <2>3, <3>2 DEF Return
  <2>4. call.keyboardGot \in BOOLEAN
    BY <2>1 DEF Call
  <2>5. CASE Return(Get(grabs, "pointer", Root), call.keyboardGot, TRUE)
    <3>1. call.keyboardGot /\ grabs' = Get(grabs, "pointer", Root)
      BY <2>3, <2>4, <2>5
    <3>2. grabs.server["keyboard"] = Root
      BY <1>1, <2>2, <3>1 DEF IInv, InCall, TryPointer
    <3>3. QED
      BY <2>1, <3>1, <3>2, GetTyped DEF Devices, Ours
  <2>6. CASE Return(grabs, call.keyboardGot, FALSE)
    BY <2>3, <2>4, <2>6
  <2>7. CASE UNCHANGED manager
    BY <1>1, <2>7
  <2>8. QED
    BY <2>2, <2>5, <2>6, <2>7 DEF TryPointer
<1>2. IInv /\ [Next]_vars =>
         [ ~manager.active /\ manager'.active
           => \A d \in Devices : grabs'.server[d] = Root ]_vars
  BY <1>1
<1>3. QED
  BY <1>2, AlwaysSound, PTL DEF Spec, LockedOnlyWithBoth

\* A move keeps a device that is ours, so only a window's end loses one.
THEOREM OnlyWindowsLose == Spec => LostOnlyWithWindow
<1>1. ASSUME IInv, [Next]_vars, NEW d \in Devices, manager.active, manager'.active,
             grabs.server[d] \in Ours, grabs'.server[d] \notin Ours
      PROVE  grabs.server[d] \in manager.windows \ manager'.windows
  <2> USE ManagerAssumption, GrabAssumption
  <2>1. /\ Sound(manager, monitors) /\ monitors \in 1 .. MaxMonitors
        /\ grabs \in Grabs /\ call \in Call
        /\ manager.windows \subseteq Monitors
    BY <1>1, SoundWindows DEF IInv, Typed
  <2>2. "keyboard" \in Devices /\ "pointer" \in Devices
        /\ \A r \in Rivals \cup {None} : r \notin Ours
    BY DEF Devices, Ours
  <2>3. ASSUME NEW e \in Devices, call.window \in manager.windows,
               grabs' = Move(grabs, e, call.window)
        PROVE  FALSE
    <3>1. grabs.record[e] # None => grabs.server[e] = grabs.record[e]
      BY <1>1 DEF IInv, RecordTrusted
    <3>2. call.window \in Monitors /\ call.window \in Ours
      BY <2>1, <2>3 DEF Ours
    <3>3. CASE d = e
      BY <1>1, <2>1, <2>2, <2>3, <3>1, <3>2, <3>3, MoveSound
    <3>4. CASE d # e
      BY <1>1, <2>1, <2>3, <3>1, <3>2, <3>4, MoveSound
    <3>5. QED
      BY <3>3, <3>4
  <2>4. CASE MoveKeyboard
    <3>1. call.window \in manager.windows /\ grabs' = Move(grabs, "keyboard", call.window)
      BY <1>1, <2>4 DEF MoveKeyboard, IInv, InCall
    <3>2. QED
      BY <2>2, <2>3, <3>1
  <2>5. CASE MovePointer
    <3>1. call.window \in manager.windows /\ grabs' = Move(grabs, "pointer", call.window)
      BY <1>1, <2>5 DEF MovePointer, IInv, InCall
    <3>2. QED
      BY <2>2, <2>3, <3>1
  <2>6. ASSUME NEW n \in 1 .. MaxMonitors, MonitorsChanged(n)
        PROVE  grabs.server[d] \in manager.windows \ manager'.windows
    <3>1. grabs' = Destroyed(grabs, manager.windows \ manager'.windows)
      BY <2>6 DEF MonitorsChanged
    <3>2. QED
      BY <1>1, <2>1, <3>1, DestroyedTyped
  <2>7. CASE TryKeyboard \/ TryPointer
    BY <1>1, <2>7 DEF TryKeyboard, TryPointer, IInv, InCall
  <2>8. CASE Deactivated
    BY <1>1, <2>1, <2>8, DeactivateSound DEF Deactivated, ManagerSetActive
  <2>9. ASSUME NEW w \in Monitors, NEW e \in Devices, GrabBroken(w, e)
        PROVE  FALSE
    <3>1. grabs'.server = grabs.server
      BY <2>1, <2>9 DEF GrabBroken, Reset, Grabs
    <3>2. QED
      BY <1>1, <3>1
  <2>10. ASSUME NEW r \in Rivals, NEW e \in Devices,
                RivalGrabs(r, e) \/ RivalReleases(r, e)
         PROVE  FALSE
    <3>1. grabs.server[e] \notin Ours
      BY <2>2, <2>10 DEF RivalGrabs, RivalReleases
    <3>2. d # e
      BY <1>1, <3>1
    <3>3. grabs'.server[d] = grabs.server[d]
      BY <2>1, <2>10, <3>2 DEF RivalGrabs, RivalReleases, Grabs
    <3>4. QED
      BY <1>1, <3>3
  <2>11. CASE UNCHANGED grabs
    BY <1>1, <2>11
  <2>12. QED
    BY <1>1, <2>4, <2>5, <2>6, <2>7, <2>8, <2>9, <2>10, <2>11 DEF Next,
       BeginActivate, MapEvent, OtherCall, PointerMoves, vars
<1>2. IInv /\ [Next]_vars =>
         [ \A d \in Devices :
              /\ manager.active
              /\ manager'.active
              /\ grabs.server[d] \in Ours
              /\ grabs'.server[d] \notin Ours
              => grabs.server[d] \in manager.windows \ manager'.windows ]_vars
  BY <1>1
<1>3. QED
  BY <1>2, AlwaysSound, PTL DEF Spec, LostOnlyWithWindow

-----------------------------------------------------------------------------
(***************************************************************************)
(* GSManager's specification is implemented.                               *)
(***************************************************************************)

\* The instance's functions are those of this module.
LEMMA SameFunctions ==
    /\ \A m, a, g, n : GSM!ManagerSetActive(m, a, g, n) = ManagerSetActive(m, a, g, n)
    /\ \A m, b : /\ GSM!ManagerSetSessionVisible(m, b) = ManagerSetSessionVisible(m, b)
                 /\ GSM!ManagerSetBlankScreen(m, b) = ManagerSetBlankScreen(m, b)
                 /\ GSM!ManagerSetLidClosed(m, b) = ManagerSetLidClosed(m, b)
    /\ \A m, a : GSM!ManagerSetLockAfter(m, a) = ManagerSetLockAfter(m, a)
    /\ \A m : /\ GSM!ManagerShowContent(m) = ManagerShowContent(m)
              /\ GSM!SwitchGreeterFired(m) = SwitchGreeterFired(m)
              /\ GSM!LockFired(m) = LockFired(m)
    /\ \A m, w : GSM!WindowMapped(m, w) = WindowMapped(m, w)
    /\ \A m, n : GSM!Resized(m, n) = Resized(m, n)
<1>1. ASSUME NEW m, NEW a, NEW g, NEW n
      PROVE  GSM!ManagerSetActive(m, a, g, n) = ManagerSetActive(m, a, g, n)
  BY Zenon DEF GSM!ManagerSetActive, ManagerSetActive, GSM!Activate, Activate,
     GSM!Deactivate, Deactivate, GSM!CreateWindows, CreateWindows,
     GSM!DestroyWindows, DestroyWindows, GSM!Presentable, Presentable,
     GSM!TimedSwitch, TimedSwitch, GSM!StopSwitch, StopSwitch, GSM!TimedLock,
     TimedLock, GSM!StopLock, StopLock, GSM!FirstMonitors, FirstMonitors
<1>2. ASSUME NEW m, NEW b
      PROVE  /\ GSM!ManagerSetSessionVisible(m, b) = ManagerSetSessionVisible(m, b)
             /\ GSM!ManagerSetBlankScreen(m, b) = ManagerSetBlankScreen(m, b)
             /\ GSM!ManagerSetLidClosed(m, b) = ManagerSetLidClosed(m, b)
  BY Zenon DEF GSM!Presentable, Presentable,
     GSM!TimedSwitch, TimedSwitch, GSM!StopSwitch, StopSwitch, GSM!TimedLock,
     TimedLock, GSM!StopLock, StopLock,
     GSM!ManagerSetSessionVisible, ManagerSetSessionVisible,
     GSM!ManagerSetBlankScreen, ManagerSetBlankScreen, GSM!ManagerSetLidClosed,
     ManagerSetLidClosed
<1>3. ASSUME NEW m, NEW a
      PROVE  GSM!ManagerSetLockAfter(m, a) = ManagerSetLockAfter(m, a)
  BY Zenon DEF GSM!ManagerSetLockAfter, ManagerSetLockAfter
<1>4. ASSUME NEW m
      PROVE  /\ GSM!ManagerShowContent(m) = ManagerShowContent(m)
             /\ GSM!SwitchGreeterFired(m) = SwitchGreeterFired(m)
             /\ GSM!LockFired(m) = LockFired(m)
  BY Zenon DEF GSM!ManagerShowContent, ManagerShowContent, GSM!SwitchGreeterFired,
     SwitchGreeterFired, GSM!LockFired, LockFired
<1>5. ASSUME NEW m, NEW n
      PROVE  /\ GSM!WindowMapped(m, n) = WindowMapped(m, n)
             /\ GSM!Resized(m, n) = Resized(m, n)
  BY Zenon DEF GSM!WindowMapped, WindowMapped, GSM!Resized, Resized,
     GSM!FirstMonitors, FirstMonitors, GSM!Cardinality, Cardinality
<1>6. QED
  BY <1>1, <1>2, <1>3, <1>4, <1>5, Zenon

\* gs_manager_set_active, as its callers see it, is one step: the tries leave
\* GSManager and the monitors alone, and their end is the whole of it.
THEOREM LockingImplementsGSManager == Spec => ImplementsGSManager
<1>1. Init => GSM!Init
  BY DEF Init
<1>2. ASSUME IInv, [Next]_vars
      PROVE  [GSM!Next]_(GSM!vars)
  <2> USE DEF GSM!Next, GSM!vars
  <2>1. CASE UNCHANGED <<manager, monitors>>
    BY <2>1
  <2>2. CASE OtherCall
    <3>1. ASSUME NEW b \in BOOLEAN,
                 \/ manager' = ManagerSetSessionVisible(manager, b)
                 \/ manager' = ManagerSetBlankScreen(manager, b)
                 \/ manager' = ManagerSetLidClosed(manager, b)
          PROVE  GSM!Next
      BY <2>2, <3>1, SameFunctions DEF OtherCall, GSM!SetSessionVisible,
         GSM!SetBlankScreen, GSM!SetLidClosed
    <3>2. CASE \E a \in LockAfterValues : manager' = ManagerSetLockAfter(manager, a)
      BY <2>2, <3>2, SameFunctions DEF OtherCall, GSM!SetLockAfter
    <3>3. CASE \/ manager' = ManagerShowContent(manager)
               \/ manager.greeterTimer /\ manager' = SwitchGreeterFired(manager)
               \/ manager.lockTimer /\ manager' = LockFired(manager)
      BY <2>2, <3>3, SameFunctions DEF OtherCall, GSM!ShowContent,
         GSM!SwitchGreeterTimeout, GSM!LockTimeout
    <3>4. QED
      BY <2>2, <3>1, <3>2, <3>3 DEF OtherCall
  <2>3. ASSUME NEW a \in BOOLEAN, NEW g \in BOOLEAN, UNCHANGED monitors,
               manager' = ManagerSetActive(manager, a, g, monitors)
        PROVE  GSM!Next
    BY <2>3, SameFunctions DEF GSM!SetActive
  <2>4. CASE TryPointer
    <3>1. call.keyboardGot \in BOOLEAN
      BY <1>2 DEF IInv, Typed, Call
    <3>2. \/ UNCHANGED <<manager, monitors>>
          \/ \E g \in BOOLEAN : /\ UNCHANGED monitors
                               /\ manager' = ManagerSetActive(manager, TRUE, g, monitors)
      BY <2>4, <3>1 DEF TryPointer, Return
    <3>3. QED
      BY <2>1, <2>3, <3>2
  <2>5. CASE Deactivated
    BY <2>3, <2>5 DEF Deactivated
  <2>6. ASSUME NEW w \in Monitors, MapEvent(w)
        PROVE  GSM!Next
    <3>1. w \in GSM!Monitors
      BY DEF Monitors, GSM!Monitors
    <3>2. GSM!MapEvent(w)
      BY <2>6, SameFunctions DEF MapEvent, GSM!MapEvent
    <3>3. QED
      BY <3>1, <3>2
  <2>7. ASSUME NEW n \in 1 .. MaxMonitors, MonitorsChanged(n)
        PROVE  GSM!Next
    BY <2>7, SameFunctions DEF MonitorsChanged, GSM!MonitorsChanged
  <2>8. QED
    BY <1>2, <2>1, <2>2, <2>4, <2>5, <2>6, <2>7 DEF Next, BeginActivate, TryKeyboard,
       MoveKeyboard, MovePointer, GrabBroken, RivalGrabs, RivalReleases,
       PointerMoves, vars
<1>3. QED
  BY <1>1, <1>2, AlwaysSound, PTL DEF Spec, ImplementsGSManager, GSM!Spec

=============================================================================
