-------------------------- MODULE LightLockerProofs --------------------------
(***************************************************************************)
(* The invariant of the running light-locker, for any number of monitors,  *)
(* settings, pending timers, notices in flight and delay locks.            *)
(***************************************************************************)
EXTENDS LightLocker, GSManagerOpsProofs

\* The manager may believe in a closed lid the listener has seen open, because
\* listener_lid_closed_cb returns early for a deferred lock; never the reverse.
\* NoTimedSwitchUnderClosedLid is not inductive without it.
LidLag == listener.lidClosed => manager.closed

IInv ==
    /\ TypeOK
    /\ ManagerOK
    /\ CopiesAgree
    /\ DeferredLockHasTrigger
    /\ LidLag
    /\ RequestOnlyWhenVisible
    /\ IdleHintTracksScreen

-----------------------------------------------------------------------------
(***************************************************************************)
(* What the handlers' common parts do in a state that satisfies IInv.      *)
(***************************************************************************)

\* Locking a sound manager that agrees with the listener about `active' keeps
\* it sound, and the listener stores what the manager did.
LEMMA LockScreenSound ==
    ASSUME ManagerAssumption, IInv, NEW grabbed \in BOOLEAN,
           NEW m, Sound(m, world.monitors), m.active = manager.active
    PROVE  LET r == LockScreen(m, grabbed) IN
           /\ Sound(r, world.monitors)
           /\ SameWorld(r, m)
           /\ Accepted(r) = r.active
           /\ r.mapped = m.mapped
           /\ m.active => r.active
<1>1. /\ listener.active = m.active
      /\ listener.active = manager.active
      /\ world.monitors \in 1 .. MaxMonitors
      /\ manager.active \in BOOLEAN
  BY DEF IInv, CopiesAgree, TypeOK, World, Manager
<1>2. CASE m.active
  BY <1>1, <1>2 DEF LockScreen, Accepted, SameWorld
<1>3. CASE ~m.active
  <2>1. LockScreen(m, grabbed) = Activate(m, grabbed, world.monitors)
    BY <1>1, <1>3 DEF LockScreen
  <2>2. /\ Sound(Activate(m, grabbed, world.monitors), world.monitors)
        /\ SameWorld(Activate(m, grabbed, world.monitors), m)
        /\ Activate(m, grabbed, world.monitors).mapped = m.mapped
    BY <1>1, ActivateSound
  <2>3. Activate(m, grabbed, world.monitors).active \in BOOLEAN
    BY <2>2 DEF Sound, Manager
  <2>4. QED
    BY <1>1, <1>3, <2>1, <2>2, <2>3 DEF Accepted
<1>4. QED
  BY <1>2, <1>3

\* Closing the descriptor the listener remembers leaves the count of open ones
\* in range.
LEMMA ResumedWorldTyped ==
    ASSUME LightLockerAssumption, IInv
    PROVE  /\ ResumedWorld \in World
           /\ ResumedWorld.monitors = world.monitors
           /\ ResumedWorld.idle = world.idle
           /\ ResumedWorld.lid = world.lid
           /\ ResumedWorld.seat = world.seat
           /\ ResumedWorld.lidNotices = world.lidNotices
           /\ ResumedWorld.seatNotices = world.seatNotices
<1> DEFINE k == world.openFds - (IF listener.holdsFd THEN 1 ELSE 0)
<1>1. k \in 0 .. MaxFds
  BY DEF IInv, TypeOK, Listener, World, LightLockerAssumption
<1>2. ResumedWorld = [world EXCEPT !.openFds = k]
  BY DEF ResumedWorld
<1>3. QED
  BY <1>1, <1>2 DEF IInv, TypeOK, World

-----------------------------------------------------------------------------

\* What IInv says of the manager, in the form the lemmas about its functions
\* ask for.
LEMMA ManagerIsSound ==
    ASSUME IInv
    PROVE  /\ Sound(manager, world.monitors)
           /\ world.monitors \in 1 .. MaxMonitors
BY DEF IInv, TypeOK, ManagerOK, Sound, World

LEMMA InitSound == ManagerAssumption /\ LightLockerAssumption /\ Init => IInv
<1> SUFFICES ASSUME ManagerAssumption, LightLockerAssumption, Init
             PROVE  IInv
  OBVIOUS
<1>1. PICK s \in Settings, at \in Starts, n \in 1 .. MaxMonitors, taken \in BOOLEAN :
        /\ manager = NewManager(s.lockAfter)
        /\ monitor = [ lateLocking |-> s.lateLocking,
                       lockOnSuspend |-> s.lockOnSuspend,
                       lockOnLid |-> s.lockOnLid, idleHint |-> s.idleHint,
                       performLock |-> FALSE,
                       lockTimers |-> 0, switchTimers |-> 0 ]
        /\ listener = [ active |-> FALSE, lidClosed |-> FALSE, blanked |-> FALSE,
                        holdsFd |-> s.lockOnSuspend /\ taken ]
        /\ x11 = FALSE
        /\ world = [ lid |-> at.lid, lidNotices |-> 0,
                     seat |-> at.seat, seatNotices |-> 0,
                     openFds |-> IF s.lockOnSuspend /\ taken THEN 1 ELSE 0,
                     idle |-> FALSE, monitors |-> n, asked |-> FALSE ]
        /\ request = "none"
  BY DEF Init, InhibitReplies, LightLockerAssumption
<1>2. s \in SettingRecords /\ at \in [lid : BOOLEAN, seat : BOOLEAN]
  BY DEF LightLockerAssumption
<1>3. Sound(manager, n)
  BY <1>1, <1>2, NewManagerSound DEF SettingRecords
<1>4. monitor \in Monitor /\ listener \in Listener
  BY <1>1, <1>2 DEF SettingRecords, Monitor, Listener, LightLockerAssumption
<1>5. world \in World /\ (listener.holdsFd => world.openFds > 0)
  <2>1. (IF s.lockOnSuspend /\ taken THEN 1 ELSE 0) \in 0 .. MaxFds
    BY DEF LightLockerAssumption
  <2>2. 0 \in 0 .. MaxNotices
    BY DEF LightLockerAssumption
  <2>3. world \in World
    BY <1>1, <1>2, <2>1, <2>2 DEF World
  <2>4. listener.holdsFd => world.openFds = 1
    BY <1>1
  <2>5. QED
    BY <2>3, <2>4
<1>6. TypeOK /\ ManagerOK
  BY <1>1, <1>3, <1>4, <1>5 DEF TypeOK, ManagerOK, Sound, Requests
<1>7. CopiesAgree /\ DeferredLockHasTrigger /\ LidLag /\ RequestOnlyWhenVisible
      /\ IdleHintTracksScreen
  BY <1>1 DEF NewManager, CopiesAgree, DeferredLockHasTrigger, LidLag,
     RequestOnlyWhenVisible, IdleHintTracksScreen
<1>8. QED
  BY <1>6, <1>7 DEF IInv

-----------------------------------------------------------------------------
(***************************************************************************)
(* One lemma per action: it preserves the invariant.                       *)
(***************************************************************************)

\* A step that leaves the manager sound on the monitors of the next state, and
\* the other variables typed, has only the relations between them to keep.
Typed ==
    /\ monitor \in Monitor
    /\ listener \in Listener
    /\ x11 \in BOOLEAN
    /\ world \in World
    /\ request \in Requests
    /\ listener.holdsFd => world.openFds > 0

LEMMA Assemble ==
    /\ Typed /\ Sound(manager, world.monitors)
    /\ CopiesAgree /\ DeferredLockHasTrigger /\ LidLag
    /\ RequestOnlyWhenVisible /\ IdleHintTracksScreen
    <=> IInv
BY DEF Typed, IInv, TypeOK, ManagerOK, Sound

\* The untracked 1 s timers are counted up and down within their bound, and
\* nothing else of the monitor changes with them.
LEMMA MonitorUpdates ==
    ASSUME LightLockerAssumption, monitor \in Monitor
    PROVE  /\ \A b \in BOOLEAN : [monitor EXCEPT !.performLock = b] \in Monitor
           /\ monitor.lockTimers < MaxOneShots
              => [monitor EXCEPT !.lockTimers = @ + 1] \in Monitor
           /\ monitor.lockTimers < MaxOneShots
              => [monitor EXCEPT !.lockTimers = @ + 1, !.performLock = FALSE] \in Monitor
           /\ monitor.lockTimers > 0
              => [monitor EXCEPT !.lockTimers = @ - 1] \in Monitor
           /\ monitor.switchTimers < MaxOneShots
              => [monitor EXCEPT !.switchTimers = @ + 1] \in Monitor
           /\ monitor.switchTimers > 0
              => [monitor EXCEPT !.switchTimers = @ - 1] \in Monitor
<1>1. /\ monitor.lockTimers \in 0 .. MaxOneShots
      /\ monitor.switchTimers \in 0 .. MaxOneShots
      /\ MaxOneShots \in Nat
  BY DEF Monitor, LightLockerAssumption
<1>2. /\ monitor.lockTimers < MaxOneShots => monitor.lockTimers + 1 \in 0 .. MaxOneShots
      /\ monitor.lockTimers > 0 => monitor.lockTimers - 1 \in 0 .. MaxOneShots
      /\ monitor.switchTimers < MaxOneShots => monitor.switchTimers + 1 \in 0 .. MaxOneShots
      /\ monitor.switchTimers > 0 => monitor.switchTimers - 1 \in 0 .. MaxOneShots
  BY <1>1
<1>3. QED
  BY <1>2 DEF Monitor

LEMMA SessionLockSound ==
    ASSUME ManagerAssumption, LightLockerAssumption, IInv,
           NEW grabbed \in BOOLEAN, SessionLock(grabbed)
    PROVE  IInv'
<1> DEFINE r == LockScreen(manager, grabbed)
<1>1. /\ Sound(r, world.monitors)
      /\ SameWorld(r, manager)
      /\ Accepted(r) = r.active
  BY ManagerIsSound, LockScreenSound
<1>2. manager' \in {r, ManagerShowContent(r)}
  BY DEF SessionLock
<1>3. /\ Sound(manager', world.monitors)
      /\ SameWorld(manager', manager)
      /\ manager'.active = r.active
  <2>1. Quiet(ManagerShowContent(r), r, world.monitors)
    BY <1>1, QuietOperations
  <2>2. QED
    BY <1>1, <1>2, <2>1 DEF Quiet, SameWorld
<1>4. /\ listener' = [listener EXCEPT !.active = r.active]
      /\ UNCHANGED <<x11, world>>
      /\ request' = "none"
      /\ \/ UNCHANGED monitor
         \/ listener.lidClosed /\ monitor' = [monitor EXCEPT !.performLock = TRUE]
         \/ /\ monitor.lockTimers < MaxOneShots
            /\ monitor' = [monitor EXCEPT !.lockTimers = @ + 1]
  BY <1>1 DEF SessionLock, Defers
<1>5. r.active \in BOOLEAN
  BY <1>1 DEF Sound, Manager
<1>6. Typed'
  <2>1. Typed
    BY Assemble
  <2>2. monitor' \in Monitor
    BY <1>4, <2>1, MonitorUpdates DEF Typed
  <2>3. listener' \in Listener /\ listener'.holdsFd = listener.holdsFd
    BY <1>4, <1>5, <2>1 DEF Typed, Listener
  <2>4. QED
    BY <1>4, <2>1, <2>2, <2>3 DEF Typed, Requests
<1>7. /\ CopiesAgree' /\ DeferredLockHasTrigger' /\ LidLag'
      /\ RequestOnlyWhenVisible' /\ IdleHintTracksScreen'
  BY <1>3, <1>4, Assemble DEF Typed, Monitor, Listener, SameWorld, CopiesAgree,
     DeferredLockHasTrigger, LidLag, RequestOnlyWhenVisible, IdleHintTracksScreen
<1>8. world'.monitors = world.monitors
  BY <1>4
<1>9. QED
  BY <1>3, <1>6, <1>7, <1>8, Assemble DEF IInv, TypeOK, ManagerOK, Typed, Sound

LEMMA LogindLockSound ==
    ASSUME ManagerAssumption, LightLockerAssumption, IInv,
           NEW grabbed \in BOOLEAN, LogindLock(grabbed)
    PROVE  IInv'
<1> DEFINE c == ManagerShowContent(manager)
           r == LockScreen(c, grabbed)
<1>1. Typed
  BY Assemble
<1>2. Quiet(c, manager, world.monitors)
  BY ManagerIsSound, QuietOperations
<1>3. /\ Sound(r, world.monitors)
      /\ SameWorld(r, manager)
      /\ Accepted(r) = r.active
  BY <1>2, LockScreenSound DEF Quiet, SameWorld
<1>4. /\ manager' = r
      /\ listener' = [listener EXCEPT !.active = r.active]
      /\ monitor' = [monitor EXCEPT !.performLock = FALSE]
      /\ request' = "none"
      /\ UNCHANGED <<x11, world>>
  BY <1>3 DEF LogindLock
<1>5. Typed'
  <2>1. monitor' \in Monitor
    BY <1>1, <1>4, MonitorUpdates DEF Typed
  <2>2. listener' \in Listener /\ listener'.holdsFd = listener.holdsFd
    BY <1>1, <1>3, <1>4 DEF Typed, Listener, Sound, Manager
  <2>3. QED
    BY <1>1, <1>4, <2>1, <2>2 DEF Typed, Requests
<1>6. /\ CopiesAgree' /\ DeferredLockHasTrigger' /\ LidLag'
      /\ RequestOnlyWhenVisible' /\ IdleHintTracksScreen'
  BY <1>1, <1>3, <1>4, Assemble DEF Typed, Monitor, Listener, SameWorld, CopiesAgree,
     DeferredLockHasTrigger, LidLag, RequestOnlyWhenVisible, IdleHintTracksScreen
<1>7. Sound(manager', world'.monitors)
  BY <1>3, <1>4
<1>8. QED
  BY <1>5, <1>6, <1>7, Assemble DEF IInv, TypeOK, ManagerOK, Typed, Sound

LEMMA SuspendSound ==
    ASSUME ManagerAssumption, LightLockerAssumption, IInv,
           NEW grabbed \in BOOLEAN, Suspend(grabbed)
    PROVE  IInv'
<1> DEFINE r == LockScreen(manager, grabbed)
<1>1. Typed
  BY Assemble
<1>2. /\ Sound(r, world.monitors)
      /\ SameWorld(r, manager)
      /\ Accepted(r) = r.active
  BY ManagerIsSound, LockScreenSound
<1>3. /\ manager' = r
      /\ listener' = [listener EXCEPT !.active = r.active]
      /\ request' = "none"
      /\ UNCHANGED <<monitor, x11, world>>
  BY <1>2 DEF Suspend
<1>4. Typed'
  BY <1>1, <1>2, <1>3 DEF Typed, Listener, Sound, Manager, Requests
<1>5. /\ CopiesAgree' /\ DeferredLockHasTrigger' /\ LidLag'
      /\ RequestOnlyWhenVisible' /\ IdleHintTracksScreen'
  BY <1>1, <1>2, <1>3, Assemble DEF Typed, Monitor, Listener, SameWorld, CopiesAgree,
     DeferredLockHasTrigger, LidLag, RequestOnlyWhenVisible, IdleHintTracksScreen
<1>6. Sound(manager', world'.monitors)
  BY <1>2, <1>3
<1>7. QED
  BY <1>4, <1>5, <1>6, Assemble DEF IInv, TypeOK, ManagerOK, Typed, Sound

LEMMA LogindUnlockSound ==
    ASSUME ManagerAssumption, LightLockerAssumption, IInv,
           NEW taken \in BOOLEAN, LogindUnlock(taken)
    PROVE  IInv'
<1> DEFINE r == Deactivate(manager)
           take == TakesDelay(taken)
<1>1. Typed
  BY Assemble
<1>2. CASE ~listener.active
  BY <1>1, <1>2, Assemble DEF LogindUnlock, IInv, Typed, TypeOK, ManagerOK, CopiesAgree,
     DeferredLockHasTrigger, LidLag, RequestOnlyWhenVisible, IdleHintTracksScreen,
     Requests
<1>3. CASE listener.active
  <2>1. /\ Sound(r, world.monitors)
        /\ SameWorld(r, manager)
        /\ ~r.active
    BY ManagerIsSound, DeactivateSound
  <2>2. Accepted(r) = FALSE
    BY <1>1, <1>3, <2>1, Assemble DEF Accepted, CopiesAgree, Typed, Listener, Sound, Manager
  <2>3. /\ manager' = r
        /\ listener' = [listener EXCEPT !.active = FALSE, !.holdsFd = @ \/ take]
        /\ OpenFds(take) <= MaxFds
        /\ world' = [world EXCEPT !.openFds = OpenFds(take), !.asked = FALSE]
        /\ request' = "none"
        /\ UNCHANGED <<monitor, x11>>
    BY <1>3, <2>2 DEF LogindUnlock
  <2>4. /\ OpenFds(take) \in 0 .. MaxFds
        /\ OpenFds(take) >= world.openFds
        /\ take => OpenFds(take) > 0
    BY <1>1, <2>3 DEF OpenFds, Typed, World, LightLockerAssumption
  <2>5. /\ world' \in World /\ world'.openFds = OpenFds(take)
        /\ world'.idle = world.idle /\ world'.monitors = world.monitors
    BY <1>1, <2>3, <2>4 DEF Typed, World
  <2>6. take \in BOOLEAN
    BY <1>1 DEF TakesDelay, Typed, Monitor
  <2>7. /\ listener' \in Listener
        /\ ~listener'.active
        /\ listener'.blanked = listener.blanked
        /\ listener'.lidClosed = listener.lidClosed
        /\ listener'.holdsFd => listener.holdsFd \/ take
    BY <1>1, <2>3, <2>6 DEF Typed, Listener
  <2>8. listener'.holdsFd => world'.openFds > 0
    BY <1>1, <2>4, <2>5, <2>7 DEF Typed, World
  <2>9. Typed'
    BY <1>1, <2>3, <2>5, <2>7, <2>8 DEF Typed, Requests
  <2>10. /\ CopiesAgree' /\ DeferredLockHasTrigger' /\ LidLag'
         /\ RequestOnlyWhenVisible' /\ IdleHintTracksScreen'
    BY <2>1, <2>3, <2>5, <2>7, Assemble DEF SameWorld, Sound, Manager, Listener, CopiesAgree,
       DeferredLockHasTrigger, LidLag, RequestOnlyWhenVisible, IdleHintTracksScreen
  <2>11. Sound(manager', world'.monitors)
    BY <2>1, <2>3, <2>5
  <2>12. QED
    BY <2>9, <2>10, <2>11, Assemble DEF IInv, TypeOK, ManagerOK, Typed, Sound
<1>4. QED
  BY <1>2, <1>3

\* A notice that is handled leaves one less in flight, and one that is sent
\* one more; the rest of the world is as it was.
LEMMA NoticeUpdates ==
    ASSUME LightLockerAssumption, world \in World
    PROVE  /\ world.seatNotices > 0
              => [world EXCEPT !.seatNotices = @ - 1] \in World
           /\ world.lidNotices > 0
              => [world EXCEPT !.lidNotices = @ - 1] \in World
           /\ world.lidNotices < MaxNotices
              => [world EXCEPT !.lid = ~@, !.lidNotices = @ + 1] \in World
           /\ world.seatNotices < MaxNotices
              => [world EXCEPT !.seat = ~@, !.seatNotices = @ + 1,
                               !.asked = FALSE] \in World
<1>1. /\ world.seatNotices \in 0 .. MaxNotices
      /\ world.lidNotices \in 0 .. MaxNotices
      /\ MaxNotices \in Nat
  BY DEF World, LightLockerAssumption
<1>2. /\ world.seatNotices > 0 => world.seatNotices - 1 \in 0 .. MaxNotices
      /\ world.lidNotices > 0 => world.lidNotices - 1 \in 0 .. MaxNotices
      /\ world.seatNotices < MaxNotices => world.seatNotices + 1 \in 0 .. MaxNotices
      /\ world.lidNotices < MaxNotices => world.lidNotices + 1 \in 0 .. MaxNotices
  BY <1>1
<1>3. QED
  BY <1>2 DEF World

\* Whether or not logind answers, the session is seen on the seat or off it.
LEMMA SeatSeenTyped ==
    ASSUME Typed
    PROVE  SeatSeen \subseteq BOOLEAN
BY DEF Typed, World, SeatSeen, Unanswered

LEMMA SeatNoticeSound ==
    ASSUME ManagerAssumption, LightLockerAssumption, IInv, SeatNotice
    PROVE  IInv'
<1>1. Typed
  BY Assemble
<1>2. world' \in World /\ world'.monitors = world.monitors
      /\ world'.openFds = world.openFds /\ world'.idle = world.idle
  BY <1>1, NoticeUpdates DEF SeatNotice, Typed, World
<1>3. /\ Sound(manager', world.monitors)
      /\ manager'.active = manager.active
      /\ manager'.blank = manager.blank
      /\ manager'.closed = manager.closed
  <2>1. PICK seated \in BOOLEAN : manager' = ManagerSetSessionVisible(manager, seated)
    BY <1>1, SeatSeenTyped DEF SeatNotice
  <2>2. QED
    BY <2>1, ManagerIsSound, SetSessionVisibleSound
<1>4. request' = "none" /\ UNCHANGED <<monitor, listener, x11>>
  BY DEF SeatNotice
<1>5. QED
  BY <1>1, <1>2, <1>3, <1>4, Assemble DEF IInv, TypeOK, ManagerOK, Typed, Sound, Requests,
     CopiesAgree, DeferredLockHasTrigger, LidLag, RequestOnlyWhenVisible,
     IdleHintTracksScreen

LEMMA ResumeSound ==
    ASSUME ManagerAssumption, LightLockerAssumption, IInv, Resume
    PROVE  IInv'
<1>1. Typed
  BY Assemble
<1>2. /\ \/ listener.lidClosed /\ monitor' = [monitor EXCEPT !.performLock = TRUE]
         \/ /\ monitor.switchTimers < MaxOneShots
            /\ monitor' = [monitor EXCEPT !.switchTimers = @ + 1]
      /\ request' = "none"
      /\ UNCHANGED <<manager, listener, x11, world>>
  BY DEF Resume, Defers
<1>3. monitor' \in Monitor
  BY <1>1, <1>2, MonitorUpdates DEF Typed
<1>4. /\ monitor'.performLock => monitor.performLock \/ listener.lidClosed
      /\ monitor'.idleHint = monitor.idleHint
  BY <1>1, <1>2 DEF Typed, Monitor
<1>5. QED
  BY <1>1, <1>2, <1>3, <1>4, Assemble DEF IInv, TypeOK, ManagerOK, Typed, Requests,
     CopiesAgree, DeferredLockHasTrigger, LidLag, RequestOnlyWhenVisible,
     IdleHintTracksScreen

LEMMA LidNoticeSound ==
    ASSUME ManagerAssumption, LightLockerAssumption, IInv,
           NEW grabbed \in BOOLEAN, NEW closed \in BOOLEAN, LidNotice(grabbed, closed)
    PROVE  IInv'
<1> DEFINE m == ManagerSetLidClosed(manager, closed)
           r == LockScreen(m, grabbed)
<1>1. Typed
  BY Assemble
<1>2. /\ world' \in World /\ world'.monitors = world.monitors
      /\ world'.openFds = world.openFds /\ world'.idle = world.idle
  BY <1>1, NoticeUpdates DEF LidNotice, Typed, World
<1>3. /\ Sound(m, world.monitors)
      /\ m.closed = closed
      /\ m.active = manager.active /\ m.visible = manager.visible
      /\ m.blank = manager.blank
  BY <1>2, ManagerIsSound, SetLidClosedSound
<1>4. /\ Sound(r, world.monitors)
      /\ SameWorld(r, m)
      /\ Accepted(r) = r.active
  BY <1>3, LockScreenSound
<1>5. request' = "none" /\ UNCHANGED x11
  BY DEF LidNotice
<1>6. CASE /\ monitor.performLock /\ ~closed
           /\ monitor.lockTimers < MaxOneShots
           /\ monitor' = [monitor EXCEPT !.lockTimers = @ + 1, !.performLock = FALSE]
           /\ listener' = [listener EXCEPT !.lidClosed = closed]
           /\ UNCHANGED manager
  <2>1. /\ monitor' \in Monitor
        /\ ~monitor'.performLock /\ monitor'.idleHint = monitor.idleHint
    BY <1>1, <1>6, MonitorUpdates DEF Typed, Monitor
  <2>2. /\ listener' \in Listener /\ ~listener'.lidClosed
        /\ listener'.active = listener.active /\ listener'.blanked = listener.blanked
        /\ listener'.holdsFd = listener.holdsFd
    BY <1>1, <1>2, <1>6 DEF Typed, Listener
  <2>3. QED
    BY <1>1, <1>2, <1>5, <1>6, <2>1, <2>2, ManagerIsSound, Assemble DEF IInv, TypeOK,
       ManagerOK, Typed, Requests, CopiesAgree, DeferredLockHasTrigger, LidLag,
       RequestOnlyWhenVisible, IdleHintTracksScreen
<1>7. CASE /\ manager' = m
           /\ ~(monitor.performLock /\ ~closed)
           /\ listener' = [listener EXCEPT !.lidClosed = closed]
           /\ \/ UNCHANGED monitor
              \/ /\ monitor.switchTimers < MaxOneShots
                 /\ monitor' = [monitor EXCEPT !.switchTimers = @ + 1]
  <2>1. /\ monitor' \in Monitor
        /\ monitor'.performLock = monitor.performLock
        /\ monitor'.idleHint = monitor.idleHint
    BY <1>1, <1>7, MonitorUpdates DEF Typed, Monitor
  <2>2. /\ listener' \in Listener /\ listener'.lidClosed = closed
        /\ listener'.active = listener.active /\ listener'.blanked = listener.blanked
        /\ listener'.holdsFd = listener.holdsFd
    BY <1>1, <1>2, <1>7 DEF Typed, Listener
  <2>3. QED
    BY <1>1, <1>2, <1>3, <1>5, <1>7, <2>1, <2>2, Assemble DEF IInv, TypeOK,
       ManagerOK, Typed, Sound, Requests, CopiesAgree, DeferredLockHasTrigger, LidLag,
       RequestOnlyWhenVisible, IdleHintTracksScreen
<1>8. CASE /\ closed
           /\ manager' = r
           /\ listener' = [listener EXCEPT !.lidClosed = closed, !.active = Accepted(r)]
           /\ UNCHANGED monitor
  <2>1. /\ listener' \in Listener /\ listener'.lidClosed = closed
        /\ listener'.active = r.active /\ listener'.blanked = listener.blanked
        /\ listener'.holdsFd = listener.holdsFd
    BY <1>1, <1>2, <1>4, <1>8 DEF Typed, Listener, Sound, Manager
  <2>2. QED
    BY <1>1, <1>2, <1>3, <1>4, <1>5, <1>8, <2>1, Assemble DEF IInv, TypeOK, SameWorld,
       ManagerOK, Typed, Sound, Requests, CopiesAgree, DeferredLockHasTrigger, LidLag,
       RequestOnlyWhenVisible, IdleHintTracksScreen
<1>9. QED
  BY <1>6, <1>7, <1>8 DEF LidNotice

\* Asking LightDM changes nothing of the world but that it was asked.
LEMMA SendSound ==
    ASSUME LightLockerAssumption, world \in World, NEW what \in Requests, Send(what)
    PROVE  /\ request' \in Requests
           /\ world' \in World
           /\ world'.monitors = world.monitors
           /\ world'.openFds = world.openFds
           /\ world'.idle = world.idle
<1>1. SeatAnswers \subseteq BOOLEAN
  BY DEF SeatAnswers, World
<1>2. QED
  BY <1>1 DEF Send, World, Requests

LEMMA GreeterTimeoutSound ==
    ASSUME ManagerAssumption, LightLockerAssumption, IInv, GreeterTimeout
    PROVE  IInv'
<1>1. Typed
  BY Assemble
<1>2. /\ request' \in Requests /\ world' \in World
      /\ world'.monitors = world.monitors /\ world'.openFds = world.openFds
      /\ world'.idle = world.idle
  BY <1>1, SendSound DEF GreeterTimeout, Typed, Requests
<1>3. /\ Quiet(manager', manager, world.monitors)
      /\ UNCHANGED <<monitor, listener, x11>>
  BY ManagerIsSound, QuietOperations DEF GreeterTimeout
<1>4. manager.visible
  BY ManagerIsSound DEF GreeterTimeout, Sound, ManagerInv, GreeterTimerOK
<1>5. QED
  BY <1>1, <1>2, <1>3, <1>4, Assemble DEF IInv, TypeOK, ManagerOK, Typed, Sound, Quiet,
     SameWorld, CopiesAgree, DeferredLockHasTrigger, LidLag, RequestOnlyWhenVisible,
     IdleHintTracksScreen

\* gs_monitor_lock_session and gs_monitor_switch_greeter ask in the name of a
\* visible session only, and never touch the flags of the manager.
LEMMA AskOrShowSound ==
    ASSUME LightLockerAssumption, IInv, NEW what \in Requests, AskOrShow(manager, what)
    PROVE  /\ request' \in Requests /\ world' \in World
           /\ world'.monitors = world.monitors /\ world'.openFds = world.openFds
           /\ world'.idle = world.idle
           /\ Quiet(manager', manager, world.monitors)
           /\ request' # "none" => manager'.visible
<1>1. Typed
  BY Assemble
<1>2. CASE manager.visible /\ Send(what) /\ manager' = manager
  <2>1. /\ request' \in Requests /\ world' \in World
        /\ world'.monitors = world.monitors /\ world'.openFds = world.openFds
        /\ world'.idle = world.idle
    BY <1>1, <1>2, SendSound DEF Typed
  <2>2. QED
    BY <1>2, <2>1, ManagerIsSound DEF Quiet, SameWorld
<1>3. CASE /\ manager' = ManagerShowContent(manager)
           /\ request' = "none"
           /\ UNCHANGED world
  BY <1>1, <1>3, ManagerIsSound, QuietOperations DEF Typed, Requests
<1>4. QED
  BY <1>2, <1>3 DEF AskOrShow

LEMMA OneShotsSound ==
    ASSUME ManagerAssumption, LightLockerAssumption, IInv,
           LockSessionTimeout \/ SwitchSessionTimeout
    PROVE  IInv'
<1>1. Typed
  BY Assemble
<1>2. /\ request' \in Requests /\ world' \in World
      /\ world'.monitors = world.monitors /\ world'.openFds = world.openFds
      /\ world'.idle = world.idle
      /\ Quiet(manager', manager, world.monitors)
      /\ request' # "none" => manager'.visible
  BY AskOrShowSound DEF LockSessionTimeout, SwitchSessionTimeout, Requests
<1>3. /\ monitor' \in Monitor
      /\ monitor'.performLock = monitor.performLock
      /\ monitor'.idleHint = monitor.idleHint
      /\ UNCHANGED <<listener, x11>>
  BY <1>1, MonitorUpdates DEF LockSessionTimeout, SwitchSessionTimeout, Typed, Monitor
<1>4. QED
  BY <1>1, <1>2, <1>3, Assemble DEF IInv, TypeOK, ManagerOK, Typed, Sound, Quiet,
     SameWorld, CopiesAgree, DeferredLockHasTrigger, LidLag, RequestOnlyWhenVisible,
     IdleHintTracksScreen

LEMMA BlankingChangedSound ==
    ASSUME ManagerAssumption, LightLockerAssumption, IInv,
           NEW active \in BOOLEAN, BlankingChanged(active)
    PROVE  IInv'
<1> DEFINE m == ManagerSetBlankScreen(manager, active)
           due == ~active /\ ~listener.lidClosed /\ monitor.performLock
           hinted == IF monitor.idleHint THEN active ELSE world.idle
<1>1. Typed
  BY Assemble
<1>2. /\ Sound(m, world.monitors)
      /\ m.blank = active /\ m.active = manager.active
      /\ m.visible = manager.visible /\ m.closed = manager.closed
  BY ManagerIsSound, SetBlankScreenSound
<1>3. Quiet(ManagerShowContent(m), m, world.monitors)
  BY <1>2, QuietOperations
<1>4. /\ x11' = active
      /\ listener' = [listener EXCEPT !.blanked = active]
      /\ monitor' = [monitor EXCEPT !.performLock = @ /\ ~due]
  BY DEF BlankingChanged
<1>5. /\ monitor' \in Monitor
      /\ monitor'.performLock = (monitor.performLock /\ ~due)
      /\ monitor'.idleHint = monitor.idleHint
  BY <1>1, <1>4 DEF Typed, Monitor
<1>6. /\ listener' \in Listener /\ listener'.blanked = active
      /\ listener'.active = listener.active /\ listener'.lidClosed = listener.lidClosed
      /\ listener'.holdsFd = listener.holdsFd
  BY <1>1, <1>4 DEF Typed, Listener
<1>7. hinted = (monitor.idleHint /\ active)
  BY <1>1, Assemble DEF Typed, Monitor, IdleHintTracksScreen
<1>8. hinted \in BOOLEAN
  BY <1>1 DEF Typed, World
<1>9. /\ request' \in Requests
      /\ world' \in World
      /\ world'.monitors = world.monitors /\ world'.openFds = world.openFds
      /\ world'.idle = hinted
      /\ manager' \in {m, ManagerShowContent(m)}
      /\ request' # "none" => manager' = m /\ m.visible
  <2>1. SeatAnswers \subseteq BOOLEAN
    BY <1>1 DEF SeatAnswers, Typed, World
  <2>2. CASE due /\ m.visible
    <3>1. PICK seated \in BOOLEAN :
            /\ manager' = m
            /\ request' = IF seated THEN "Lock" ELSE "none"
            /\ world' = [world EXCEPT !.idle = hinted, !.asked = @ \/ seated]
      BY <2>1, <2>2 DEF BlankingChanged
    <3>2. QED
      BY <1>1, <1>8, <2>2, <3>1 DEF Typed, World, Requests
  <2>3. CASE ~(due /\ m.visible)
    <3>1. /\ manager' = IF due THEN ManagerShowContent(m) ELSE m
          /\ request' = "none"
          /\ world' = [world EXCEPT !.idle = hinted]
      BY <2>3 DEF BlankingChanged
    <3>2. QED
      BY <1>1, <1>8, <3>1 DEF Typed, World, Requests
  <2>4. QED
    BY <2>2, <2>3
<1>10. /\ Sound(manager', world.monitors)
       /\ manager'.blank = active /\ manager'.active = manager.active
       /\ manager'.visible = manager.visible /\ manager'.closed = manager.closed
  BY <1>2, <1>3, <1>9 DEF Quiet, SameWorld
<1>11. Typed'
  BY <1>1, <1>4, <1>5, <1>6, <1>9 DEF Typed
<1>12. CopiesAgree' /\ DeferredLockHasTrigger' /\ LidLag'
  BY <1>4, <1>5, <1>6, <1>10, Assemble DEF CopiesAgree, DeferredLockHasTrigger, LidLag
<1>13. RequestOnlyWhenVisible' /\ IdleHintTracksScreen'
  BY <1>2, <1>4, <1>5, <1>7, <1>9 DEF RequestOnlyWhenVisible, IdleHintTracksScreen
<1>14. QED
  BY <1>9, <1>10, <1>11, <1>12, <1>13, Assemble DEF IInv, TypeOK, ManagerOK, Typed, Sound

LEMMA MapEventSound ==
    ASSUME ManagerAssumption, LightLockerAssumption, IInv,
           NEW w \in Monitors, MapEvent(w)
    PROVE  IInv'
<1>1. Typed
  BY Assemble
<1>2. Quiet(manager', manager, world.monitors)
  BY ManagerIsSound, QuietOperations DEF MapEvent
<1>3. /\ world' \in World
      /\ world'.monitors = world.monitors /\ world'.idle = world.idle
  BY ResumedWorldTyped DEF MapEvent
<1>4. /\ listener' \in Listener /\ ~listener'.holdsFd
      /\ listener'.active = listener.active /\ listener'.blanked = listener.blanked
      /\ listener'.lidClosed = listener.lidClosed
  BY <1>1 DEF MapEvent, Typed, Listener
<1>5. request' = "none" /\ UNCHANGED <<monitor, x11>>
  BY DEF MapEvent
<1>6. QED
  BY <1>1, <1>2, <1>3, <1>4, <1>5, Assemble DEF IInv, TypeOK, ManagerOK, Typed, Sound,
     Quiet, SameWorld, Requests, CopiesAgree, DeferredLockHasTrigger, LidLag,
     RequestOnlyWhenVisible, IdleHintTracksScreen

\* A lock that is put off by late locking has the blank screen as its trigger:
\* the lock timer runs for no other reason.
LEMMA LockTimeoutSound ==
    ASSUME ManagerAssumption, LightLockerAssumption, IInv,
           NEW grabbed \in BOOLEAN, LockTimeout(grabbed)
    PROVE  IInv'
<1> DEFINE f == LockFired(manager)
           r == LockScreen(f, grabbed)
<1>1. Typed
  BY Assemble
<1>2. Quiet(f, manager, world.monitors)
  BY ManagerIsSound, QuietOperations
<1>3. /\ Sound(r, world.monitors)
      /\ SameWorld(r, manager)
      /\ Accepted(r) = r.active
  BY <1>2, LockScreenSound DEF Quiet, SameWorld
<1>4. Quiet(ManagerShowContent(r), r, world.monitors)
  BY <1>3, QuietOperations
<1>5. /\ manager' \in {r, ManagerShowContent(r)}
      /\ listener' = [listener EXCEPT !.active = r.active]
      /\ request' = "none"
      /\ UNCHANGED <<x11, world>>
      /\ \/ UNCHANGED monitor
         \/ monitor' = [monitor EXCEPT !.performLock = TRUE]
         \/ /\ monitor.lockTimers < MaxOneShots
            /\ monitor' = [monitor EXCEPT !.lockTimers = @ + 1]
  BY <1>3 DEF LockTimeout
<1>6. /\ Sound(manager', world.monitors)
      /\ SameWorld(manager', manager)
      /\ manager'.active = r.active
  BY <1>3, <1>4, <1>5 DEF Quiet, SameWorld
<1>7. monitor' \in Monitor /\ monitor'.idleHint = monitor.idleHint
  BY <1>1, <1>5, MonitorUpdates DEF Typed, Monitor
<1>8. /\ listener' \in Listener /\ listener'.active = r.active
      /\ listener'.holdsFd = listener.holdsFd /\ listener'.blanked = listener.blanked
      /\ listener'.lidClosed = listener.lidClosed
  BY <1>1, <1>3, <1>5 DEF Typed, Listener, Sound, Manager
<1>9. x11
  BY ManagerIsSound, Assemble DEF LockTimeout, Sound, ManagerInv, LockTimerOK, CopiesAgree
<1>10. QED
  BY <1>1, <1>5, <1>6, <1>7, <1>8, <1>9, Assemble DEF IInv, TypeOK, ManagerOK, Typed,
     Sound, SameWorld, Requests, CopiesAgree, DeferredLockHasTrigger, LidLag,
     RequestOnlyWhenVisible, IdleHintTracksScreen

LEMMA ConfLockOnSuspendSound ==
    ASSUME ManagerAssumption, LightLockerAssumption, IInv,
           NEW taken \in BOOLEAN, ConfLockOnSuspend(taken)
    PROVE  IInv'
<1> DEFINE on == ~monitor.lockOnSuspend
           take == on /\ taken
<1>1. Typed
  BY Assemble
<1>2. /\ monitor' = [monitor EXCEPT !.lockOnSuspend = on]
      /\ OpenFds(take) <= MaxFds
      /\ world' = IF on THEN [world EXCEPT !.openFds = OpenFds(take)] ELSE ResumedWorld
      /\ listener' = [listener EXCEPT !.holdsFd = on /\ (@ \/ take)]
      /\ request' = "none"
      /\ UNCHANGED <<manager, x11>>
  BY DEF ConfLockOnSuspend
<1>3. /\ monitor' \in Monitor /\ monitor'.performLock = monitor.performLock
      /\ monitor'.idleHint = monitor.idleHint
  BY <1>1, <1>2 DEF Typed, Monitor
<1>4. /\ OpenFds(take) \in 0 .. MaxFds
      /\ OpenFds(take) >= world.openFds
      /\ take => OpenFds(take) > 0
  BY <1>1, <1>2 DEF OpenFds, Typed, World, LightLockerAssumption
<1>5. /\ listener' \in Listener
      /\ listener'.holdsFd = (on /\ (listener.holdsFd \/ take))
      /\ listener'.active = listener.active /\ listener'.blanked = listener.blanked
      /\ listener'.lidClosed = listener.lidClosed
  BY <1>1, <1>2 DEF Typed, Listener, Monitor
<1>6. /\ world' \in World
      /\ world'.monitors = world.monitors /\ world'.idle = world.idle
      /\ listener'.holdsFd => world'.openFds > 0
  <2>1. CASE on
    <3>1. /\ world' \in World /\ world'.openFds = OpenFds(take)
          /\ world'.monitors = world.monitors /\ world'.idle = world.idle
      BY <1>1, <1>2, <1>4, <2>1 DEF Typed, World
    <3>2. listener.holdsFd => OpenFds(take) > 0
      <4>1. world.openFds \in Int /\ OpenFds(take) \in Int
        BY <1>1, <1>4 DEF Typed, World
      <4>2. listener.holdsFd => world.openFds > 0
        BY <1>1 DEF Typed
      <4>3. QED
        BY <1>4, <4>1, <4>2
    <3>3. QED
      BY <1>4, <1>5, <3>1, <3>2
  <2>2. CASE ~on
    BY <1>2, <1>5, <2>2, ResumedWorldTyped
  <2>3. QED
    BY <2>1, <2>2
<1>7. QED
  BY <1>1, <1>2, <1>3, <1>5, <1>6, ManagerIsSound, Assemble DEF IInv, TypeOK, ManagerOK,
     Typed, Sound, Requests, CopiesAgree, DeferredLockHasTrigger, LidLag,
     RequestOnlyWhenVisible, IdleHintTracksScreen

\* The other settings.
LEMMA ConfigureSound ==
    ASSUME ManagerAssumption, LightLockerAssumption, IInv,
           \/ ConfLateLocking
           \/ ConfLockOnLid
           \/ ConfIdleHint
           \/ \E lockAfter \in LockAfterValues : ConfLockAfter(lockAfter)
    PROVE  IInv'
<1>1. Typed
  BY Assemble
<1>2. CASE ConfLateLocking \/ ConfLockOnLid
  <2>1. /\ monitor' \in Monitor /\ monitor'.performLock = monitor.performLock
        /\ monitor'.idleHint = monitor.idleHint
    BY <1>1, <1>2 DEF ConfLateLocking, ConfLockOnLid, Typed, Monitor
  <2>2. request' = "none" /\ UNCHANGED <<manager, listener, x11, world>>
    BY <1>2 DEF ConfLateLocking, ConfLockOnLid
  <2>3. QED
    BY <1>1, <2>1, <2>2, ManagerIsSound, Assemble DEF IInv, TypeOK, ManagerOK, Typed,
       Sound, Requests, CopiesAgree, DeferredLockHasTrigger, LidLag,
       RequestOnlyWhenVisible, IdleHintTracksScreen
<1>3. CASE ConfIdleHint
  <2>1. /\ monitor' \in Monitor /\ monitor'.performLock = monitor.performLock
        /\ monitor'.idleHint = ~monitor.idleHint
    BY <1>1, <1>3 DEF ConfIdleHint, Typed, Monitor
  <2>2. request' = "none" /\ UNCHANGED <<manager, listener, x11>>
    BY <1>3 DEF ConfIdleHint
  <2>3. manager.blank = x11
    BY Assemble DEF CopiesAgree
  <2>4. /\ world' \in World /\ world'.monitors = world.monitors
        /\ world'.openFds = world.openFds
        /\ world'.idle = (~monitor.idleHint /\ x11)
    BY <1>1, <1>3, <2>3 DEF ConfIdleHint, Typed, World, Monitor
  <2>5. QED
    BY <1>1, <2>1, <2>2, <2>4, ManagerIsSound, Assemble DEF IInv, TypeOK, ManagerOK,
       Typed, Sound, Requests, CopiesAgree, DeferredLockHasTrigger, LidLag,
       RequestOnlyWhenVisible, IdleHintTracksScreen
<1>4. ASSUME NEW lockAfter \in LockAfterValues, ConfLockAfter(lockAfter)
      PROVE  IInv'
  <2>1. Quiet(manager', manager, world.monitors)
    BY <1>4, ManagerIsSound, QuietOperations DEF ConfLockAfter
  <2>2. request' = "none" /\ UNCHANGED <<monitor, listener, x11, world>>
    BY <1>4 DEF ConfLockAfter
  <2>3. QED
    BY <1>1, <2>1, <2>2, Assemble DEF IInv, TypeOK, ManagerOK, Typed, Sound, Quiet,
       SameWorld, Requests, CopiesAgree, DeferredLockHasTrigger, LidLag,
       RequestOnlyWhenVisible, IdleHintTracksScreen
<1>5. QED
  BY <1>2, <1>3, <1>4

\* What happens outside only adds notices, or changes the monitors under the
\* windows.
LEMMA EnvironmentSound ==
    ASSUME ManagerAssumption, LightLockerAssumption, IInv, Environment
    PROVE  IInv'
<1>1. Typed
  BY Assemble
<1>2. CASE LidMoves \/ SeatMoves
  <2>1. /\ world' \in World /\ world'.monitors = world.monitors
        /\ world'.openFds = world.openFds /\ world'.idle = world.idle
    BY <1>1, <1>2, NoticeUpdates DEF LidMoves, SeatMoves, Typed, World
  <2>2. request' = "none" /\ UNCHANGED <<manager, monitor, listener, x11>>
    BY <1>2 DEF LidMoves, SeatMoves
  <2>3. QED
    BY <1>1, <2>1, <2>2, ManagerIsSound, Assemble DEF IInv, TypeOK, ManagerOK, Typed,
       Sound, Requests, CopiesAgree, DeferredLockHasTrigger, LidLag,
       RequestOnlyWhenVisible, IdleHintTracksScreen
<1>3. ASSUME NEW n \in 1 .. MaxMonitors, MonitorsChanged(n)
      PROVE  IInv'
  <2>1. /\ world' \in World /\ world'.monitors = n
        /\ world'.openFds = world.openFds /\ world'.idle = world.idle
    BY <1>1, <1>3 DEF MonitorsChanged, Typed, World
  <2>2. request' = "none" /\ UNCHANGED <<monitor, listener, x11>>
    BY <1>3 DEF MonitorsChanged
  <2>3. Quiet(manager', manager, n)
    BY <1>3, ManagerIsSound, ResizedSound, UnwatchedSound DEF MonitorsChanged
  <2>4. QED
    BY <1>1, <2>1, <2>2, <2>3, Assemble DEF IInv, TypeOK, ManagerOK, Typed, Sound, Quiet,
       SameWorld, Requests, CopiesAgree, DeferredLockHasTrigger, LidLag,
       RequestOnlyWhenVisible, IdleHintTracksScreen
<1>4. QED
  BY <1>2, <1>3 DEF Environment

-----------------------------------------------------------------------------
(***************************************************************************)
(* Theorems.                                                               *)
(***************************************************************************)

LEMMA NextSound ==
    ManagerAssumption /\ LightLockerAssumption /\ IInv /\ [Next]_vars => IInv'
<1> SUFFICES ASSUME ManagerAssumption, LightLockerAssumption, IInv, [Next]_vars
             PROVE  IInv'
  OBVIOUS
<1>1. InhibitReplies \subseteq BOOLEAN
  BY DEF InhibitReplies
<1>2. CASE Bus
  BY <1>1, <1>2, SessionLockSound, LogindLockSound, LidNoticeSound, SuspendSound,
     LogindUnlockSound, SeatNoticeSound, ResumeSound DEF Bus, Messages, SleepMessages
<1>3. CASE MainLoop
  BY <1>3, BlankingChangedSound, MapEventSound, LockTimeoutSound, GreeterTimeoutSound,
     OneShotsSound DEF MainLoop, Scheduled
<1>4. CASE Configure
  BY <1>1, <1>4, ConfLockOnSuspendSound, ConfigureSound DEF Configure, Preferences
<1>5. CASE Environment
  BY <1>5, EnvironmentSound
<1>6. CASE UNCHANGED vars
  BY <1>6 DEF vars, IInv, TypeOK, ManagerOK, CopiesAgree, DeferredLockHasTrigger, LidLag,
     RequestOnlyWhenVisible, IdleHintTracksScreen
<1>7. QED
  BY <1>2, <1>3, <1>4, <1>5, <1>6 DEF Next

\* Every reachable state of light-locker satisfies the invariant.
THEOREM AlwaysSound == Spec => []IInv
BY ManagerAssumption, LightLockerAssumption, InitSound, NextSound, PTL DEF Spec

\* The variables keep their types, and no delay lock is closed that is not open.
THEOREM TypeCorrect == Spec => []TypeOK
<1>1. IInv => TypeOK
  BY DEF IInv
<1>2. QED
  BY <1>1, AlwaysSound, PTL

\* The windows and timers of GSManager are right under its real caller.
THEOREM ManagerIsOK == Spec => []ManagerOK
<1>1. IInv => ManagerOK
  BY DEF IInv
<1>2. QED
  BY <1>1, AlwaysSound, PTL

\* The copies of `active' and of the screen saver's state never part, so an
\* Unlock is never refused while the windows are up.
THEOREM CopiesAlwaysAgree == Spec => []CopiesAgree
<1>1. IInv => CopiesAgree
  BY DEF IInv
<1>2. QED
  BY <1>1, AlwaysSound, PTL

\* A deferred lock always has an event left that performs it.
THEOREM NoLockIsForgotten == Spec => []DeferredLockHasTrigger
<1>1. IInv => DeferredLockHasTrigger
  BY DEF IInv
<1>2. QED
  BY <1>1, AlwaysSound, PTL

\* LightDM is never asked for a VT switch by a session it believes hidden.
THEOREM RequestsAreVisible == Spec => []RequestOnlyWhenVisible
<1>1. IInv => RequestOnlyWhenVisible
  BY DEF IInv
<1>2. QED
  BY <1>1, AlwaysSound, PTL

\* The 10 s timer does not run behind a lid the listener has seen closed.
THEOREM NoTimedSwitchBehindLid == Spec => []NoTimedSwitchUnderClosedLid
<1>1. IInv => NoTimedSwitchUnderClosedLid
  BY DEF IInv, ManagerOK, ManagerInv, GreeterTimerOK, LidLag, NoTimedSwitchUnderClosedLid
<1>2. QED
  BY <1>1, AlwaysSound, PTL

\* logind is told what the setting and the screen saver say.
THEOREM IdleHintIsExact == Spec => []IdleHintTracksScreen
<1>1. IInv => IdleHintTracksScreen
  BY DEF IInv
<1>2. QED
  BY <1>1, AlwaysSound, PTL

-----------------------------------------------------------------------------
(***************************************************************************)
(* The delay lock.  Three actions take or release it; under the others it, *)
(* the setting and the lock screen stay.                                   *)
(***************************************************************************)

Steady ==
    /\ listener'.holdsFd = listener.holdsFd
    /\ world'.openFds = world.openFds
    /\ monitor'.lockOnSuspend = monitor.lockOnSuspend
    /\ manager.active => manager'.active
    /\ manager'.mapped \subseteq manager.mapped
    /\ \/ manager'.mapped = manager.mapped
       \/ \E n \in 1 .. MaxMonitors : MonitorsChanged(n)

\* Redrawing the windows and a timer that fired leave the windows alone.
LEMMA SameWindows ==
    ASSUME NEW m \in Manager
    PROVE  /\ ManagerShowContent(m).active = m.active
           /\ ManagerShowContent(m).mapped = m.mapped
           /\ LockFired(m).active = m.active
           /\ LockFired(m).mapped = m.mapped
           /\ SwitchGreeterFired(m).active = m.active
           /\ SwitchGreeterFired(m).mapped = m.mapped
           /\ \A a : /\ ManagerSetLockAfter(m, a).active = m.active
                     /\ ManagerSetLockAfter(m, a).mapped = m.mapped
BY DEF ManagerShowContent, LockFired, SwitchGreeterFired, ManagerSetLockAfter, Manager

LEMMA MessagesSteady ==
    ASSUME ManagerAssumption, LightLockerAssumption, IInv, Messages \/ SleepMessages
    PROVE  Steady
<1>1. Typed /\ manager \in Manager
  BY Assemble DEF Sound
<1>2. ASSUME NEW grabbed \in BOOLEAN, SessionLock(grabbed)
      PROVE  Steady
  <2> DEFINE r == LockScreen(manager, grabbed)
  <2>1. /\ r \in Manager /\ r.mapped = manager.mapped
        /\ manager.active => r.active
    BY ManagerIsSound, LockScreenSound DEF Sound
  <2>2. manager' \in {r, ManagerShowContent(r)}
    BY <1>2 DEF SessionLock
  <2>3. manager'.active = r.active /\ manager'.mapped = r.mapped
    BY <2>1, <2>2, SameWindows
  <2>4. listener'.holdsFd = listener.holdsFd /\ world'.openFds = world.openFds
    BY <1>1, <1>2 DEF SessionLock, Typed, Listener, World
  <2>5. monitor'.lockOnSuspend = monitor.lockOnSuspend
    BY <1>1, <1>2 DEF SessionLock, Typed, Monitor
  <2>6. QED
    BY <2>1, <2>3, <2>4, <2>5 DEF Steady
<1>3. ASSUME NEW grabbed \in BOOLEAN, LogindLock(grabbed)
      PROVE  Steady
  <2> DEFINE c == ManagerShowContent(manager)
             r == LockScreen(c, grabbed)
  <2>1. /\ Sound(c, world.monitors)
        /\ c.active = manager.active /\ c.mapped = manager.mapped
    BY <1>1, ManagerIsSound, QuietOperations, SameWindows DEF Quiet
  <2>2. r.mapped = manager.mapped /\ (manager.active => r.active)
    BY <2>1, LockScreenSound
  <2>3. /\ manager' = r
        /\ listener'.holdsFd = listener.holdsFd
        /\ world' = world
        /\ monitor'.lockOnSuspend = monitor.lockOnSuspend
    BY <1>1, <1>3 DEF LogindLock, Typed, Listener, Monitor
  <2>4. QED
    BY <2>2, <2>3 DEF Steady
<1>4. ASSUME NEW grabbed \in BOOLEAN, NEW closed \in BOOLEAN, LidNotice(grabbed, closed)
      PROVE  Steady
  <2> DEFINE m == ManagerSetLidClosed(manager, closed)
             r == LockScreen(m, grabbed)
  <2>1. closed \in BOOLEAN
    OBVIOUS
  <2>2. /\ Sound(m, world.monitors)
        /\ m.active = manager.active /\ m.mapped = manager.mapped
    BY <2>1, ManagerIsSound, SetLidClosedSound
  <2>3. r.mapped = manager.mapped /\ (manager.active => r.active)
    BY <2>2, LockScreenSound
  <2>4. manager' \in {manager, m, r}
    BY <1>4 DEF LidNotice
  <2>5. listener'.holdsFd = listener.holdsFd /\ world'.openFds = world.openFds
    BY <1>1, <1>4 DEF LidNotice, Typed, Listener, World
  <2>6. monitor'.lockOnSuspend = monitor.lockOnSuspend
    BY <1>1, <1>4 DEF LidNotice, Typed, Monitor
  <2>7. QED
    BY <2>2, <2>3, <2>4, <2>5, <2>6 DEF Steady
<1>5. ASSUME NEW grabbed \in BOOLEAN, Suspend(grabbed)
      PROVE  Steady
  <2> DEFINE r == LockScreen(manager, grabbed)
  <2>1. r.mapped = manager.mapped /\ (manager.active => r.active)
    BY ManagerIsSound, LockScreenSound
  <2>2. QED
    BY <1>1, <1>5, <2>1 DEF Suspend, Steady, Typed, Listener
<1>6. CASE SeatNotice
  <2>1. PICK seated \in BOOLEAN : manager' = ManagerSetSessionVisible(manager, seated)
    BY <1>1, <1>6, SeatSeenTyped DEF SeatNotice
  <2>2. manager'.active = manager.active /\ manager'.mapped = manager.mapped
    BY <2>1, ManagerIsSound, SetSessionVisibleSound
  <2>3. QED
    BY <1>1, <1>6, <2>2 DEF SeatNotice, Steady, Typed, World
<1>7. CASE Resume
  BY <1>1, <1>7 DEF Resume, Steady, Typed, Monitor
<1>8. QED
  BY <1>2, <1>3, <1>4, <1>5, <1>6, <1>7 DEF Messages, SleepMessages

LEMMA MainLoopSteady ==
    ASSUME ManagerAssumption, LightLockerAssumption, IInv, MainLoop
    PROVE  Steady \/ \E w \in Monitors : MapEvent(w)
<1>1. Typed /\ manager \in Manager
  BY Assemble DEF Sound
<1>2. ASSUME NEW active \in BOOLEAN, BlankingChanged(active)
      PROVE  Steady
  <2> DEFINE m == ManagerSetBlankScreen(manager, active)
  <2>1. /\ m \in Manager
        /\ m.active = manager.active /\ m.mapped = manager.mapped
    BY ManagerIsSound, SetBlankScreenSound DEF Sound
  <2>2. manager' \in {m, ManagerShowContent(m)}
    BY <1>2 DEF BlankingChanged
  <2>3. manager'.active = manager.active /\ manager'.mapped = manager.mapped
    BY <2>1, <2>2, SameWindows
  <2>4. listener'.holdsFd = listener.holdsFd /\ world'.openFds = world.openFds
    BY <1>1, <1>2 DEF BlankingChanged, Typed, Listener, World
  <2>5. monitor'.lockOnSuspend = monitor.lockOnSuspend
    BY <1>1, <1>2 DEF BlankingChanged, Typed, Monitor
  <2>6. QED
    BY <2>3, <2>4, <2>5 DEF Steady
<1>3. ASSUME NEW grabbed \in BOOLEAN, LockTimeout(grabbed)
      PROVE  Steady
  <2> DEFINE f == LockFired(manager)
             r == LockScreen(f, grabbed)
  <2>1. /\ Sound(f, world.monitors)
        /\ f.active = manager.active /\ f.mapped = manager.mapped
    BY <1>1, ManagerIsSound, QuietOperations, SameWindows DEF Quiet
  <2>2. /\ r \in Manager /\ r.mapped = manager.mapped
        /\ manager.active => r.active
    BY <2>1, LockScreenSound DEF Sound
  <2>3. manager' \in {r, ManagerShowContent(r)}
    BY <1>3 DEF LockTimeout
  <2>4. manager'.active = r.active /\ manager'.mapped = r.mapped
    BY <2>2, <2>3, SameWindows
  <2>5. listener'.holdsFd = listener.holdsFd /\ world'.openFds = world.openFds
    BY <1>1, <1>3 DEF LockTimeout, Typed, Listener, World
  <2>6. monitor'.lockOnSuspend = monitor.lockOnSuspend
    BY <1>1, <1>3 DEF LockTimeout, Typed, Monitor
  <2>7. QED
    BY <2>2, <2>4, <2>5, <2>6 DEF Steady
<1>4. CASE GreeterTimeout
  BY <1>1, <1>4, SameWindows DEF GreeterTimeout, Send, Steady, Typed, World
<1>5. CASE LockSessionTimeout \/ SwitchSessionTimeout
  <2>1. manager' \in {manager, ManagerShowContent(manager)}
    BY <1>5 DEF LockSessionTimeout, SwitchSessionTimeout, AskOrShow
  <2>2. manager'.active = manager.active /\ manager'.mapped = manager.mapped
    BY <1>1, <2>1, SameWindows
  <2>3. /\ monitor'.lockOnSuspend = monitor.lockOnSuspend
        /\ UNCHANGED listener
        /\ world'.openFds = world.openFds
    BY <1>1, <1>5 DEF LockSessionTimeout, SwitchSessionTimeout, AskOrShow, Send, Typed,
       Monitor, World
  <2>4. QED
    BY <2>2, <2>3 DEF Steady
<1>6. QED
  BY <1>2, <1>3, <1>4, <1>5 DEF MainLoop, Scheduled

LEMMA RestSteady ==
    ASSUME ManagerAssumption, LightLockerAssumption, IInv, Preferences \/ Environment
    PROVE  Steady
<1>1. Typed /\ manager \in Manager
  BY Assemble DEF Sound
<1>2. CASE ConfLateLocking \/ ConfLockOnLid \/ ConfIdleHint
  BY <1>1, <1>2 DEF ConfLateLocking, ConfLockOnLid, ConfIdleHint, Steady, Typed, Monitor,
     World
<1>3. ASSUME NEW lockAfter \in LockAfterValues, ConfLockAfter(lockAfter)
      PROVE  Steady
  BY <1>1, <1>3, SameWindows DEF ConfLockAfter, Steady
<1>4. CASE LidMoves \/ SeatMoves
  BY <1>1, <1>4 DEF LidMoves, SeatMoves, Steady, Typed, World
<1>5. ASSUME NEW n \in 1 .. MaxMonitors, MonitorsChanged(n)
      PROVE  Steady
  <2>1. manager'.active = manager.active /\ manager'.mapped \subseteq manager.mapped
    BY <1>5, ManagerIsSound, ResizedSound DEF MonitorsChanged, Quiet
  <2>2. QED
    BY <1>1, <1>5, <2>1 DEF MonitorsChanged, Steady, Typed, World
<1>6. QED
  BY <1>2, <1>3, <1>4, <1>5 DEF Preferences, Environment

\* The four kinds of steps, as the delay lock sees them.
LEMMA DelayLockSteps ==
    ASSUME ManagerAssumption, LightLockerAssumption, IInv, [Next]_vars
    PROVE  \/ Steady
           \/ \E taken \in InhibitReplies : LogindUnlock(taken)
           \/ \E w \in Monitors : MapEvent(w)
           \/ \E taken \in InhibitReplies : ConfLockOnSuspend(taken)
<1>1. CASE UNCHANGED vars
  BY <1>1 DEF vars, Steady
<1>2. QED
  BY <1>1, MessagesSteady, MainLoopSteady, RestSteady DEF Next, Bus, Configure

\* If logind grants every delay lock, an unlocked session with lock-on-suspend
\* always holds one.
THEOREM SuspendIsDelayed ==
    ASSUME InhibitFails = FALSE
    PROVE  Spec => []SuspendDelayedWhileUnlocked
<1> USE ManagerAssumption, LightLockerAssumption
<1>1. InhibitReplies = {TRUE}
  BY DEF InhibitReplies
<1>2. Init => SuspendDelayedWhileUnlocked
  <2> SUFFICES ASSUME Init
               PROVE  SuspendDelayedWhileUnlocked
    OBVIOUS
  <2>1. PICK s \in Settings :
          /\ monitor.lockOnSuspend = s.lockOnSuspend
          /\ listener.holdsFd = (s.lockOnSuspend /\ TRUE)
    BY <1>1 DEF Init
  <2>2. s.lockOnSuspend \in BOOLEAN
    BY DEF LightLockerAssumption, SettingRecords
  <2>3. QED
    BY <2>1, <2>2 DEF SuspendDelayedWhileUnlocked
<1>3. IInv /\ SuspendDelayedWhileUnlocked /\ [Next]_vars => SuspendDelayedWhileUnlocked'
  <2> SUFFICES ASSUME IInv, SuspendDelayedWhileUnlocked, [Next]_vars
               PROVE  SuspendDelayedWhileUnlocked'
    OBVIOUS
  <2>1. Typed
    BY Assemble
  <2>2. CASE Steady
    <3>1. manager.active \in BOOLEAN /\ (manager.active => manager'.active)
      BY <2>2, ManagerIsSound DEF Steady, Sound, Manager
    <3>2. QED
      BY <2>2, <3>1 DEF Steady, SuspendDelayedWhileUnlocked
  <2>3. CASE LogindUnlock(TRUE)
    <3>1. CASE ~listener.active
      BY <2>3, <3>1 DEF LogindUnlock, SuspendDelayedWhileUnlocked
    <3>2. CASE listener.active
      <4>1. /\ UNCHANGED monitor
            /\ listener'.holdsFd = (listener.holdsFd \/ monitor.lockOnSuspend)
        BY <2>1, <2>3, <3>2 DEF LogindUnlock, TakesDelay, Typed, Listener, Monitor
      <4>2. QED
        BY <4>1 DEF SuspendDelayedWhileUnlocked
    <3>3. QED
      BY <3>1, <3>2
  <2>4. ASSUME NEW w \in Monitors, MapEvent(w)
        PROVE  SuspendDelayedWhileUnlocked'
    <3>1. manager.active /\ w \in manager.windows
      BY <2>4, ManagerIsSound DEF MapEvent, Sound, ManagerInv, WindowsOK
    <3>2. manager'.active
      BY <2>4, <3>1, ManagerIsSound, QuietOperations DEF MapEvent, Quiet
    <3>3. QED
      BY <3>2 DEF SuspendDelayedWhileUnlocked
  <2>5. CASE ConfLockOnSuspend(TRUE)
    BY <2>1, <2>5 DEF ConfLockOnSuspend, SuspendDelayedWhileUnlocked, Typed, Listener, Monitor
  <2>6. QED
    BY <1>1, <2>2, <2>3, <2>4, <2>5, DelayLockSteps
<1>4. QED
  BY <1>2, <1>3, AlwaysSound, PTL DEF Spec

\* With lock-on-suspend fixed, a mapped lock window means that no delay lock is
\* held, however often the session is unlocked and locked again.
THEOREM SuspendIsFreeOnceMapped ==
    ASSUME "lockOnSuspend" \notin Mutable
    PROVE  Spec => []SuspendFreeOnceMapped
<1> USE ManagerAssumption, LightLockerAssumption
<1>1. Init => SuspendFreeOnceMapped
  BY DEF Init, SuspendFreeOnceMapped, NewManager
<1>2. IInv /\ SuspendFreeOnceMapped /\ [Next]_vars => SuspendFreeOnceMapped'
  <2> SUFFICES ASSUME IInv, SuspendFreeOnceMapped, [Next]_vars
               PROVE  SuspendFreeOnceMapped'
    OBVIOUS
  <2>1. Typed
    BY Assemble
  <2>2. CASE Steady
    BY <2>2 DEF Steady, SuspendFreeOnceMapped
  <2>3. ASSUME NEW taken \in InhibitReplies, LogindUnlock(taken)
        PROVE  SuspendFreeOnceMapped'
    <3>1. CASE ~listener.active
      BY <2>3, <3>1 DEF LogindUnlock, SuspendFreeOnceMapped
    <3>2. CASE listener.active
      <4>1. manager'.mapped = {}
        BY <2>3, <3>2, ManagerIsSound, DeactivateSound DEF LogindUnlock
      <4>2. QED
        BY <4>1 DEF SuspendFreeOnceMapped
    <3>3. QED
      BY <3>1, <3>2
  <2>4. ASSUME NEW w \in Monitors, MapEvent(w)
        PROVE  SuspendFreeOnceMapped'
    BY <2>1, <2>4 DEF MapEvent, SuspendFreeOnceMapped, Typed, Listener
  <2>5. ASSUME NEW taken \in InhibitReplies, ConfLockOnSuspend(taken)
        PROVE  SuspendFreeOnceMapped'
    BY <2>5 DEF ConfLockOnSuspend
  <2>6. QED
    BY <2>2, <2>3, <2>4, <2>5, DelayLockSteps
<1>3. QED
  BY <1>1, <1>2, AlwaysSound, PTL DEF Spec

\* No step but the map event of a lock window, or the user turning the setting
\* off, lets the delay lock go.
THEOREM DelayLockIsKept == Spec => ReleaseOnlyBehindLock
<1> USE ManagerAssumption, LightLockerAssumption
<1> DEFINE Kept ==
      listener.holdsFd /\ ~listener'.holdsFd
      => \/ manager.active /\ manager.mapped # manager'.mapped
         \/ ~monitor'.lockOnSuspend
<1>1. IInv /\ [Next]_vars => Kept
  <2> SUFFICES ASSUME IInv, [Next]_vars
               PROVE  Kept
    OBVIOUS
  <2>1. Typed
    BY Assemble
  <2>2. CASE Steady
    BY <2>2 DEF Steady
  <2>3. ASSUME NEW taken \in InhibitReplies, LogindUnlock(taken)
        PROVE  Kept
    <3>1. listener.holdsFd => listener'.holdsFd
      BY <2>1, <2>3 DEF LogindUnlock, Typed, Listener
    <3>2. QED
      BY <3>1
  <2>4. ASSUME NEW w \in Monitors, MapEvent(w)
        PROVE  Kept
    <3>1. manager.active
      BY <2>4, ManagerIsSound DEF MapEvent, Sound, ManagerInv, WindowsOK
    <3>2. manager'.mapped = manager.mapped \cup {w} /\ w \notin manager.mapped
      BY <2>4, ManagerIsSound DEF MapEvent, WindowMapped, Sound, Manager
    <3>3. QED
      BY <3>1, <3>2
  <2>5. ASSUME NEW taken \in InhibitReplies, ConfLockOnSuspend(taken)
        PROVE  Kept
    <3>1. taken \in BOOLEAN
      BY DEF InhibitReplies
    <3>2. /\ listener'.holdsFd = (~monitor.lockOnSuspend
                                  /\ (listener.holdsFd \/ (~monitor.lockOnSuspend /\ taken)))
          /\ monitor'.lockOnSuspend = ~monitor.lockOnSuspend
      BY <2>1, <2>5, <3>1 DEF ConfLockOnSuspend, Typed, Listener, Monitor
    <3>3. QED
      BY <3>2
  <2>6. QED
    BY <2>2, <2>3, <2>4, <2>5, DelayLockSteps
<1>2. QED
  BY <1>1, AlwaysSound, PTL DEF Spec, ReleaseOnlyBehindLock

\* light-locker holds a delay lock only with lock-on-suspend.
FdOnlyIfAsked == listener.holdsFd => monitor.lockOnSuspend

\* The delay locks that light-locker took and can no longer release.
LeakedFds == world.openFds - (IF listener.holdsFd THEN 1 ELSE 0)

\* A descriptor leaks for good, one at a time, and in one way only: the session is
\* unlocked while the delay lock of the last unlock is still held, which with a
\* fixed setting means before any lock window was mapped
\* (gs-listener-dbus.c:405, 469).
LeaksOnlyByUnlock ==
    [][ LeakedFds' # LeakedFds =>
            /\ LeakedFds' = LeakedFds + 1
            /\ listener.holdsFd /\ manager.active /\ ~manager'.active
            /\ "lockOnSuspend" \notin Mutable => manager.mapped = {} ]_vars

\* For any settings, each leaked descriptor is due to one early unlock.
THEOREM LeakNeedsEarlyUnlock == Spec => []FdOnlyIfAsked /\ LeaksOnlyByUnlock
<1> USE ManagerAssumption, LightLockerAssumption
<1>1. Init => FdOnlyIfAsked
  BY DEF Init, InhibitReplies, FdOnlyIfAsked, SettingRecords
<1>2. IInv /\ FdOnlyIfAsked /\ [Next]_vars => FdOnlyIfAsked'
  <2> SUFFICES ASSUME IInv, FdOnlyIfAsked, [Next]_vars
               PROVE  FdOnlyIfAsked'
    OBVIOUS
  <2>1. Typed
    BY Assemble
  <2>2. CASE Steady
    BY <2>2 DEF Steady, FdOnlyIfAsked
  <2>3. ASSUME NEW taken \in InhibitReplies, LogindUnlock(taken)
        PROVE  FdOnlyIfAsked'
    BY <2>1, <2>3 DEF LogindUnlock, TakesDelay, FdOnlyIfAsked, Typed, Listener, InhibitReplies
  <2>4. ASSUME NEW w \in Monitors, MapEvent(w)
        PROVE  FdOnlyIfAsked'
    BY <2>1, <2>4 DEF MapEvent, FdOnlyIfAsked, Typed, Listener
  <2>5. ASSUME NEW taken \in InhibitReplies, ConfLockOnSuspend(taken)
        PROVE  FdOnlyIfAsked'
    BY <2>1, <2>5 DEF ConfLockOnSuspend, FdOnlyIfAsked, Typed, Listener, Monitor,
       InhibitReplies
  <2>6. QED
    BY <2>2, <2>3, <2>4, <2>5, DelayLockSteps
<1>3. ASSUME IInv, FdOnlyIfAsked, [Next]_vars, LeakedFds' # LeakedFds
      PROVE  /\ LeakedFds' = LeakedFds + 1
             /\ listener.holdsFd /\ manager.active /\ ~manager'.active
  <2>1. /\ Typed /\ world.openFds \in Nat
        /\ manager.active = listener.active
        /\ listener.holdsFd \in BOOLEAN /\ monitor.lockOnSuspend \in BOOLEAN
    BY <1>3, Assemble DEF Typed, World, Listener, Monitor, IInv, CopiesAgree
  <2>2. CASE Steady
    BY <1>3, <2>2 DEF Steady, LeakedFds
  <2>3. ASSUME NEW taken \in InhibitReplies, LogindUnlock(taken)
        PROVE  /\ LeakedFds' = LeakedFds + 1
               /\ listener.holdsFd /\ manager.active /\ ~manager'.active
    <3>1. listener.active
      BY <1>3, <2>3 DEF LogindUnlock, LeakedFds
    <3>2. ~manager'.active
      BY <1>3, <2>3, <3>1, ManagerIsSound, DeactivateSound DEF LogindUnlock
    <3>3. /\ listener'.holdsFd = (listener.holdsFd \/ TakesDelay(taken))
          /\ world'.openFds = world.openFds + (IF TakesDelay(taken) THEN 1 ELSE 0)
          /\ TakesDelay(taken) \in BOOLEAN
      BY <2>1, <2>3, <3>1 DEF LogindUnlock, OpenFds, TakesDelay, Typed, World, Listener,
         InhibitReplies
    <3>4. QED
      BY <1>3, <2>1, <3>1, <3>2, <3>3 DEF LeakedFds
  <2>4. ASSUME NEW w \in Monitors, MapEvent(w)
        PROVE  FALSE
    BY <1>3, <2>1, <2>4 DEF MapEvent, ResumedWorld, LeakedFds, Typed, World, Listener
  <2>5. ASSUME NEW taken \in InhibitReplies, ConfLockOnSuspend(taken)
        PROVE  FALSE
    <3>1. CASE monitor.lockOnSuspend
      <4>1. /\ world' = ResumedWorld
            /\ ~listener'.holdsFd
        BY <2>1, <2>5, <3>1 DEF ConfLockOnSuspend, Typed, Listener
      <4>2. world'.openFds = world.openFds - (IF listener.holdsFd THEN 1 ELSE 0)
        BY <2>1, <4>1 DEF ResumedWorld, Typed, World
      <4>3. LeakedFds' = LeakedFds
        BY <2>1, <4>1, <4>2 DEF LeakedFds
      <4>4. QED
        BY <1>3, <4>3
    <3>2. CASE ~monitor.lockOnSuspend
      <4>1. ~listener.holdsFd
        BY <1>3, <3>2 DEF FdOnlyIfAsked
      <4>2. /\ world' = [world EXCEPT !.openFds = OpenFds(taken)]
            /\ listener'.holdsFd = taken
            /\ taken \in BOOLEAN
        <5>1. (~monitor.lockOnSuspend /\ taken) = taken /\ taken \in BOOLEAN
          BY <2>5, <3>2 DEF InhibitReplies
        <5>2. listener' = [listener EXCEPT !.holdsFd = taken]
          BY <2>5, <3>2, <4>1, <5>1, Zenon DEF ConfLockOnSuspend
        <5>3. world' = [world EXCEPT !.openFds = OpenFds(taken)]
          BY <2>5, <3>2, <5>1, Zenon DEF ConfLockOnSuspend
        <5>4. QED
          BY <2>1, <5>1, <5>2, <5>3 DEF Typed, Listener
      <4>3. CASE taken
        <5>1. world'.openFds = world.openFds + 1 /\ listener'.holdsFd
          BY <2>1, <4>2, <4>3 DEF OpenFds, Typed, World
        <5>2. LeakedFds' = LeakedFds
          BY <2>1, <4>1, <5>1 DEF LeakedFds
        <5>3. QED
          BY <1>3, <5>2
      <4>4. CASE ~taken
        <5>1. world'.openFds = world.openFds /\ ~listener'.holdsFd
          BY <2>1, <4>2, <4>4 DEF OpenFds, Typed, World
        <5>2. LeakedFds' = LeakedFds
          BY <4>1, <5>1 DEF LeakedFds
        <5>3. QED
          BY <1>3, <5>2
      <4>5. QED
        BY <4>2, <4>3, <4>4
    <3>3. QED
      BY <2>1, <3>1, <3>2
  <2>6. QED
    BY <1>3, <2>2, <2>3, <2>4, <2>5, DelayLockSteps
<1>4. CASE "lockOnSuspend" \notin Mutable
  <2>1. SuspendFreeOnceMapped /\ listener.holdsFd => manager.mapped = {}
    BY DEF SuspendFreeOnceMapped
  <2>2. IInv /\ FdOnlyIfAsked /\ SuspendFreeOnceMapped /\ [Next]_vars =>
           [ LeakedFds' # LeakedFds =>
                /\ LeakedFds' = LeakedFds + 1
                /\ listener.holdsFd /\ manager.active /\ ~manager'.active
                /\ "lockOnSuspend" \notin Mutable => manager.mapped = {} ]_vars
    BY <1>3, <2>1
  <2>3. Spec => []SuspendFreeOnceMapped
    BY <1>4, SuspendIsFreeOnceMapped
  <2>4. QED
    BY <1>1, <1>2, <2>2, <2>3, AlwaysSound, PTL DEF Spec, LeaksOnlyByUnlock
<1>5. CASE "lockOnSuspend" \in Mutable
  <2>1. IInv /\ FdOnlyIfAsked /\ [Next]_vars =>
           [ LeakedFds' # LeakedFds =>
                /\ LeakedFds' = LeakedFds + 1
                /\ listener.holdsFd /\ manager.active /\ ~manager'.active
                /\ "lockOnSuspend" \notin Mutable => manager.mapped = {} ]_vars
    BY <1>3, <1>5
  <2>2. QED
    BY <1>1, <1>2, <2>1, AlwaysSound, PTL DEF Spec, LeaksOnlyByUnlock
<1>6. QED
  BY <1>4, <1>5

-----------------------------------------------------------------------------
(***************************************************************************)
(* The views of the seat and the lid.  Only their moves and the notices    *)
(* touch them.                                                             *)
(***************************************************************************)

SameViews ==
    /\ manager'.visible = manager.visible /\ manager'.closed = manager.closed
    /\ listener'.lidClosed = listener.lidClosed
    /\ world'.seat = world.seat /\ world'.seatNotices = world.seatNotices
    /\ world'.lid = world.lid /\ world'.lidNotices = world.lidNotices

\* Asking LightDM, or showing the message instead.
LEMMA AskingSameViews ==
    ASSUME IInv, NEW m, Sound(m, world.monitors), UNCHANGED listener,
           m.visible = manager.visible /\ m.closed = manager.closed
    PROVE  /\ \A what : Send(what) /\ manager' = m => SameViews
           /\ \A what : AskOrShow(m, what) => SameViews
<1>1. world \in World
  BY Assemble DEF Typed
<1>2. /\ ManagerShowContent(m).visible = m.visible
      /\ ManagerShowContent(m).closed = m.closed
  BY DEF ManagerShowContent, Sound, Manager
<1>3. ASSUME NEW what, Send(what)
      PROVE  /\ world'.seat = world.seat /\ world'.seatNotices = world.seatNotices
             /\ world'.lid = world.lid /\ world'.lidNotices = world.lidNotices
  BY <1>1, <1>3 DEF Send, World
<1>4. ASSUME NEW what, AskOrShow(m, what)
      PROVE  SameViews
  <2>1. CASE Send(what) /\ manager' = m
    BY <1>3, <2>1 DEF SameViews
  <2>2. CASE manager' = ManagerShowContent(m) /\ UNCHANGED world
    BY <1>2, <2>2 DEF SameViews
  <2>3. QED
    BY <1>4, <2>1, <2>2 DEF AskOrShow
<1>5. QED
  BY <1>3, <1>4 DEF SameViews

LEMMA BusSameViews ==
    ASSUME ManagerAssumption, LightLockerAssumption, IInv, Bus
    PROVE  \/ SameViews
           \/ SeatNotice
           \/ \E grabbed, closed \in BOOLEAN : LidNotice(grabbed, closed)
<1>1. Typed /\ manager \in Manager
  BY Assemble DEF Sound
<1>2. ASSUME NEW grabbed \in BOOLEAN, SessionLock(grabbed)
      PROVE  SameViews
  <2> DEFINE r == LockScreen(manager, grabbed)
  <2>1. /\ Sound(r, world.monitors)
        /\ r.visible = manager.visible
        /\ r.closed = manager.closed
    BY ManagerIsSound, LockScreenSound DEF SameWorld
  <2>2. /\ ManagerShowContent(r).visible = r.visible
        /\ ManagerShowContent(r).closed = r.closed
    BY <2>1 DEF ManagerShowContent, Sound, Manager
  <2>3. manager' \in {r, ManagerShowContent(r)}
    BY <1>2 DEF SessionLock
  <2>4. UNCHANGED world /\ listener'.lidClosed = listener.lidClosed
    BY <1>1, <1>2 DEF SessionLock, Typed, Listener
  <2>5. QED
    BY <2>1, <2>2, <2>3, <2>4 DEF SameViews
<1>3. ASSUME NEW grabbed \in BOOLEAN, LogindLock(grabbed)
      PROVE  SameViews
  <2> DEFINE c == ManagerShowContent(manager)
             r == LockScreen(c, grabbed)
  <2>1. /\ Sound(c, world.monitors) /\ c.active = manager.active
        /\ c.visible = manager.visible /\ c.closed = manager.closed
    BY <1>1, ManagerIsSound, QuietOperations, SameWindows DEF Quiet, SameWorld
  <2>2. r.visible = manager.visible /\ r.closed = manager.closed
    BY <2>1, LockScreenSound DEF SameWorld
  <2>3. manager' = r /\ UNCHANGED world /\ listener'.lidClosed = listener.lidClosed
    BY <1>1, <1>3 DEF LogindLock, Typed, Listener
  <2>4. QED
    BY <2>2, <2>3 DEF SameViews
<1>4. ASSUME NEW grabbed \in BOOLEAN, Suspend(grabbed)
      PROVE  SameViews
  <2>1. /\ LockScreen(manager, grabbed).visible = manager.visible
        /\ LockScreen(manager, grabbed).closed = manager.closed
    BY ManagerIsSound, LockScreenSound DEF SameWorld
  <2>2. QED
    BY <1>1, <1>4, <2>1 DEF Suspend, SameViews, Typed, Listener
<1>5. CASE Resume
  BY <1>5 DEF Resume, SameViews
<1>6. ASSUME NEW taken \in InhibitReplies, LogindUnlock(taken)
      PROVE  SameViews
  <2>1. /\ Deactivate(manager).visible = manager.visible
        /\ Deactivate(manager).closed = manager.closed
    BY ManagerIsSound, DeactivateSound DEF SameWorld
  <2>2. CASE ~listener.active
    BY <1>6, <2>2 DEF LogindUnlock, SameViews
  <2>3. CASE listener.active
    BY <1>1, <1>6, <2>1, <2>3 DEF LogindUnlock, SameViews, Typed, Listener, World
  <2>4. QED
    BY <2>2, <2>3
<1>7. QED
  BY <1>2, <1>3, <1>4, <1>5, <1>6 DEF Bus, Messages, SleepMessages

LEMMA MainLoopSameViews ==
    ASSUME ManagerAssumption, LightLockerAssumption, IInv, MainLoop
    PROVE  SameViews
<1>1. Typed /\ manager \in Manager
  BY Assemble DEF Sound
<1>2. ASSUME NEW active \in BOOLEAN, BlankingChanged(active)
      PROVE  SameViews
  <2> DEFINE m == ManagerSetBlankScreen(manager, active)
  <2>1. /\ m \in Manager
        /\ m.visible = manager.visible
        /\ m.closed = manager.closed
    BY ManagerIsSound, SetBlankScreenSound DEF Sound
  <2>2. /\ ManagerShowContent(m).visible = m.visible
        /\ ManagerShowContent(m).closed = m.closed
    BY <2>1 DEF ManagerShowContent, Manager
  <2>3. manager' \in {m, ManagerShowContent(m)}
    BY <1>2 DEF BlankingChanged
  <2>4. /\ world'.seat = world.seat /\ world'.seatNotices = world.seatNotices
        /\ world'.lid = world.lid /\ world'.lidNotices = world.lidNotices
    BY <1>1, <1>2 DEF BlankingChanged, Typed, World
  <2>5. listener'.lidClosed = listener.lidClosed
    BY <1>1, <1>2 DEF BlankingChanged, Typed, Listener
  <2>6. QED
    BY <2>1, <2>2, <2>3, <2>4, <2>5 DEF SameViews
<1>3. ASSUME NEW w \in Monitors, MapEvent(w)
      PROVE  SameViews
  <2>1. /\ WindowMapped(manager, w).visible = manager.visible
        /\ WindowMapped(manager, w).closed = manager.closed
    BY <1>1 DEF WindowMapped, Manager
  <2>2. QED
    BY <1>1, <1>3, <2>1, ResumedWorldTyped DEF MapEvent, SameViews, Typed, Listener
<1>4. ASSUME NEW grabbed \in BOOLEAN, LockTimeout(grabbed)
      PROVE  SameViews
  <2> DEFINE f == LockFired(manager)
             r == LockScreen(f, grabbed)
  <2>1. /\ Sound(f, world.monitors)
        /\ f.active = manager.active
        /\ f.visible = manager.visible
        /\ f.closed = manager.closed
    BY <1>1, ManagerIsSound, QuietOperations, SameWindows DEF Quiet, SameWorld
  <2>2. /\ r \in Manager
        /\ r.visible = manager.visible
        /\ r.closed = manager.closed
    BY <2>1, LockScreenSound DEF Sound, SameWorld
  <2>3. /\ ManagerShowContent(r).visible = r.visible
        /\ ManagerShowContent(r).closed = r.closed
    BY <2>2 DEF ManagerShowContent, Manager
  <2>4. manager' \in {r, ManagerShowContent(r)}
    BY <1>4 DEF LockTimeout
  <2>5. UNCHANGED world /\ listener'.lidClosed = listener.lidClosed
    BY <1>1, <1>4 DEF LockTimeout, Typed, Listener
  <2>6. QED
    BY <2>2, <2>3, <2>4, <2>5 DEF SameViews
<1>5. CASE GreeterTimeout
  <2>1. /\ Sound(SwitchGreeterFired(manager), world.monitors)
        /\ SwitchGreeterFired(manager).visible = manager.visible
        /\ SwitchGreeterFired(manager).closed = manager.closed
    BY <1>1, ManagerIsSound, QuietOperations DEF Quiet, SameWorld
  <2>2. QED
    BY <1>5, <2>1, AskingSameViews DEF GreeterTimeout
<1>6. CASE LockSessionTimeout \/ SwitchSessionTimeout
  BY <1>6, ManagerIsSound, AskingSameViews DEF LockSessionTimeout, SwitchSessionTimeout
<1>7. QED
  BY <1>2, <1>3, <1>4, <1>5, <1>6 DEF MainLoop, Scheduled

LEMMA RestSameViews ==
    ASSUME ManagerAssumption, LightLockerAssumption, IInv, Configure \/ Environment
    PROVE  SameViews \/ LidMoves \/ SeatMoves
<1>1. Typed /\ manager \in Manager
  BY Assemble DEF Sound
<1>2. CASE ConfLateLocking \/ ConfLockOnLid \/ ConfIdleHint
  BY <1>1, <1>2 DEF ConfLateLocking, ConfLockOnLid, ConfIdleHint, SameViews, Typed, World
<1>3. ASSUME NEW lockAfter \in LockAfterValues, ConfLockAfter(lockAfter)
      PROVE  SameViews
  BY <1>1, <1>3 DEF ConfLockAfter, ManagerSetLockAfter, SameViews, Manager
<1>4. ASSUME NEW taken \in InhibitReplies, ConfLockOnSuspend(taken)
      PROVE  SameViews
  <2>1. /\ world'.seat = world.seat /\ world'.seatNotices = world.seatNotices
        /\ world'.lid = world.lid /\ world'.lidNotices = world.lidNotices
    BY <1>1, <1>4, ResumedWorldTyped DEF ConfLockOnSuspend, Typed, World
  <2>2. listener'.lidClosed = listener.lidClosed /\ UNCHANGED manager
    BY <1>1, <1>4 DEF ConfLockOnSuspend, Typed, Listener
  <2>3. QED
    BY <2>1, <2>2 DEF SameViews
<1>5. ASSUME NEW n \in 1 .. MaxMonitors, MonitorsChanged(n)
      PROVE  SameViews
  <2>1. manager'.visible = manager.visible /\ manager'.closed = manager.closed
    BY <1>5, ManagerIsSound, ResizedSound DEF MonitorsChanged, Quiet, SameWorld
  <2>2. QED
    BY <1>1, <1>5, <2>1 DEF MonitorsChanged, SameViews, Typed, World
<1>6. QED
  BY <1>2, <1>3, <1>4, <1>5 DEF Configure, Preferences, Environment

\* If light-locker starts with the lid open and its session on the seat, and
\* its queries are answered, then whenever no notice is in flight it sees both
\* as they are, however many moves were queued behind each other.
THEOREM SettledViewsAreRight ==
    ASSUME Starts \subseteq {[lid |-> FALSE, seat |-> TRUE]}, QueriesFail = FALSE
    PROVE  Spec => []SettledViewsAgree
<1> USE ManagerAssumption, LightLockerAssumption
<1>1. Init => SettledViewsAgree
  <2> SUFFICES ASSUME Init
               PROVE  SettledViewsAgree
    OBVIOUS
  <2>1. PICK at \in Starts :
          /\ manager.visible
          /\ listener.lidClosed = FALSE
          /\ world.lid = at.lid /\ world.seat = at.seat
    BY DEF Init, NewManager
  <2>2. at.lid = FALSE /\ at.seat = TRUE
    <3>1. at = [lid |-> FALSE, seat |-> TRUE]
      OBVIOUS
    <3>2. QED
      BY <3>1
  <2>3. manager.visible = TRUE
    BY <2>1, ManagerIsSound, InitSound DEF Sound, Manager
  <2>4. QED
    BY <2>1, <2>2, <2>3 DEF SettledViewsAgree
<1>2. SeatSeen = {world.seat} /\ LidSeen = {world.lid}
  BY DEF SeatSeen, LidSeen, Unanswered
<1>3. IInv /\ SettledViewsAgree /\ [Next]_vars => SettledViewsAgree'
  <2> SUFFICES ASSUME IInv, SettledViewsAgree, [Next]_vars
               PROVE  SettledViewsAgree'
    OBVIOUS
  <2>1. Typed /\ manager \in Manager
    BY Assemble DEF Sound
  <2>2. CASE SameViews
    BY <2>2 DEF SameViews, SettledViewsAgree
  <2>3. CASE SeatNotice
    <3>1. manager' = ManagerSetSessionVisible(manager, world.seat)
      BY <1>2, <2>3 DEF SeatNotice
    <3>2. manager'.visible = world.seat
      <4>1. world.seat \in BOOLEAN
        BY <2>1 DEF Typed, World
      <4>2. QED
        BY <3>1, <4>1, ManagerIsSound, SetSessionVisibleSound
    <3>3. /\ world'.seat = world.seat
          /\ world'.lid = world.lid /\ world'.lidNotices = world.lidNotices
          /\ UNCHANGED listener
      BY <2>1, <2>3 DEF SeatNotice, Typed, World
    <3>4. QED
      BY <3>2, <3>3 DEF SettledViewsAgree
  <2>4. ASSUME NEW grabbed \in BOOLEAN, NEW closed \in BOOLEAN, LidNotice(grabbed, closed)
        PROVE  SettledViewsAgree'
    <3> DEFINE m == ManagerSetLidClosed(manager, closed)
               r == LockScreen(m, grabbed)
    <3>1. /\ Sound(m, world.monitors)
          /\ m.active = manager.active /\ m.visible = manager.visible
      BY ManagerIsSound, SetLidClosedSound
    <3>2. r.visible = manager.visible
      BY <3>1, LockScreenSound DEF SameWorld
    <3>3. manager' \in {manager, m, r}
      BY <2>4 DEF LidNotice
    <3>4. closed = world.lid
      BY <1>2, <2>4 DEF LidNotice
    <3>5. listener'.lidClosed = closed
      BY <2>1, <2>4 DEF LidNotice, Typed, Listener
    <3>6. /\ world'.seat = world.seat /\ world'.seatNotices = world.seatNotices
          /\ world'.lid = world.lid
      BY <2>1, <2>4 DEF LidNotice, Typed, World
    <3>7. QED
      BY <3>1, <3>2, <3>3, <3>4, <3>5, <3>6 DEF SettledViewsAgree
  <2>5. CASE LidMoves
    <3>1. /\ world'.lidNotices = world.lidNotices + 1
          /\ world.lidNotices \in 0 .. MaxNotices
          /\ world'.seat = world.seat /\ world'.seatNotices = world.seatNotices
      BY <2>1, <2>5 DEF LidMoves, Typed, World
    <3>2. world'.lidNotices # 0
      BY <3>1
    <3>3. QED
      BY <2>5, <3>1, <3>2 DEF LidMoves, SettledViewsAgree
  <2>6. CASE SeatMoves
    <3>1. /\ world'.seatNotices = world.seatNotices + 1
          /\ world.seatNotices \in 0 .. MaxNotices
          /\ world'.lid = world.lid /\ world'.lidNotices = world.lidNotices
      BY <2>1, <2>6 DEF SeatMoves, Typed, World
    <3>2. world'.seatNotices # 0
      BY <3>1
    <3>3. QED
      BY <2>6, <3>1, <3>2 DEF SeatMoves, SettledViewsAgree
  <2>7. CASE UNCHANGED vars
    BY <2>7 DEF vars, SettledViewsAgree
  <2>8. QED
    BY <2>2, <2>3, <2>4, <2>5, <2>6, <2>7, BusSameViews, MainLoopSameViews,
       RestSameViews DEF Next
<1>4. QED
  BY <1>1, <1>3, AlwaysSound, PTL DEF Spec

-----------------------------------------------------------------------------
(***************************************************************************)
(* The promises of ScreenLock.  They rest on Armed: whoever looks at the   *)
(* lock windows has the timer or a request on the way, for any start and   *)
(* any answer of logind, UPower and LightDM.                               *)
(***************************************************************************)

Armed == Attended /\ ~world.asked => manager.greeterTimer

\* Locking takes the timer from nobody.
LEMMA LockScreenTimely ==
    ASSUME NEW m \in Manager, NEW grabbed \in BOOLEAN
    PROVE  Untimed(LockScreen(m, grabbed)) => Untimed(m)
BY TimelyOperations DEF LockScreen

LEMMA BusTimely ==
    ASSUME ManagerAssumption, LightLockerAssumption, IInv, Bus
    PROVE  /\ Untimed(manager') => Untimed(manager)
           /\ SeatNotice => ~Untimed(manager')
<1>1. Typed /\ manager \in Manager
  BY Assemble DEF Sound
<1>2. ASSUME NEW grabbed \in BOOLEAN, SessionLock(grabbed)
      PROVE  Untimed(manager') => Untimed(manager)
  <2> DEFINE r == LockScreen(manager, grabbed)
  <2>1. r \in Manager
    BY ManagerIsSound, LockScreenSound DEF Sound
  <2>2. manager' \in {r, ManagerShowContent(r)}
    BY <1>2 DEF SessionLock
  <2>3. Untimed(manager') => Untimed(r)
    BY <2>1, <2>2, TimelyOperations
  <2>4. QED
    BY <1>1, <2>3, LockScreenTimely
<1>3. ASSUME NEW grabbed \in BOOLEAN, LogindLock(grabbed)
      PROVE  Untimed(manager') => Untimed(manager)
  <2>1. ManagerShowContent(manager) \in Manager
    BY ManagerIsSound, QuietOperations DEF Quiet, Sound
  <2>2. QED
    BY <1>1, <1>3, <2>1, LockScreenTimely, TimelyOperations DEF LogindLock
<1>4. ASSUME NEW grabbed \in BOOLEAN, NEW closed \in BOOLEAN, LidNotice(grabbed, closed)
      PROVE  Untimed(manager') => Untimed(manager)
  <2> DEFINE m == ManagerSetLidClosed(manager, closed)
  <2>1. m \in Manager /\ ~Untimed(m)
    BY <1>1, ManagerIsSound, SetLidClosedSound, TimelyOperations DEF Sound
  <2>2. manager' \in {manager, m, LockScreen(m, grabbed)}
    BY <1>4 DEF LidNotice
  <2>3. QED
    BY <2>1, <2>2, LockScreenTimely
<1>5. ASSUME NEW grabbed \in BOOLEAN, Suspend(grabbed)
      PROVE  Untimed(manager') => Untimed(manager)
  BY <1>1, <1>5, LockScreenTimely DEF Suspend
<1>6. Resume => (Untimed(manager') => Untimed(manager))
  BY DEF Resume
<1>7. SeatNotice => ~Untimed(manager')
  <2> SUFFICES ASSUME SeatNotice
               PROVE  ~Untimed(manager')
    OBVIOUS
  <2>1. PICK seated \in BOOLEAN : manager' = ManagerSetSessionVisible(manager, seated)
    BY <1>1, SeatSeenTyped DEF SeatNotice
  <2>2. QED
    BY <1>1, <2>1, TimelyOperations
<1>8. ASSUME NEW taken \in InhibitReplies, LogindUnlock(taken)
      PROVE  Untimed(manager') => Untimed(manager)
  <2>1. manager' \in {manager, Deactivate(manager)}
    BY <1>8 DEF LogindUnlock
  <2>2. QED
    BY <1>1, <2>1, TimelyOperations
<1>9. QED
  BY <1>2, <1>3, <1>4, <1>5, <1>6, <1>7, <1>8 DEF Bus, Messages, SleepMessages

LEMMA RestTimely ==
    ASSUME ManagerAssumption, LightLockerAssumption, IInv,
           MainLoop \/ Configure \/ Environment, ~GreeterTimeout
    PROVE  Untimed(manager') => Untimed(manager)
<1>1. Typed /\ manager \in Manager
  BY Assemble DEF Sound
<1>2. ASSUME NEW active \in BOOLEAN, BlankingChanged(active)
      PROVE  Untimed(manager') => Untimed(manager)
  <2> DEFINE m == ManagerSetBlankScreen(manager, active)
  <2>1. m \in Manager /\ ~Untimed(m)
    BY <1>1, ManagerIsSound, SetBlankScreenSound, TimelyOperations DEF Sound
  <2>2. manager' \in {m, ManagerShowContent(m)}
    BY <1>2 DEF BlankingChanged
  <2>3. QED
    BY <2>1, <2>2, TimelyOperations
<1>3. ASSUME NEW w \in Monitors, MapEvent(w)
      PROVE  Untimed(manager') => Untimed(manager)
  BY <1>1, <1>3, TimelyOperations DEF MapEvent
<1>4. ASSUME NEW grabbed \in BOOLEAN, LockTimeout(grabbed)
      PROVE  Untimed(manager') => Untimed(manager)
  <2> DEFINE f == LockFired(manager)
             r == LockScreen(f, grabbed)
  <2>1. /\ Sound(f, world.monitors)
        /\ f.active = manager.active
    BY <1>1, ManagerIsSound, QuietOperations, SameWindows DEF Quiet
  <2>2. f \in Manager /\ r \in Manager
    BY <2>1, LockScreenSound DEF Sound
  <2>3. manager' \in {r, ManagerShowContent(r)}
    BY <1>4 DEF LockTimeout
  <2>4. Untimed(manager') => Untimed(r)
    BY <2>2, <2>3, TimelyOperations
  <2>5. QED
    BY <1>1, <2>2, <2>4, LockScreenTimely, TimelyOperations
<1>5. CASE LockSessionTimeout \/ SwitchSessionTimeout
  <2>1. manager' \in {manager, ManagerShowContent(manager)}
    BY <1>5 DEF LockSessionTimeout, SwitchSessionTimeout, AskOrShow
  <2>2. QED
    BY <1>1, <2>1, TimelyOperations
<1>6. ASSUME NEW lockAfter \in LockAfterValues, ConfLockAfter(lockAfter)
      PROVE  Untimed(manager') => Untimed(manager)
  BY <1>1, <1>6, TimelyOperations DEF ConfLockAfter
<1>7. ASSUME NEW n \in 1 .. MaxMonitors, MonitorsChanged(n)
      PROVE  Untimed(manager') => Untimed(manager)
  BY <1>1, <1>7, TimelyOperations DEF MonitorsChanged
<1>8. ASSUME UNCHANGED manager
      PROVE  Untimed(manager') => Untimed(manager)
  BY <1>8
<1>9. QED
  BY <1>2, <1>3, <1>4, <1>5, <1>6, <1>7, <1>8 DEF MainLoop, Scheduled, Configure,
     Preferences, Environment, ConfLockOnSuspend, ConfLateLocking, ConfLockOnLid,
     ConfIdleHint, LidMoves, SeatMoves

\* A request counts until the session is unlocked or leaves its seat.
LEMMA AskedSteps ==
    ASSUME ManagerAssumption, LightLockerAssumption, IInv, [Next]_vars
    PROVE  \/ world.asked => world'.asked
           \/ SeatMoves
           \/ \E taken \in InhibitReplies : LogindUnlock(taken) /\ listener.active
<1>1. world \in World
  BY Assemble DEF Typed
<1>2. \A what : Send(what) => (world.asked => world'.asked)
  BY <1>1 DEF Send, World
<1>3. ResumedWorld.asked = world.asked
  BY <1>1 DEF ResumedWorld, World
<1>4. CASE Messages \/ SleepMessages
  BY <1>1, <1>4 DEF Messages, SleepMessages, SessionLock, LogindLock, LidNotice,
     SeatNotice, Suspend, Resume, World
<1>5. ASSUME NEW taken \in InhibitReplies, LogindUnlock(taken), ~listener.active
      PROVE  world.asked => world'.asked
  BY <1>5 DEF LogindUnlock
<1>6. ASSUME NEW active \in BOOLEAN, BlankingChanged(active)
      PROVE  world.asked => world'.asked
  BY <1>1, <1>6 DEF BlankingChanged, World
<1>7. CASE Scheduled
  BY <1>2, <1>3, <1>7 DEF Scheduled, MapEvent, LockTimeout, GreeterTimeout,
     LockSessionTimeout, SwitchSessionTimeout, AskOrShow
<1>8. CASE Configure
  <2>1. ASSUME NEW taken \in InhibitReplies, ConfLockOnSuspend(taken)
        PROVE  world'.asked = world.asked
    BY <1>1, <1>3, <2>1 DEF ConfLockOnSuspend, World
  <2>2. CASE Preferences
    BY <1>1, <2>2 DEF Preferences, ConfLockAfter, ConfLateLocking, ConfLockOnLid,
       ConfIdleHint, World
  <2>3. QED
    BY <1>8, <2>1, <2>2 DEF Configure
<1>9. CASE Environment
  BY <1>1, <1>9 DEF Environment, LidMoves, MonitorsChanged, World
<1>10. CASE UNCHANGED vars
  BY <1>10 DEF vars
<1>11. QED
  BY <1>4, <1>5, <1>6, <1>7, <1>8, <1>9, <1>10 DEF Next, Bus, MainLoop

\* Only its own move and its notices change where the session is.
LEMMA SeatSteps ==
    ASSUME ManagerAssumption, LightLockerAssumption, IInv, [Next]_vars
    PROVE  /\ \/ world'.seat = world.seat /\ world'.seatNotices = world.seatNotices
              \/ SeatMoves
              \/ SeatNotice
           /\ SeatMoves => world'.seatNotices > 0
<1>1. world \in World
  BY Assemble DEF Typed
<1>2. SeatMoves => world'.seatNotices > 0
  BY <1>1 DEF SeatMoves, World, LightLockerAssumption
<1>3. ASSUME NEW grabbed \in BOOLEAN, NEW closed \in BOOLEAN, LidNotice(grabbed, closed)
      PROVE  world'.seat = world.seat /\ world'.seatNotices = world.seatNotices
  BY <1>1, <1>3 DEF LidNotice, World
<1>4. LidMoves => world'.seat = world.seat /\ world'.seatNotices = world.seatNotices
  BY <1>1 DEF LidMoves, World
<1>5. UNCHANGED vars => world' = world
  BY DEF vars
<1>6. QED
  BY <1>2, <1>3, <1>4, <1>5, BusSameViews, MainLoopSameViews, RestSameViews
     DEF Next, SameViews

\* While nothing is in flight logind's record is the truth, so the timer that
\* expires in front of somebody is answered by a request.
LEMMA ArmedSound ==
    ASSUME ManagerAssumption, LightLockerAssumption, IInv, Armed, [Next]_vars
    PROVE  Armed'
<1> SUFFICES ASSUME Attended', ~world'.asked, ~manager'.greeterTimer
             PROVE  FALSE
  BY DEF Armed
<1>1. Untimed(manager')
  BY DEF Attended, Untimed
<1>2. world'.seat /\ world'.seatNotices = 0 /\ manager'.active
  BY DEF Attended, Presentable
<1>3. CASE GreeterTimeout
  <2>1. Typed
    BY Assemble
  <2>2. world'.seat = world.seat /\ world'.seatNotices = world.seatNotices
    BY <1>3, MainLoopSameViews DEF MainLoop, Scheduled, SameViews
  <2>3. SeatAnswers = {TRUE}
    <3>1. world.seat = TRUE /\ ~(world.seatNotices > 0)
      BY <1>2, <2>1, <2>2 DEF Typed, World
    <3>2. QED
      BY <3>1 DEF SeatAnswers
  <2>4. world'.asked
    BY <1>3, <2>1, <2>3 DEF GreeterTimeout, Send, Typed, World
  <2>5. QED
    BY <2>4
<1>4. CASE ~GreeterTimeout
  <2>1. Untimed(manager) /\ ~SeatNotice
    <3>1. ~SeatNotice
      BY <1>1, BusTimely DEF Bus, Messages
    <3>2. CASE UNCHANGED vars
      BY <1>1, <3>1, <3>2 DEF vars
    <3>3. QED
      BY <1>1, <1>4, <3>1, <3>2, BusTimely, RestTimely DEF Next
  <2>2. /\ ~SeatMoves
        /\ world'.seat = world.seat /\ world'.seatNotices = world.seatNotices
    <3>1. ~(world'.seatNotices > 0)
      BY <1>2
    <3>2. QED
      BY <2>1, <3>1, SeatSteps
  <2>3. ~world.asked
    <3>1. ASSUME NEW taken \in InhibitReplies, LogindUnlock(taken), listener.active
          PROVE  ~manager'.active
      BY <3>1, ManagerIsSound, DeactivateSound DEF LogindUnlock
    <3>2. QED
      BY <1>2, <2>2, <3>1, AskedSteps
  <2>4. Attended
    BY <1>2, <2>1, <2>2 DEF Attended, Untimed
  <2>5. QED
    BY <2>1, <2>3, <2>4 DEF Armed, Untimed
<1>5. QED
  BY <1>3, <1>4

\* Whoever looks at the lock windows has a switch to the greeter timed or
\* asked for, with a lid, late answers and failing queries as without.
THEOREM WatcherIsTimed == Spec => []Armed
<1> USE ManagerAssumption, LightLockerAssumption
<1>1. Init => Armed
  BY DEF Init, NewManager, Armed, Attended, Presentable
<1>2. QED
  BY <1>1, ArmedSound, AlwaysSound, PTL DEF Spec

\* What a state shows of itself to ScreenLock.
StageTable ==
    /\ ~manager.active => Stage = "unlocked"
    /\ manager.active /\ ~Attended => Stage = "unattended"
    /\ Attended /\ world.asked => Stage = "asked"
    /\ Attended /\ ~world.asked => Stage = "waiting"
    /\ Attended => manager.active
    /\ manager.active <=> Stage \in Promise!LockedStages

LEMMA Stages == Armed => StageTable
<1> SUFFICES ASSUME Armed
             PROVE  StageTable
  OBVIOUS
<1>1. Attended => manager.active
  BY DEF Attended, Presentable
<1>2. Attended /\ ~world.asked => manager.greeterTimer
  BY DEF Armed
<1>3. /\ ~manager.active => Stage = "unlocked"
      /\ manager.active /\ ~Attended => Stage = "unattended"
      /\ Attended /\ world.asked => Stage = "asked"
      /\ Attended /\ ~world.asked => Stage = "waiting"
  BY <1>1, <1>2 DEF Stage
<1>4. QED
  BY <1>1, <1>3 DEF StageTable, Promise!LockedStages

LEMMA StagesNext == Armed' => StageTable'
BY Stages, PTL

\* A step that leaves the delay lock and the windows on the screen alone moves
\* the stage forward, or the one who looked is gone.
LEMMA StageSteps ==
    ASSUME ManagerAssumption, LightLockerAssumption, IInv, Armed, [Next]_vars,
           manager.active => manager'.active
    PROVE  \/ Stage' = Stage
           \/ Stage = "unlocked" /\ Stage' \in Promise!LockedStages
           \/ Stage = "unattended" /\ Stage' \in {"waiting", "asked"}
           \/ Stage = "waiting" /\ Stage' = "asked"
           \/ Stage \in {"waiting", "asked"} /\ Stage' = "unattended"
<1>1. StageTable /\ StageTable'
  BY ArmedSound, Stages, StagesNext
<1>2. manager'.active => Stage' \in {"unattended", "asked", "waiting"}
  BY <1>1 DEF StageTable
<1>3. manager.active /\ world.asked /\ Attended' => world'.asked
  <2> SUFFICES ASSUME manager.active, world.asked, Attended'
               PROVE  world'.asked
    OBVIOUS
  <2>1. ~(world'.seatNotices > 0)
    BY DEF Attended
  <2>2. ASSUME NEW taken \in InhibitReplies, LogindUnlock(taken), listener.active
        PROVE  ~manager'.active
    BY <2>2, ManagerIsSound, DeactivateSound DEF LogindUnlock
  <2>3. QED
    BY <2>1, <2>2, AskedSteps, SeatSteps
<1>4. QED
  BY <1>1, <1>2, <1>3 DEF StageTable, Promise!LockedStages

\* With its flags, timers and messages hidden, light-locker is ScreenLock.
THEOREM PromiseIsKept == Spec => KeepsPromise
<1> USE ManagerAssumption, LightLockerAssumption
<1>1. Init => Promise!Init
  <2> SUFFICES ASSUME Init
               PROVE  Promise!Init
    OBVIOUS
  <2>1. Typed
    BY InitSound, Assemble
  <2>2. ~manager.active /\ manager.mapped = {}
    BY DEF Init, NewManager
  <2>3. Stage = "unlocked"
    BY <2>2 DEF Stage, Attended, Presentable
  <2>4. QED
    BY <2>1, <2>2, <2>3 DEF Promise!Init, Typed, Listener
<1>2. IInv /\ Armed /\ [Next]_vars => [Promise!Next]_Promise!promised
  <2> SUFFICES ASSUME IInv, Armed, [Next]_vars
               PROVE  [Promise!Next]_Promise!promised
    OBVIOUS
  <2> USE DEF Promise!Next, Promise!promised
  <2>1. Typed /\ manager \in Manager /\ StageTable /\ StageTable'
    BY Assemble, ArmedSound, Stages, StagesNext DEF Sound
  <2>2. CASE Steady /\ manager'.mapped = manager.mapped
    <3>1. listener'.holdsFd = listener.holdsFd /\ (manager.active => manager'.active)
      BY <2>2 DEF Steady
    <3>2. QED
      BY <2>2, <3>1, StageSteps DEF Promise!Lock, Promise!Attend, Promise!Ask,
         Promise!Abandon
  <2>3. ASSUME Steady, NEW n \in 1 .. MaxMonitors, MonitorsChanged(n)
        PROVE  [Promise!Next]_Promise!promised
    <3>1. Quiet(manager', manager, n)
      BY <2>3, ManagerIsSound, ResizedSound, UnwatchedSound DEF MonitorsChanged
    <3>2. /\ world'.seat = world.seat /\ world'.seatNotices = world.seatNotices
          /\ world'.asked = world.asked
      BY <2>1, <2>3 DEF MonitorsChanged, Typed, World
    <3>3. Attended' = Attended /\ manager'.active = manager.active
      BY <3>1, <3>2 DEF Quiet, SameWorld, Attended, Presentable
    <3>4. Stage' = Stage
      BY <2>1, <3>2, <3>3 DEF StageTable
    <3>5. /\ listener'.holdsFd = listener.holdsFd
          /\ manager'.mapped \subseteq manager.mapped
      BY <2>3 DEF Steady
    <3>6. QED
      BY <3>4, <3>5 DEF Promise!Unplug
  <2>4. ASSUME NEW taken \in InhibitReplies, LogindUnlock(taken)
        PROVE  [Promise!Next]_Promise!promised
    <3>1. CASE ~listener.active
      BY <2>4, <3>1 DEF LogindUnlock, Stage, Attended
    <3>2. CASE listener.active
      <4>1. manager.active
        BY <3>2, Assemble DEF CopiesAgree
      <4>2. ~manager'.active /\ manager'.mapped = {}
        BY <2>4, <3>2, ManagerIsSound, DeactivateSound DEF LogindUnlock
      <4>3. listener'.holdsFd = (listener.holdsFd \/ TakesDelay(taken))
        BY <2>1, <2>4, <3>2 DEF LogindUnlock, Typed, Listener
      <4>4. listener'.holdsFd \in {listener.holdsFd, TRUE}
        <5>1. taken \in BOOLEAN
          BY DEF InhibitReplies
        <5>2. QED
          BY <2>1, <4>3, <5>1 DEF TakesDelay, Typed, Listener, Monitor
      <4>5. Stage \in Promise!LockedStages /\ Stage' = "unlocked"
        BY <2>1, <4>1, <4>2 DEF StageTable
      <4>6. Promise!Unlock
        BY <4>2, <4>4, <4>5 DEF Promise!Unlock
      <4>7. QED
        BY <4>6
    <3>3. QED
      BY <3>1, <3>2
  <2>5. ASSUME NEW w \in Monitors, MapEvent(w)
        PROVE  [Promise!Next]_Promise!promised
    <3>1. Quiet(manager', manager, world.monitors) /\ manager'.mapped # {}
      <4>1. manager' = WindowMapped(manager, w)
        BY <2>5 DEF MapEvent
      <4>2. manager'.mapped = manager.mapped \cup {w}
        BY <2>1, <4>1 DEF WindowMapped, Manager
      <4>3. QED
        BY <2>5, <4>1, <4>2, ManagerIsSound, QuietOperations DEF MapEvent
    <3>2. manager.active
      BY <2>5, ManagerIsSound DEF MapEvent, Sound, ManagerInv, WindowsOK
    <3>3. /\ world'.seat = world.seat /\ world'.seatNotices = world.seatNotices
          /\ world'.asked = world.asked
      BY <2>1, <2>5 DEF MapEvent, ResumedWorld, Typed, World
    <3>4. Attended' = Attended /\ manager'.active = manager.active
      BY <3>1, <3>3 DEF Quiet, SameWorld, Attended, Presentable
    <3>5. Stage' = Stage /\ Stage \in Promise!LockedStages
      BY <2>1, <3>2, <3>3, <3>4 DEF StageTable
    <3>6. listener'.holdsFd = FALSE
      BY <2>1, <2>5 DEF MapEvent, Typed, Listener
    <3>7. Promise!Cover
      BY <3>1, <3>5, <3>6 DEF Promise!Cover
    <3>8. QED
      BY <3>7
  <2>6. ASSUME NEW taken \in InhibitReplies, ConfLockOnSuspend(taken)
        PROVE  [Promise!Next]_Promise!promised
    <3>1. UNCHANGED manager /\ "lockOnSuspend" \in Mutable
      BY <2>6 DEF ConfLockOnSuspend
    <3>2. /\ world'.seat = world.seat /\ world'.seatNotices = world.seatNotices
          /\ world'.asked = world.asked
      BY <2>1, <2>6 DEF ConfLockOnSuspend, ResumedWorld, Typed, World
    <3>3. Stage' = Stage
      BY <3>1, <3>2 DEF Stage, Attended
    <3>4. listener.holdsFd \in BOOLEAN /\ listener'.holdsFd \in BOOLEAN
      BY <2>1, NextSound DEF Typed, Listener, IInv, TypeOK
    <3>5. QED
      BY <3>1, <3>3, <3>4 DEF Promise!Prefer
  <2>7. QED
    BY <2>2, <2>3, <2>4, <2>5, <2>6, DelayLockSteps DEF Steady
<1>3. QED
  BY <1>1, <1>2, WatcherIsTimed, AlwaysSound, PTL DEF Spec, KeepsPromise, Promise!Spec

-----------------------------------------------------------------------------
(***************************************************************************)
(* What the message "You'll be redirected" rests on.                       *)
(***************************************************************************)

\* The manager's idea of the seat, once no notice is in flight, errs on the
\* side of asking only.
SeatSettles == world.seat /\ world.seatNotices = 0 => manager.visible

LEMMA SeatSettlesSound ==
    ASSUME ManagerAssumption, LightLockerAssumption, IInv, SeatSettles,
           [Next]_vars, QueriesFail = FALSE
    PROVE  SeatSettles'
<1>1. Typed
  BY Assemble
<1>2. CASE SeatNotice
  <2>1. manager' = ManagerSetSessionVisible(manager, world.seat)
    BY <1>2 DEF SeatNotice, SeatSeen, Unanswered
  <2>2. world.seat \in BOOLEAN /\ world'.seat = world.seat
    BY <1>1, <1>2 DEF SeatNotice, Typed, World
  <2>3. QED
    BY <2>1, <2>2, ManagerIsSound, SetSessionVisibleSound DEF SeatSettles
<1>3. CASE SeatMoves
  <2>1. world'.seatNotices # 0
    BY <1>1, <1>3 DEF SeatMoves, Typed, World
  <2>2. QED
    BY <2>1 DEF SeatSettles
<1>4. ASSUME NEW grabbed \in BOOLEAN, NEW closed \in BOOLEAN, LidNotice(grabbed, closed)
      PROVE  SeatSettles'
  <2> DEFINE m == ManagerSetLidClosed(manager, closed)
             r == LockScreen(m, grabbed)
  <2>1. /\ Sound(m, world.monitors)
        /\ m.active = manager.active /\ m.visible = manager.visible
    BY ManagerIsSound, SetLidClosedSound
  <2>2. r.visible = manager.visible
    BY <2>1, LockScreenSound DEF SameWorld
  <2>3. manager' \in {manager, m, r}
    BY <1>4 DEF LidNotice
  <2>4. world'.seat = world.seat /\ world'.seatNotices = world.seatNotices
    BY <1>1, <1>4 DEF LidNotice, Typed, World
  <2>5. QED
    BY <2>1, <2>2, <2>3, <2>4 DEF SeatSettles
<1>5. CASE LidMoves
  BY <1>1, <1>5 DEF LidMoves, SeatSettles, Typed, World
<1>6. CASE SameViews
  BY <1>6 DEF SameViews, SeatSettles
<1>7. CASE UNCHANGED vars
  BY <1>7 DEF vars, SeatSettles
<1>8. QED
  BY <1>2, <1>3, <1>4, <1>5, <1>6, <1>7, BusSameViews, MainLoopSameViews,
     RestSameViews DEF Next

\* Whoever is stranded without a timer sits in front of a manager that still
\* takes the lid for closed: the early return of listener_lid_closed_cb
\* (gs-monitor.c:368) is the only way to it, for any start.
THEOREM OnlyStaleLidStrands ==
    ASSUME QueriesFail = FALSE
    PROVE  Spec => [](Stranded /\ ~manager.greeterTimer => manager.closed)
<1> USE ManagerAssumption, LightLockerAssumption
<1>1. Init => SeatSettles
  BY DEF Init, NewManager, SeatSettles
<1>2. IInv /\ SeatSettles /\ [Next]_vars => SeatSettles'
  BY SeatSettlesSound
<1>3. IInv /\ Armed /\ SeatSettles => (Stranded /\ ~manager.greeterTimer => manager.closed)
  <2> SUFFICES ASSUME IInv, Armed, SeatSettles, Stranded, ~manager.closed
               PROVE  manager.greeterTimer
    OBVIOUS
  <2>1. ~manager.blank
    BY Assemble DEF Stranded, CopiesAgree
  <2>2. Attended
    BY <2>1 DEF Stranded, SeatSettles, Attended, Presentable
  <2>3. QED
    BY <2>2 DEF Armed, Stranded
<1>4. QED
  BY <1>1, <1>2, <1>3, WatcherIsTimed, AlwaysSound, PTL DEF Spec

\* A machine without a lid never closes it.
Lidless == world.lidNotices = 0 /\ ~manager.closed

LEMMA LidlessSound ==
    ASSUME ManagerAssumption, LightLockerAssumption, IInv, Lidless,
           [Next]_vars, HasLid = FALSE
    PROVE  Lidless'
<1>1. Typed
  BY Assemble
<1>2. ~LidMoves /\ \A grabbed, closed \in BOOLEAN : ~LidNotice(grabbed, closed)
  BY DEF LidMoves, LidNotice, Lidless
<1>3. CASE SeatNotice
  <2>1. PICK seated \in BOOLEAN : manager' = ManagerSetSessionVisible(manager, seated)
    BY <1>1, <1>3, SeatSeenTyped DEF SeatNotice
  <2>2. world'.lidNotices = world.lidNotices
    BY <1>1, <1>3 DEF SeatNotice, Typed, World
  <2>3. manager'.closed = manager.closed
    BY <2>1, ManagerIsSound, SetSessionVisibleSound
  <2>4. QED
    BY <2>2, <2>3 DEF Lidless
<1>4. CASE SeatMoves
  BY <1>1, <1>4 DEF SeatMoves, Lidless, Typed, World
<1>5. CASE SameViews
  BY <1>5 DEF SameViews, Lidless
<1>6. CASE UNCHANGED vars
  BY <1>6 DEF vars, Lidless
<1>7. QED
  BY <1>2, <1>3, <1>4, <1>5, <1>6, BusSameViews, MainLoopSameViews,
     RestSameViews DEF Next

\* On a machine without a lid, and with queries that are answered, a stranded
\* user has the 10 s timer running: what is left of Redirected is that a timer
\* that stays installed fires.
THEOREM StrandedHasTimer ==
    ASSUME HasLid = FALSE, QueriesFail = FALSE
    PROVE  Spec => []StrandedIsTimed
<1> USE ManagerAssumption, LightLockerAssumption
<1>1. Init => Lidless
  BY DEF Init, NewManager, Lidless
<1>2. IInv /\ Lidless /\ [Next]_vars => Lidless'
  BY LidlessSound
<1>3. Lidless /\ (Stranded /\ ~manager.greeterTimer => manager.closed) => StrandedIsTimed
  BY DEF Lidless, StrandedIsTimed
<1>4. QED
  BY <1>1, <1>2, <1>3, OnlyStaleLidStrands, AlwaysSound, PTL DEF Spec

=============================================================================
