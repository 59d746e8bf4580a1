-------------------------- MODULE GSManagerOpsProofs --------------------------
(***************************************************************************)
(* What every GSManager function returns, keeps and leaves alone, for any  *)
(* number of monitors and any lock-after-screensaver.  The theorems about  *)
(* GSManager and LightLocker cite these lemmas instead of the functions.   *)
(***************************************************************************)
EXTENDS GSManagerOps, FiniteSetTheorems, TLAPS

\* The flags GSMonitor sets from outside are those of m.
SameWorld(r, m) ==
    /\ r.visible = m.visible
    /\ r.blank = m.blank
    /\ r.closed = m.closed

\* A well-formed manager on n monitors.
Sound(m, n) == m \in Manager /\ ManagerInv(m, n)

-----------------------------------------------------------------------------

\* A fresh manager is sound.
LEMMA NewManagerSound ==
    ASSUME ManagerAssumption, NEW a \in LockAfterValues, NEW n \in 1 .. MaxMonitors
    PROVE  Sound(NewManager(a), n)
BY DEF Sound, NewManager, Manager, ManagerInv, LockTimerOK, GreeterTimerOK,
       WindowsOK, Monitors, FirstMonitors

\* Windows are only ever made for monitors in range.
LEMMA MonitorsInRange ==
    ASSUME ManagerAssumption, NEW n \in 1 .. MaxMonitors
    PROVE  FirstMonitors(n) \subseteq Monitors
BY DEF ManagerAssumption, FirstMonitors, Monitors

\* Activating a sound manager: refused when active or not grabbed, otherwise
\* every monitor gets a window, and the lock timer makes way for the windows.
LEMMA ActivateSound ==
    ASSUME ManagerAssumption, NEW n \in 1 .. MaxMonitors, NEW grabbed \in BOOLEAN,
           NEW m, Sound(m, n)
    PROVE  LET r == Activate(m, grabbed, n) IN
           /\ Sound(r, n)
           /\ SameWorld(r, m)
           /\ r.active <=> (m.active \/ grabbed)
           /\ r.lockAfter = m.lockAfter
           /\ r.greeterTimer => m.greeterTimer \/ ~m.closed
           /\ r.mapped = m.mapped
<1>1. FirstMonitors(n) \subseteq Monitors
  BY MonitorsInRange
<1>2. CASE m.active \/ ~grabbed
  BY <1>2 DEF Activate, SameWorld, Sound, Manager, ManagerInv
<1>3. CASE ~m.active /\ grabbed
  BY <1>1, <1>3 DEF Activate, SameWorld, Sound, Manager, ManagerInv, LockTimerOK,
     GreeterTimerOK, WindowsOK, CreateWindows, TimedSwitch, StopLock, Presentable
<1>4. QED
  BY <1>2, <1>3

\* Deactivating a sound manager: the windows and the timed switch go, and a
\* blank screen gets its lock timer back.
LEMMA DeactivateSound ==
    ASSUME ManagerAssumption, NEW n \in 1 .. MaxMonitors, NEW m, Sound(m, n)
    PROVE  LET r == Deactivate(m) IN
           /\ Sound(r, n)
           /\ SameWorld(r, m)
           /\ ~r.active
           /\ r.lockAfter = m.lockAfter
           /\ ~r.greeterTimer
           /\ r.mapped = {}
<1>1. CASE ~m.active
  BY <1>1 DEF Deactivate, SameWorld, Sound, Manager, ManagerInv, GreeterTimerOK,
     WindowsOK
<1>2. CASE m.active
  BY <1>2 DEF Deactivate, SameWorld, Sound, Manager, ManagerInv, LockTimerOK,
     GreeterTimerOK, WindowsOK, DestroyWindows, StopSwitch, TimedLock
<1>3. QED
  BY <1>1, <1>2

\* gs_manager_set_active keeps a sound manager sound.
LEMMA SetActiveSound ==
    ASSUME ManagerAssumption, NEW n \in 1 .. MaxMonitors, NEW active \in BOOLEAN,
           NEW grabbed \in BOOLEAN, NEW m, Sound(m, n)
    PROVE  Sound(ManagerSetActive(m, active, grabbed, n), n)
BY ActivateSound, DeactivateSound DEF ManagerSetActive

\* A session that leaves the seat stops the timed switch.
LEMMA SetSessionVisibleSound ==
    ASSUME NEW n, NEW visible \in BOOLEAN, NEW m, Sound(m, n)
    PROVE  LET r == ManagerSetSessionVisible(m, visible) IN
           /\ Sound(r, n)
           /\ r.visible = visible
           /\ r.active = m.active /\ r.blank = m.blank /\ r.closed = m.closed
           /\ r.mapped = m.mapped
BY DEF ManagerSetSessionVisible, Sound, Manager, ManagerInv, LockTimerOK,
   GreeterTimerOK, WindowsOK, Presentable, TimedSwitch, StopSwitch

\* A change of the screen saver starts or stops the lock timer.
LEMMA SetBlankScreenSound ==
    ASSUME NEW n, NEW blank \in BOOLEAN, NEW m, Sound(m, n)
    PROVE  LET r == ManagerSetBlankScreen(m, blank) IN
           /\ Sound(r, n)
           /\ r.blank = blank
           /\ r.active = m.active /\ r.visible = m.visible /\ r.closed = m.closed
           /\ r.greeterTimer => m.greeterTimer \/ ~m.closed
           /\ r.mapped = m.mapped
BY DEF ManagerSetBlankScreen, Sound, Manager, ManagerInv, LockTimerOK,
   GreeterTimerOK, WindowsOK, TimedSwitch, TimedLock, StopLock

\* A closed lid stops the timed switch.
LEMMA SetLidClosedSound ==
    ASSUME NEW n, NEW closed \in BOOLEAN, NEW m, Sound(m, n)
    PROVE  LET r == ManagerSetLidClosed(m, closed) IN
           /\ Sound(r, n)
           /\ r.closed = closed
           /\ r.active = m.active /\ r.visible = m.visible /\ r.blank = m.blank
           /\ r.mapped = m.mapped
BY DEF ManagerSetLidClosed, Sound, Manager, ManagerInv, LockTimerOK,
   GreeterTimerOK, WindowsOK, Presentable, TimedSwitch, StopSwitch

\* The remaining operations leave the flags and `active' alone; none of them
\* starts a timer.
Quiet(r, m, n) ==
    /\ Sound(r, n)
    /\ SameWorld(r, m)
    /\ r.active = m.active
    /\ r.greeterTimer => m.greeterTimer

LEMMA QuietOperations ==
    ASSUME NEW n, NEW m, Sound(m, n)
    PROVE  /\ Quiet(ManagerShowContent(m), m, n)
           /\ Quiet(SwitchGreeterFired(m), m, n)
           /\ Quiet(LockFired(m), m, n)
           /\ \A a \in LockAfterValues : Quiet(ManagerSetLockAfter(m, a), m, n)
           /\ \A w \in m.windows : Quiet(WindowMapped(m, w), m, n)
<1> USE DEF Quiet, SameWorld, Sound, Manager, ManagerInv, LockTimerOK,
        GreeterTimerOK, WindowsOK
<1>1. Quiet(ManagerShowContent(m), m, n)
  BY DEF ManagerShowContent
<1>2. Quiet(SwitchGreeterFired(m), m, n)
  BY DEF SwitchGreeterFired
<1>3. Quiet(LockFired(m), m, n)
  BY DEF LockFired
<1>4. \A a \in LockAfterValues : Quiet(ManagerSetLockAfter(m, a), m, n)
  BY DEF ManagerSetLockAfter
<1>5. \A w \in m.windows : Quiet(WindowMapped(m, w), m, n)
  BY DEF WindowMapped
<1>6. QED
  BY <1>1, <1>2, <1>3, <1>4, <1>5

\* When the monitors change under the windows, the windows follow: one per
\* monitor again.
LEMMA ResizedSound ==
    ASSUME ManagerAssumption, NEW k \in 1 .. MaxMonitors, NEW n \in 1 .. MaxMonitors,
           NEW m, Sound(m, k), m.windows # {}
    PROVE  /\ Quiet(Resized(m, n), m, n)
           /\ Resized(m, n).mapped \subseteq m.mapped
<1>1. /\ m.active
      /\ m.windows = 0 .. (k - 1)
  BY DEF Sound, ManagerInv, WindowsOK, FirstMonitors
<1>2. Cardinality(m.windows) = k
  <2>1. k \in Nat /\ 0 \in Int /\ k - 1 \in Int
    OBVIOUS
  <2>2. Cardinality(0 .. (k - 1)) = k
    BY <2>1, FS_Interval
  <2>3. QED
    BY <2>2, <1>1
<1>3. FirstMonitors(n) \subseteq Monitors
  BY MonitorsInRange
<1>4. Resized(m, n) = [m EXCEPT !.windows = FirstMonitors(n),
                                !.mapped = @ \cap FirstMonitors(n)]
  <2>1. CASE n > k
    <3>1. (0 .. (k - 1)) \cup (k .. (n - 1)) = 0 .. (n - 1)
      BY <2>1
    <3>2. QED
      BY <1>1, <1>2, <2>1, <3>1 DEF Resized, FirstMonitors
  <2>2. CASE ~(n > k)
    <3>1. (0 .. (k - 1)) \cap (0 .. (n - 1)) = 0 .. (n - 1)
      BY <2>2
    <3>2. QED
      BY <1>1, <1>2, <2>2, <3>1 DEF Resized, FirstMonitors
  <2>3. QED
    BY <2>1, <2>2
<1> DEFINE r == Resized(m, n)
<1>5. m.mapped \cap FirstMonitors(n) \subseteq FirstMonitors(n)
  OBVIOUS
<1>6. r \in Manager /\ r.windows = FirstMonitors(n)
  BY <1>3, <1>4 DEF Sound, Manager
<1>7. r.mapped = m.mapped \cap FirstMonitors(n)
  BY <1>4 DEF Sound, Manager
<1>8. /\ SameWorld(r, m)
      /\ r.active = m.active
      /\ r.greeterTimer = m.greeterTimer
      /\ r.lockTimer = m.lockTimer
  BY <1>4 DEF SameWorld, Sound, Manager
<1>9. ManagerInv(r, n)
  BY <1>1, <1>5, <1>6, <1>7, <1>8 DEF SameWorld, Sound, ManagerInv, LockTimerOK,
     GreeterTimerOK, WindowsOK
<1>10. QED
  BY <1>6, <1>7, <1>8, <1>9 DEF Quiet, Sound

\* Without windows the manager does not follow the monitors, and need not.
LEMMA UnwatchedSound ==
    ASSUME NEW k \in 1 .. MaxMonitors, NEW n \in 1 .. MaxMonitors,
           NEW m, Sound(m, k), m.windows = {}
    PROVE  Quiet(m, m, n)
<1>1. 0 \in FirstMonitors(k)
  BY DEF FirstMonitors
<1>2. ~m.active
  BY <1>1 DEF Sound, ManagerInv, WindowsOK
<1>3. QED
  BY <1>2 DEF Quiet, SameWorld, Sound, ManagerInv, WindowsOK

-----------------------------------------------------------------------------
(***************************************************************************)
(* The timed switch is there for whoever looks at the lock windows.        *)
(***************************************************************************)

\* Somebody looks at the lock windows and no switch to the greeter is timed.
Untimed(m) == Presentable(m) /\ ~m.greeterTimer

\* Of all the functions only the expiry of the timer itself leaves somebody
\* who had it, or who was not there before, in front of the windows without it.
LEMMA TimelyOperations ==
    ASSUME NEW m \in Manager
    PROVE  /\ \A n : \A grabbed \in BOOLEAN : Untimed(Activate(m, grabbed, n)) => Untimed(m)
           /\ ~Untimed(Deactivate(m))
           /\ \A visible \in BOOLEAN : ~Untimed(ManagerSetSessionVisible(m, visible))
           /\ \A blank \in BOOLEAN : ~Untimed(ManagerSetBlankScreen(m, blank))
           /\ \A closed \in BOOLEAN : ~Untimed(ManagerSetLidClosed(m, closed))
           /\ \A a : Untimed(ManagerSetLockAfter(m, a)) => Untimed(m)
           /\ Untimed(ManagerShowContent(m)) => Untimed(m)
           /\ Untimed(LockFired(m)) => Untimed(m)
           /\ \A w : Untimed(WindowMapped(m, w)) => Untimed(m)
           /\ \A n : Untimed(Resized(m, n)) => Untimed(m)
<1> USE DEF Untimed, Presentable, Manager
<1>1. ASSUME NEW grabbed \in BOOLEAN, NEW n
      PROVE  Untimed(Activate(m, grabbed, n)) => Untimed(m)
  BY DEF Activate, CreateWindows, TimedSwitch, StopLock
<1>2. ~Untimed(Deactivate(m))
  <2>1. ~Deactivate(m).active
    BY DEF Deactivate, DestroyWindows, StopSwitch, TimedLock
  <2>2. QED
    BY <2>1
<1>3. \A visible \in BOOLEAN : ~Untimed(ManagerSetSessionVisible(m, visible))
  BY DEF ManagerSetSessionVisible, TimedSwitch, StopSwitch
<1>4. \A blank \in BOOLEAN : ~Untimed(ManagerSetBlankScreen(m, blank))
  BY DEF ManagerSetBlankScreen, TimedSwitch, TimedLock, StopLock
<1>5. \A closed \in BOOLEAN : ~Untimed(ManagerSetLidClosed(m, closed))
  BY DEF ManagerSetLidClosed, TimedSwitch, StopSwitch
<1>6. /\ \A a : Untimed(ManagerSetLockAfter(m, a)) => Untimed(m)
      /\ Untimed(ManagerShowContent(m)) => Untimed(m)
      /\ Untimed(LockFired(m)) => Untimed(m)
      /\ \A w : Untimed(WindowMapped(m, w)) => Untimed(m)
      /\ \A n : Untimed(Resized(m, n)) => Untimed(m)
  BY DEF ManagerSetLockAfter, ManagerShowContent, LockFired, WindowMapped, Resized
<1>7. QED
  BY <1>1, <1>2, <1>3, <1>4, <1>5, <1>6

=============================================================================
