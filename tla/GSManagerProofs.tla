--------------------------- MODULE GSManagerProofs ---------------------------
(***************************************************************************)
(* The manager's invariant under any caller, for any number of monitors.   *)
(***************************************************************************)
EXTENDS GSManager, GSManagerOpsProofs

\* Every function keeps a sound manager sound on the monitors there are, so
\* soundness is inductive as it stands.
IInv == monitors \in 1 .. MaxMonitors /\ Sound(manager, monitors)

LEMMA InitSound == Init => IInv
BY ManagerAssumption, NewManagerSound DEF Init, IInv

LEMMA NextSound == IInv /\ [Next]_vars => IInv'
<1> SUFFICES ASSUME IInv, [Next]_vars
             PROVE  IInv'
  OBVIOUS
<1> USE ManagerAssumption
<1>1. ASSUME NEW active \in BOOLEAN, NEW grabbed \in BOOLEAN,
             SetActive(active, grabbed)
      PROVE  IInv'
  BY <1>1, SetActiveSound DEF SetActive, IInv
<1>2. ASSUME NEW visible \in BOOLEAN, SetSessionVisible(visible)
      PROVE  IInv'
  BY <1>2, SetSessionVisibleSound DEF SetSessionVisible, IInv
<1>3. ASSUME NEW blank \in BOOLEAN, SetBlankScreen(blank)
      PROVE  IInv'
  BY <1>3, SetBlankScreenSound DEF SetBlankScreen, IInv
<1>4. ASSUME NEW closed \in BOOLEAN, SetLidClosed(closed)
      PROVE  IInv'
  BY <1>4, SetLidClosedSound DEF SetLidClosed, IInv
<1>5. ASSUME NEW lockAfter \in LockAfterValues, SetLockAfter(lockAfter)
      PROVE  IInv'
  BY <1>5, QuietOperations DEF SetLockAfter, IInv, Quiet
<1>6. CASE ShowContent
  BY <1>6, QuietOperations DEF ShowContent, IInv, Quiet
<1>7. ASSUME NEW w \in Monitors, MapEvent(w)
      PROVE  IInv'
  BY <1>7, QuietOperations DEF MapEvent, IInv, Quiet
<1>8. ASSUME NEW n \in 1 .. MaxMonitors, MonitorsChanged(n)
      PROVE  IInv'
  BY <1>8, ResizedSound, UnwatchedSound DEF MonitorsChanged, IInv, Quiet
<1>9. CASE SwitchGreeterTimeout
  BY <1>9, QuietOperations DEF SwitchGreeterTimeout, IInv, Quiet
<1>10. CASE LockTimeout
  BY <1>10, QuietOperations DEF LockTimeout, IInv, Quiet
<1>11. CASE UNCHANGED vars
  BY <1>11 DEF vars, IInv
<1>12. QED
  BY <1>1, <1>2, <1>3, <1>4, <1>5, <1>6, <1>7, <1>8, <1>9, <1>10, <1>11 DEF Next

\* Every reachable manager is sound.
THEOREM AlwaysSound == Spec => []IInv
BY InitSound, NextSound, PTL DEF Spec

\* The record is well formed whatever the caller does.
THEOREM TypeCorrect == Spec => []TypeOK
<1>1. IInv => TypeOK
  BY DEF IInv, Sound, TypeOK
<1>2. QED
  BY <1>1, AlwaysSound, PTL

\* Neither timer outlives its reason, whatever the caller does.
THEOREM TimersAreJustified == Spec => []TimersJustified
<1>1. IInv => TimersJustified
  BY DEF IInv, Sound, ManagerInv, TimersJustified
<1>2. QED
  BY <1>1, AlwaysSound, PTL

\* While locked, each of any number of monitors has its window.
THEOREM MonitorsAreCovered == Spec => []EveryMonitorCovered
<1>1. IInv => EveryMonitorCovered
  BY DEF IInv, Sound, ManagerInv, EveryMonitorCovered
<1>2. QED
  BY <1>1, AlwaysSound, PTL

-----------------------------------------------------------------------------
(***************************************************************************)
(* The two action properties: what becomes due is scheduled.               *)
(***************************************************************************)

\* The steps that can make a lock screen presentable, or a blank screen
\* unlocked, are the setters; the others change neither.
SameFlags ==
    /\ SameWorld(manager', manager)
    /\ manager'.active = manager.active

LEMMA SettersOrSameFlags ==
    ASSUME ManagerAssumption, IInv, [Next]_vars
    PROVE  \/ SameFlags
           \/ \E active, grabbed \in BOOLEAN : SetActive(active, grabbed)
           \/ \E visible \in BOOLEAN : SetSessionVisible(visible)
           \/ \E blank \in BOOLEAN : SetBlankScreen(blank)
           \/ \E closed \in BOOLEAN : SetLidClosed(closed)
<1>1. ASSUME NEW lockAfter \in LockAfterValues, SetLockAfter(lockAfter)
      PROVE  SameFlags
  BY <1>1, QuietOperations DEF SetLockAfter, IInv, Quiet, SameFlags
<1>2. CASE ShowContent \/ SwitchGreeterTimeout \/ LockTimeout
  BY <1>2, QuietOperations DEF ShowContent, SwitchGreeterTimeout, LockTimeout, IInv, Quiet,
     SameFlags
<1>3. ASSUME NEW w \in Monitors, MapEvent(w)
      PROVE  SameFlags
  BY <1>3, QuietOperations DEF MapEvent, IInv, Quiet, SameFlags
<1>4. ASSUME NEW n \in 1 .. MaxMonitors, MonitorsChanged(n)
      PROVE  SameFlags
  BY <1>4, ResizedSound, UnwatchedSound DEF MonitorsChanged, IInv, Quiet, SameFlags
<1>5. CASE UNCHANGED vars
  BY <1>5 DEF vars, SameFlags, SameWorld
<1>6. QED
  BY <1>1, <1>2, <1>3, <1>4, <1>5 DEF Next

\* Whichever setter makes the lock screen presentable starts the timed switch.
THEOREM RedirectIsArmed == Spec => RedirectArmed
<1> USE ManagerAssumption
<1>1. IInv /\ [Next]_vars
      => (~Presentable(manager) /\ Presentable(manager)' => manager'.greeterTimer)
  <2> SUFFICES ASSUME IInv, [Next]_vars, ~Presentable(manager), Presentable(manager)'
               PROVE  manager'.greeterTimer
    OBVIOUS
  <2>1. manager \in Manager
    BY DEF IInv, Sound
  <2>2. ~SameFlags
    BY DEF SameFlags, SameWorld, Presentable
  <2>3. ASSUME NEW active \in BOOLEAN, NEW grabbed \in BOOLEAN, SetActive(active, grabbed)
        PROVE  manager'.greeterTimer
    <3>1. CASE active
      BY <2>1, <2>3, <3>1 DEF SetActive, ManagerSetActive, Activate, Presentable,
         TimedSwitch, StopLock, CreateWindows, Manager
    <3>2. CASE ~active
      BY <2>3, <3>2, DeactivateSound DEF SetActive, ManagerSetActive, IInv, Presentable
    <3>3. QED
      BY <3>1, <3>2
  <2>4. ASSUME NEW visible \in BOOLEAN, SetSessionVisible(visible)
        PROVE  manager'.greeterTimer
    BY <2>1, <2>4 DEF SetSessionVisible, ManagerSetSessionVisible, Presentable,
       TimedSwitch, StopSwitch, Manager
  <2>5. ASSUME NEW blank \in BOOLEAN, SetBlankScreen(blank)
        PROVE  manager'.greeterTimer
    BY <2>1, <2>5 DEF SetBlankScreen, ManagerSetBlankScreen, Presentable, TimedSwitch,
       TimedLock, StopLock, Manager
  <2>6. ASSUME NEW closed \in BOOLEAN, SetLidClosed(closed)
        PROVE  manager'.greeterTimer
    BY <2>1, <2>6 DEF SetLidClosed, ManagerSetLidClosed, Presentable, TimedSwitch,
       StopSwitch, Manager
  <2>7. QED
    BY <2>2, <2>3, <2>4, <2>5, <2>6, SettersOrSameFlags
<1>2. QED
  BY <1>1, AlwaysSound, PTL DEF Spec, RedirectArmed

\* A session that becomes blank and unlocked starts the lock timer, unless the
\* user disabled it.
THEOREM LockIsArmed == Spec => LockArmed
<1> USE ManagerAssumption
<1>1. IInv /\ [Next]_vars
      => (~BlankUnlocked(manager) /\ BlankUnlocked(manager)'
          => (manager'.lockTimer <=> manager'.lockAfter # 0))
  <2> SUFFICES ASSUME IInv, [Next]_vars, ~BlankUnlocked(manager), BlankUnlocked(manager)'
               PROVE  manager'.lockTimer <=> manager'.lockAfter # 0
    OBVIOUS
  <2>1. /\ manager \in Manager
        /\ ~manager.lockTimer
        /\ monitors \in 1 .. MaxMonitors /\ Sound(manager, monitors)
    BY DEF IInv, Sound, ManagerInv, LockTimerOK, BlankUnlocked
  <2>2. ~SameFlags
    BY DEF SameFlags, SameWorld, BlankUnlocked
  <2>3. ASSUME NEW active \in BOOLEAN, NEW grabbed \in BOOLEAN, SetActive(active, grabbed)
        PROVE  manager'.lockTimer <=> manager'.lockAfter # 0
    <3>1. CASE active
      <4>1. /\ SameWorld(manager', manager)
            /\ manager.active => manager'.active
        BY <2>1, <2>3, <3>1, ActivateSound DEF SetActive, ManagerSetActive
      <4>2. QED
        BY <4>1 DEF SameWorld, BlankUnlocked
    <3>2. CASE ~active
      BY <2>1, <2>3, <3>2 DEF SetActive, ManagerSetActive, Deactivate, BlankUnlocked,
         DestroyWindows, StopSwitch, TimedLock, Manager
    <3>3. QED
      BY <3>1, <3>2
  <2>4. ASSUME NEW visible \in BOOLEAN, SetSessionVisible(visible)
        PROVE  FALSE
    BY <2>1, <2>4, SetSessionVisibleSound DEF SetSessionVisible, BlankUnlocked
  <2>5. ASSUME NEW blank \in BOOLEAN, SetBlankScreen(blank)
        PROVE  manager'.lockTimer <=> manager'.lockAfter # 0
    BY <2>1, <2>5 DEF SetBlankScreen, ManagerSetBlankScreen, BlankUnlocked, TimedSwitch,
       TimedLock, StopLock, Manager
  <2>6. ASSUME NEW closed \in BOOLEAN, SetLidClosed(closed)
        PROVE  FALSE
    BY <2>1, <2>6, SetLidClosedSound DEF SetLidClosed, BlankUnlocked
  <2>7. QED
    BY <2>2, <2>3, <2>4, <2>5, <2>6, SettersOrSameFlags
<1>2. QED
  BY <1>1, AlwaysSound, PTL DEF Spec, LockArmed

-----------------------------------------------------------------------------
(***************************************************************************)
(* ZeroDisablesLock is violated, and in this way only.                     *)
(***************************************************************************)

\* A lock is timed although locking after the screen saver is disabled.
TimedAtZero == manager.lockTimer /\ manager.lockAfter = 0

\* A lock timer never starts while the setting is 0: it is one that ran when
\* the setting was changed to 0, which gs_manager_set_lock_after leaves alone.
OutlivesItsSetting ==
    [][ ~TimedAtZero /\ TimedAtZero' => SetLockAfter(0) /\ manager.lockTimer ]_vars

\* Only a change to 0 under a running timer lets a lock fire with 0.
THEOREM OnlyChangedToZero == Spec => OutlivesItsSetting
<1> USE ManagerAssumption
<1>1. IInv /\ [Next]_vars
      => (~TimedAtZero /\ TimedAtZero' => SetLockAfter(0) /\ manager.lockTimer)
  <2> SUFFICES ASSUME IInv, [Next]_vars, ~TimedAtZero, TimedAtZero'
               PROVE  SetLockAfter(0) /\ manager.lockTimer
    OBVIOUS
  <2> USE DEF TimedAtZero
  <2>1. manager \in Manager
    BY DEF IInv, Sound
  <2>2. ASSUME NEW lockAfter \in LockAfterValues, SetLockAfter(lockAfter)
        PROVE  SetLockAfter(0) /\ manager.lockTimer
    <3>1. manager' = [manager EXCEPT !.lockAfter = lockAfter]
      BY <2>2 DEF SetLockAfter, ManagerSetLockAfter
    <3>2. manager'.lockTimer = manager.lockTimer /\ manager'.lockAfter = lockAfter
      BY <2>1, <3>1 DEF Manager
    <3>3. QED
      BY <2>2, <3>2
  <2>3. ASSUME NEW active \in BOOLEAN, NEW grabbed \in BOOLEAN, SetActive(active, grabbed)
        PROVE  FALSE
    <3>1. CASE active
      BY <2>1, <2>3, <3>1 DEF SetActive, ManagerSetActive, Activate, TimedSwitch, StopLock,
         CreateWindows, Manager
    <3>2. CASE ~active
      BY <2>1, <2>3, <3>2 DEF SetActive, ManagerSetActive, Deactivate, TimedLock,
         StopSwitch, DestroyWindows, Manager
    <3>3. QED
      BY <3>1, <3>2
  <2>4. ASSUME NEW visible \in BOOLEAN, SetSessionVisible(visible)
        PROVE  FALSE
    BY <2>1, <2>4 DEF SetSessionVisible, ManagerSetSessionVisible, TimedSwitch, StopSwitch,
       Manager
  <2>5. ASSUME NEW blank \in BOOLEAN, SetBlankScreen(blank)
        PROVE  FALSE
    BY <2>1, <2>5 DEF SetBlankScreen, ManagerSetBlankScreen, TimedSwitch, TimedLock,
       StopLock, Manager
  <2>6. ASSUME NEW closed \in BOOLEAN, SetLidClosed(closed)
        PROVE  FALSE
    BY <2>1, <2>6 DEF SetLidClosed, ManagerSetLidClosed, TimedSwitch, StopSwitch, Manager
  <2>7. ASSUME ShowContent \/ SwitchGreeterTimeout \/ LockTimeout \/ UNCHANGED vars
        PROVE  FALSE
    BY <2>1, <2>7 DEF ShowContent, SwitchGreeterTimeout, LockTimeout, vars,
       ManagerShowContent, SwitchGreeterFired, LockFired, StopSwitch, StopLock, Manager
  <2>8. ASSUME NEW w \in Monitors, MapEvent(w)
        PROVE  FALSE
    BY <2>1, <2>8 DEF MapEvent, WindowMapped, Manager
  <2>9. ASSUME NEW n \in 1 .. MaxMonitors, MonitorsChanged(n)
        PROVE  FALSE
    BY <2>1, <2>9 DEF MonitorsChanged, Resized, Manager
  <2>10. QED
    BY <2>2, <2>3, <2>4, <2>5, <2>6, <2>7, <2>8, <2>9 DEF Next
<1>2. QED
  BY <1>1, AlwaysSound, PTL DEF Spec, OutlivesItsSetting

=============================================================================
