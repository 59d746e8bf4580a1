------------------------------ MODULE SleepProofs ------------------------------
(***************************************************************************)
(* LightLocker under logind's protocol is LightLocker, and no suspend that *)
(* waited for its delay lock finds the screen unlocked; with the X server  *)
(* beside it, it is still LightLocker, and what it knows of the screen     *)
(* saver is right once it has heard everything: for any number of          *)
(* monitors, settings, timers, notices, signals and events in flight.      *)
(***************************************************************************)
EXTENDS ScreenSaver, LightLockerProofs

SleepTyped == preparing \in BOOLEAN /\ waits \in BOOLEAN

\* The delay lock logind waits for is held, or the lock screen is up.
HeldOrLocked == waits => listener.holdsFd \/ manager.active

-----------------------------------------------------------------------------

\* The flags of logind are Booleans as long as the descriptor's is.
LEMMA SleepTypedSteps ==
    ASSUME SleepTyped, listener.holdsFd \in BOOLEAN, listener.active \in BOOLEAN,
           [SleepNext]_sleepVars
    PROVE  SleepTyped'
<1>1. CASE PrepareForSleep
  BY <1>1 DEF PrepareForSleep, SleepTyped
<1>2. CASE AllReleased \/ DelayMaxSecOver
  BY <1>2 DEF AllReleased, DelayMaxSecOver, SleepAndWake, SleepTyped
<1>3. CASE SleepSignal
  BY <1>3 DEF SleepSignal, SleepTyped
<1>4. CASE Unlock
  BY <1>4 DEF Unlock, SleepTyped
<1>5. CASE SwitchLockOnSuspend
  BY <1>5 DEF SwitchLockOnSuspend, SleepTyped
<1>6. CASE UNCHANGED logindVars
  BY <1>6 DEF logindVars, SleepTyped
<1>7. QED
  BY <1>1, <1>2, <1>3, <1>4, <1>5, <1>6
     DEF SleepNext, SleepProtocol, Quietly, sleepVars, logindVars

\* A step under logind's protocol is a step of light-locker or leaves it alone.
LEMMA SleepStepIsStep ==
    ASSUME SleepAssumption, SleepTyped, [SleepNext]_sleepVars
    PROVE  [Next]_vars
<1>1. InhibitReplies = BOOLEAN
  BY DEF InhibitReplies, SleepAssumption
<1>2. Grants \in InhibitReplies
  BY <1>1 DEF Grants, SleepTyped
<1>3. CASE PrepareForSleep \/ AllReleased \/ DelayMaxSecOver
  BY <1>3 DEF PrepareForSleep, AllReleased, DelayMaxSecOver, SleepAndWake
<1>4. CASE SleepSignal
  <2>1. \/ \E grabbed \in BOOLEAN : Suspend(grabbed)
        \/ Resume
        \/ UNCHANGED vars
    BY <1>4, Zenon DEF SleepSignal
  <2>2. QED
    BY <2>1, Zenon DEF Next, Bus, SleepMessages
<1>5. CASE Unlock
  BY <1>2, <1>5, Zenon DEF Unlock, Next, Bus
<1>6. CASE SwitchLockOnSuspend
  BY <1>2, <1>6, Zenon DEF SwitchLockOnSuspend, Next, Configure
<1>7. CASE \/ Quietly(Messages) \/ Quietly(Scheduled)
           \/ Quietly(\E active \in BOOLEAN : BlankingChanged(active))
           \/ Quietly(Preferences) \/ Quietly(Environment)
  BY <1>7, Zenon DEF Quietly, Next, Bus, MainLoop, Configure
<1>8. CASE UNCHANGED sleepVars
  BY <1>8 DEF sleepVars, vars
<1>9. QED
  BY <1>3, <1>4, <1>5, <1>6, <1>7, <1>8, Zenon DEF SleepNext, SleepProtocol

\* Everything together, so that each half can use what the other keeps.
LEMMA SleepSound == SleepSpec => [](IInv /\ SleepTyped)
<1> USE ManagerAssumption, LightLockerAssumption, SleepAssumption
<1>1. SleepInit => IInv /\ SleepTyped
  BY InitSound DEF SleepInit, SleepTyped
<1>2. IInv /\ SleepTyped /\ [SleepNext]_sleepVars => IInv' /\ SleepTyped'
  <2> SUFFICES ASSUME IInv, SleepTyped, [SleepNext]_sleepVars
               PROVE  IInv' /\ SleepTyped'
    OBVIOUS
  <2>1. IInv'
    BY SleepStepIsStep, NextSound
  <2>2. listener.holdsFd \in BOOLEAN /\ listener.active \in BOOLEAN
    BY DEF IInv, TypeOK, Listener
  <2>3. QED
    BY <2>1, <2>2, SleepTypedSteps
<1>3. QED
  BY <1>1, <1>2, PTL DEF SleepSpec

-----------------------------------------------------------------------------
(***************************************************************************)
(* Theorems.                                                               *)
(***************************************************************************)

\* logind's protocol is one of the behaviours LightLocker is checked for, so
\* everything proved of LightLocker holds under it.
THEOREM SleepImplementsLightLocker == SleepSpec => Spec
<1> USE SleepAssumption
<1>1. SleepInit => Init
  BY DEF SleepInit
<1>2. SleepTyped /\ [SleepNext]_sleepVars => [Next]_vars
  BY SleepStepIsStep
<1>3. QED
  BY <1>1, <1>2, SleepSound, PTL DEF SleepSpec, Spec

LEMMA HeldOrLockedSteps ==
    ASSUME ManagerAssumption, LightLockerAssumption, SleepAssumption,
           IInv, SleepTyped, HeldOrLocked, [SleepNext]_sleepVars
    PROVE  HeldOrLocked'
<1>1. Typed
  BY Assemble
<1>2. CASE PrepareForSleep
  BY <1>2 DEF PrepareForSleep, HeldOrLocked, vars
<1>3. CASE AllReleased \/ DelayMaxSecOver
  BY <1>3 DEF AllReleased, DelayMaxSecOver, SleepAndWake, HeldOrLocked
<1>4. CASE Unlock
  <2>1. CASE ~listener.active
    BY <1>4, <2>1 DEF Unlock, LogindUnlock, HeldOrLocked
  <2>2. CASE listener.active
    BY <1>4, <2>2 DEF Unlock, HeldOrLocked
  <2>3. QED
    BY <2>1, <2>2
<1>5. CASE SwitchLockOnSuspend
  BY <1>5 DEF SwitchLockOnSuspend, HeldOrLocked
<1>6. CASE UNCHANGED waits /\ Steady
  <2>1. manager.active => manager'.active
    BY <1>6 DEF Steady
  <2>2. QED
    BY <1>6, <2>1 DEF Steady, HeldOrLocked
<1>7. ASSUME UNCHANGED waits, NEW w \in Monitors, MapEvent(w)
      PROVE  HeldOrLocked'
  <2>1. manager.active
    BY <1>7, ManagerIsSound DEF MapEvent, Sound, ManagerInv, WindowsOK
  <2>2. manager'.active
    BY <1>7, <2>1, ManagerIsSound, QuietOperations DEF MapEvent, Quiet
  <2>3. QED
    BY <2>2 DEF HeldOrLocked
<1>8. CASE SleepSignal
  <2>1. UNCHANGED waits
    BY <1>8 DEF SleepSignal
  <2>2. SleepMessages \/ UNCHANGED vars
    BY <1>8, Zenon DEF SleepSignal, SleepMessages
  <2>3. CASE UNCHANGED vars
    BY <2>1, <2>3 DEF vars, HeldOrLocked
  <2>4. CASE SleepMessages
    BY <1>6, <2>1, <2>4, MessagesSteady
  <2>5. QED
    BY <2>2, <2>3, <2>4
<1>9. CASE \/ Quietly(Messages) \/ Quietly(Scheduled)
           \/ Quietly(\E active \in BOOLEAN : BlankingChanged(active))
           \/ Quietly(Preferences) \/ Quietly(Environment)
  <2>1. UNCHANGED waits
    BY <1>9 DEF Quietly, logindVars
  <2>2. Messages \/ MainLoop \/ Preferences \/ Environment
    BY <1>9, Zenon DEF Quietly, MainLoop
  <2>3. Steady \/ \E w \in Monitors : MapEvent(w)
    BY <2>2, MessagesSteady, MainLoopSteady, RestSteady
  <2>4. QED
    BY <1>6, <1>7, <2>1, <2>3
<1>10. CASE UNCHANGED sleepVars
  BY <1>10 DEF sleepVars, HeldOrLocked
<1>11. QED
  BY <1>2, <1>3, <1>4, <1>5, <1>8, <1>9, <1>10 DEF SleepNext, SleepProtocol

\* A suspend that waited until the delay locks were given up finds the lock
\* screen: what lets go of a delay lock in time is a lock window that is mapped,
\* and it stays for as long as the user does not unlock.
THEOREM SleepsBehindTheLock == SleepSpec => SleepsBehindLock
<1> USE ManagerAssumption, LightLockerAssumption, SleepAssumption
<1> DEFINE Behind ==
      (preparing /\ ~preparing' /\ world.openFds = 0 /\ waits) => manager.active
<1>1. SleepInit => HeldOrLocked
  BY DEF SleepInit, HeldOrLocked
<1>2. IInv /\ SleepTyped /\ HeldOrLocked /\ [SleepNext]_sleepVars => HeldOrLocked'
  BY HeldOrLockedSteps
<1>3. IInv /\ HeldOrLocked => Behind
  BY DEF IInv, TypeOK, World, HeldOrLocked
<1>4. QED
  BY <1>1, <1>2, <1>3, SleepSound, PTL DEF SleepSpec, SleepsBehindLock

-----------------------------------------------------------------------------
(***************************************************************************)
(* The screen saver.                                                       *)
(***************************************************************************)

\* A step beside the X server is a step of Sleep or leaves it alone.
LEMMA SaverStepIsStep ==
    ASSUME [SaverNext]_sessionVars
    PROVE  [SleepNext]_sleepVars
<1>1. CASE \E on \in BOOLEAN : Switches(on)
  BY <1>1 DEF Switches
<1>2. CASE Cycles
  BY <1>2 DEF Cycles
<1>3. CASE Notify
  <2>1. \/ UNCHANGED vars
        \/ \E active \in BOOLEAN : BlankingChanged(active)
    <3>1. (Head(events) = "On") \in BOOLEAN
      OBVIOUS
    <3>2. QED
      BY <1>3, <3>1, Zenon DEF Notify
  <2>2. UNCHANGED logindVars
    BY <1>3 DEF Notify
  <2>3. CASE UNCHANGED vars
    BY <2>2, <2>3 DEF vars, logindVars, sleepVars
  <2>4. QED
    BY <2>1, <2>2, <2>3, Zenon DEF SleepNext, Quietly
<1>4. CASE Beside(SleepProtocol)
  BY <1>4, Zenon DEF Beside, SleepNext
<1>5. CASE UNCHANGED sessionVars
  BY <1>5 DEF sessionVars, sleepVars
<1>6. UserIdles \/ UserActs \/ SessionCalls => \E on \in BOOLEAN : Switches(on)
  BY Zenon DEF UserIdles, UserActs, SessionCalls, SimulateUserActivity, SetActive, ForceBlanking
<1>7. QED
  BY <1>1, <1>2, <1>3, <1>4, <1>5, <1>6, Zenon DEF SaverNext

\* With the X server hidden, every behaviour is one of Sleep, and so of
\* LightLocker: the screen saver's events come in one of the orders that were
\* allowed there.
THEOREM SaverImplementsSleep == SaverSpec => SleepSpec
<1>1. SaverInit => SleepInit
  BY DEF SaverInit
<1>2. [SaverNext]_sessionVars => [SleepNext]_sleepVars
  BY SaverStepIsStep
<1>3. QED
  BY <1>1, <1>2, PTL DEF SaverSpec, SleepSpec

\* What light-locker will have seen when the events in flight are handled.
Told ==
    /\ saver \in BOOLEAN
    /\ events \in Seq(States)
    /\ \/ /\ x11 = saver
          /\ \A i \in 1 .. Len(events) : events[i] = "Cycle"
       \/ \E i \in 1 .. Len(events) :
             /\ events[i] = IF saver THEN "On" ELSE "Off"
             /\ \A j \in (i + 1) .. Len(events) : events[j] = "Cycle"

\* Only the screen saver's events move GSListenerX11's copy.
LEMMA ProtocolKeepsCopy ==
    ASSUME SleepProtocol
    PROVE  UNCHANGED x11
<1>1. Messages \/ SleepMessages => UNCHANGED x11
  BY DEF Messages, SleepMessages, SessionLock, LogindLock, LidNotice, SeatNotice, Suspend, Resume
<1>2. Scheduled => UNCHANGED x11
  BY DEF Scheduled, MapEvent, LockTimeout, GreeterTimeout, LockSessionTimeout, SwitchSessionTimeout
<1>3. Preferences \/ Environment => UNCHANGED x11
  BY DEF Preferences, Environment, ConfLockAfter, ConfLateLocking, ConfLockOnLid, ConfIdleHint,
         LidMoves, SeatMoves, MonitorsChanged
<1>4. CASE Unlock \/ SwitchLockOnSuspend
  BY <1>4 DEF Unlock, LogindUnlock, SwitchLockOnSuspend, ConfLockOnSuspend
<1>5. CASE PrepareForSleep \/ AllReleased \/ DelayMaxSecOver
  BY <1>5 DEF PrepareForSleep, AllReleased, DelayMaxSecOver, SleepAndWake, vars
<1>6. CASE SleepSignal
  BY <1>6, <1>1 DEF SleepSignal, SleepMessages, vars
<1>7. QED
  BY <1>1, <1>2, <1>3, <1>4, <1>5, <1>6 DEF SleepProtocol, Quietly

\* The last event that is not a mere change of picture tells the truth.
LEMMA ToldSteps ==
    ASSUME Told, x11 \in BOOLEAN, [SaverNext]_sessionVars
    PROVE  Told'
<1>1. ASSUME NEW on \in BOOLEAN, Switches(on)
      PROVE  Told'
  <2> DEFINE e == IF on THEN "On" ELSE "Off"
  <2>1. saver' = on /\ events' = Append(events, e) /\ e \in States
    BY <1>1 DEF Switches, Tells, States
  <2>2. /\ events' \in Seq(States)
        /\ Len(events') = Len(events) + 1 /\ Len(events) \in Nat
        /\ events'[Len(events) + 1] = e
    BY <2>1 DEF Told
  <2>3. QED
    BY <2>1, <2>2 DEF Told
<1>2. CASE Cycles
  <2>1. UNCHANGED <<saver, x11>> /\ events' = Append(events, "Cycle")
    BY <1>2 DEF Cycles, Tells, sleepVars
  <2>2. /\ events' \in Seq(States)
        /\ Len(events') = Len(events) + 1 /\ Len(events) \in Nat
        /\ events'[Len(events) + 1] = "Cycle"
        /\ \A i \in 1 .. Len(events) : events'[i] = events[i]
    BY <2>1 DEF Told, States
  <2>3. QED
    BY <2>1, <2>2 DEF Told
<1>3. CASE Notify
  <2>1. /\ events # <<>> /\ events' = Tail(events) /\ UNCHANGED saver
        /\ \/ Known(Head(events)) /\ UNCHANGED x11
           \/ ~Known(Head(events)) /\ x11' = (Head(events) = "On")
    BY <1>3 DEF Notify, BlankingChanged, vars
  <2>2. /\ events' \in Seq(States) /\ Head(events) = events[1]
        /\ Len(events) \in Nat /\ Len(events') = Len(events) - 1
        /\ \A i \in 1 .. Len(events') : events'[i] = events[i + 1]
    BY <2>1 DEF Told
  <2>3. CASE x11 = saver /\ \A i \in 1 .. Len(events) : events[i] = "Cycle"
    <3>1. events[1] = "Cycle"
      BY <2>1, <2>2, <2>3 DEF Told
    <3>2. x11' = x11
      BY <2>1, <2>2, <3>1 DEF Known
    <3>3. QED
      BY <2>1, <2>2, <2>3, <3>2 DEF Told
  <2>4. ASSUME NEW i \in 1 .. Len(events),
               events[i] = IF saver THEN "On" ELSE "Off",
               \A j \in (i + 1) .. Len(events) : events[j] = "Cycle"
        PROVE  Told'
    <3>1. CASE i = 1
      <4>1. x11' = saver
        BY <2>1, <2>2, <2>4, <3>1 DEF Known, Told
      <4>2. \A j \in 1 .. Len(events') : events'[j] = "Cycle"
        BY <2>2, <2>4, <3>1
      <4>3. QED
        BY <2>1, <2>2, <4>1, <4>2 DEF Told
    <3>2. CASE i # 1
      <4>1. /\ i - 1 \in 1 .. Len(events')
            /\ events'[i - 1] = IF saver' THEN "On" ELSE "Off"
            /\ \A j \in (i - 1 + 1) .. Len(events') : events'[j] = "Cycle"
        BY <2>1, <2>2, <2>4, <3>2
      <4>2. QED
        BY <2>1, <2>2, <4>1 DEF Told
    <3>3. QED
      BY <3>1, <3>2
  <2>5. QED
    BY <2>3, <2>4 DEF Told
<1>4. CASE Beside(SleepProtocol)
  BY <1>4, ProtocolKeepsCopy DEF Beside, saverVars, Told
<1>5. CASE UNCHANGED sessionVars
  BY <1>5 DEF sessionVars, Told
<1>6. UserIdles \/ UserActs \/ SessionCalls => \E on \in BOOLEAN : Switches(on)
  BY Zenon DEF UserIdles, UserActs, SessionCalls, SimulateUserActivity, SetActive, ForceBlanking
<1>7. QED
  BY <1>1, <1>2, <1>3, <1>4, <1>5, <1>6, Zenon DEF SaverNext

\* A screen saver that was off at the start is seen as it is once its events
\* are handled, for any number of them in flight.
THEOREM BlankingIsSeen ==
    ASSUME SaverStarts = {FALSE}
    PROVE  SaverSpec => []BlankingSettles
<1>1. SaverInit => Told
  <2> SUFFICES ASSUME SaverInit
               PROVE  Told
    OBVIOUS
  <2>1. x11 = FALSE
    BY Zenon DEF SaverInit, SleepInit, Init
  <2>2. saver = FALSE /\ events = <<>>
    BY DEF SaverInit
  <2>3. events \in Seq(States) /\ 1 .. Len(events) = {}
    BY <2>2
  <2>4. QED
    BY <2>1, <2>2, <2>3 DEF Told
<1>2. IInv /\ Told /\ [SaverNext]_sessionVars => Told'
  BY ToldSteps DEF IInv, TypeOK
<1>3. IInv /\ Told => BlankingSettles
  BY DEF IInv, CopiesAgree, Told, BlankingSettles
<1>4. QED
  BY <1>1, <1>2, <1>3, SaverImplementsSleep, SleepSound, PTL DEF SaverSpec

-----------------------------------------------------------------------------
(***************************************************************************)
(* What was proved of LightLocker, with logind and the X server beside it. *)
(***************************************************************************)

\* The promises of ScreenLock are kept under logind's protocol and with the X
\* server's screen saver.
THEOREM PromiseIsKeptBeside == SaverSpec => KeepsPromise
BY SaverImplementsSleep, SleepImplementsLightLocker, PromiseIsKept, PTL

\* So is the timer of a stranded user.
THEOREM StrandedHasTimerBeside ==
    ASSUME HasLid = FALSE, QueriesFail = FALSE
    PROVE  SaverSpec => []StrandedIsTimed
BY SaverImplementsSleep, SleepImplementsLightLocker, StrandedHasTimer, PTL

\* Nothing light-locker believes is in this one: a session that is locked and
\* on the seat, a screen that is lit, nothing in flight and LightDM not asked.
WatchedScreen ==
    /\ manager.active /\ ~world.asked
    /\ world.seat /\ world.seatNotices = 0
    /\ ~world.lid /\ world.lidNotices = 0
    /\ ~saver /\ events = <<>>

\* The user in front of it has the 10 s timer running, on a machine without a
\* lid and with a screen saver that was off when light-locker started.
THEOREM WatchedScreenIsTimed ==
    ASSUME HasLid = FALSE, QueriesFail = FALSE, SaverStarts = {FALSE}
    PROVE  SaverSpec => [](WatchedScreen => manager.greeterTimer)
<1>1. IInv /\ BlankingSettles /\ StrandedIsTimed /\ WatchedScreen => manager.greeterTimer
  BY DEF IInv, CopiesAgree, BlankingSettles, StrandedIsTimed, Stranded, WatchedScreen
<1>2. QED
  BY <1>1, BlankingIsSeen, StrandedHasTimerBeside, SaverImplementsSleep, SleepSound, PTL

=============================================================================
