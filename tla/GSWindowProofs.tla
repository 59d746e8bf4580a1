---------------------------- MODULE GSWindowProofs ----------------------------
(***************************************************************************)
(* The lock windows leave no gap, for any number of monitors and any       *)
(* layouts; and with their geometry they are GSManager's windows still.    *)
(***************************************************************************)
EXTENDS GSWindow, GSManagerProofs, FiniteSetTheorems, WellFoundedInduction

-----------------------------------------------------------------------------
(***************************************************************************)
(* Geometry.                                                               *)
(***************************************************************************)

\* A set of naturals that is not empty has a least element.
LEMMA Least ==
    ASSUME NEW T \in SUBSET Nat, T # {}
    PROVE  \E x \in T : \A y \in T : x <= y
<1> DEFINE R == OpToRel(<, Nat)
<1>1. IsWellFoundedOn(R, Nat)
  BY NatLessThanWellFounded
<1>2. ASSUME NEW x \in Nat, NEW y \in Nat, ~(<<y, x>> \in R)
      PROVE  x <= y
  <2>1. ~(y < x)
    BY <1>2, Zenon DEF OpToRel
  <2>2. QED
    BY <2>1
<1> HIDE DEF R
<1>3. PICK x \in T : \A y \in T : ~(<<y, x>> \in R)
  BY <1>1, WFMin
<1>4. ASSUME NEW y \in T
      PROVE  x <= y
  <2>1. ~(<<y, x>> \in R)
    BY <1>3, Zenon
  <2>2. x \in Nat /\ y \in Nat
    OBVIOUS
  <2>3. QED
    BY <2>1, <2>2, <1>2, Zenon
<1>5. QED
  BY <1>4

\* A layout has the monitors 0 .. n - 1, and GDK counts n of them.
LEMMA LayoutSize ==
    ASSUME ManagerAssumption, LayoutsAssumption, NEW l \in Layouts
    PROVE  /\ Cardinality(DOMAIN l) \in 1 .. MaxMonitors
           /\ DOMAIN l = FirstMonitors(Cardinality(DOMAIN l))
           /\ \A i \in DOMAIN l : l[i] \in Rectangle
<1>1. PICK n \in 1 .. MaxMonitors : l \in [FirstMonitors(n) -> Rectangle]
  BY DEF LayoutsAssumption
<1>2. n \in Nat /\ n >= 1
  BY DEF ManagerAssumption
<1>3. DOMAIN l = 0 .. (n - 1)
  BY <1>1 DEF FirstMonitors
<1>4. Cardinality(0 .. (n - 1)) = n
  BY <1>2, FS_Interval
<1>5. QED
  BY <1>1, <1>3, <1>4 DEF FirstMonitors

\* A pixel of a region that lies within a rectangle is in its bounding box.
LEMMA RegionInExtents ==
    ASSUME NEW r \in Rectangle, NEW region \in SUBSET Pixels(r), NEW p \in region
    PROVE  p \in Extents(region, r)
<1>1. p \in Pixels(r)
  OBVIOUS
<1>2. p[1] \in Int /\ p[2] \in Int
  BY <1>1 DEF Pixels, Rectangle
<1>3. p[1] <= p[1] /\ p[2] <= p[2]
  BY <1>2
<1>4. QED
  BY <1>1, <1>3 DEF Extents

\* Every pixel a monitor shows is covered: by the window of the first monitor
\* that shows it.
LEMMA NoGap ==
    ASSUME ManagerAssumption, LayoutsAssumption, NEW l \in Layouts,
           NEW m \in DOMAIN l, NEW p \in Pixels(l[m])
    PROVE  \E w \in DOMAIN l : p \in Geometry(l, w)
<1> DEFINE T == {i \in DOMAIN l : p \in Pixels(l[i])}
           n == Cardinality(DOMAIN l)
<1>1. /\ n \in 1 .. MaxMonitors
      /\ DOMAIN l = 0 .. (n - 1)
      /\ \A i \in DOMAIN l : l[i] \in Rectangle
  BY LayoutSize DEF FirstMonitors
<1>2. T \in SUBSET Nat /\ m \in T
  BY <1>1 DEF ManagerAssumption
<1>3. PICK w \in T : \A i \in T : w <= i
  BY <1>2, Least
<1>4. p \notin OutsideRegion(l, w)
  <2>1. SUFFICES ASSUME NEW i \in 0 .. (w - 1), p \in Pixels(l[i])
                 PROVE  FALSE
    BY DEF OutsideRegion
  <2>2. w \in 0 .. (n - 1) /\ n \in Nat
    BY <1>1, <1>3 DEF ManagerAssumption
  <2>3. i \in DOMAIN l /\ i < w
    BY <1>1, <2>2
  <2>4. i \in T
    BY <2>1, <2>3
  <2>5. w <= i
    BY <1>3, <2>4
  <2>6. QED
    BY <2>2, <2>3, <2>5
<1>5. p \in Pixels(l[w]) \ OutsideRegion(l, w)
  BY <1>3, <1>4
<1>6. p \in Geometry(l, w)
  BY <1>1, <1>3, <1>5, RegionInExtents DEF Geometry
<1>7. QED
  BY <1>3, <1>6

-----------------------------------------------------------------------------
(***************************************************************************)
(* GSManager under its windows.                                            *)
(***************************************************************************)

\* A window that has no resize queued covers what the present layout asks.
Fresh == \A w \in DOMAIN area \ resizes : area[w] = Geometry(layout, w)

WindowsIInv == IInv /\ AreasTypeOK /\ Fresh

\* Telling the windows of a sound manager about a layout with as many monitors
\* adds and removes none.
LEMMA SameSizeResizes ==
    ASSUME IInv
    PROVE  Resized(manager, monitors) = manager \/ manager.windows = {}
<1> USE ManagerAssumption
<1>1. SUFFICES ASSUME manager.windows # {}
               PROVE  Resized(manager, monitors) = manager
  OBVIOUS
<1>2. /\ manager \in Manager
      /\ manager.windows = 0 .. (monitors - 1)
      /\ manager.mapped \subseteq 0 .. (monitors - 1)
      /\ monitors \in Nat /\ monitors >= 1
  BY <1>1 DEF IInv, Sound, ManagerInv, WindowsOK, FirstMonitors, ManagerAssumption
<1>3. Cardinality(manager.windows) = monitors
  BY <1>2, FS_Interval
<1>4. /\ manager.windows \cap FirstMonitors(monitors) = manager.windows
      /\ manager.mapped \cap FirstMonitors(monitors) = manager.mapped
  BY <1>2 DEF FirstMonitors
<1>5. Resized(manager, monitors)
        = [manager EXCEPT !.windows = manager.windows, !.mapped = manager.mapped]
  <2>1. ~(monitors > Cardinality(manager.windows))
    BY <1>2, <1>3
  <2>2. QED
    BY <2>1, <1>4, Zenon DEF Resized
<1>6. QED
  BY <1>2, <1>5 DEF Manager

\* A change of the layout is a change of the number of monitors, or nothing.
LEMMA LayoutChangedRefines ==
    ASSUME IInv, NEW l \in Layouts, LayoutChanged(l)
    PROVE  [Next]_vars
<1> DEFINE n == Cardinality(DOMAIN l)
<1>1. n \in 1 .. MaxMonitors
  BY LayoutSize, ManagerAssumption, LayoutsAssumption
<1>2. /\ monitors' = n
      /\ manager' = IF manager.windows = {} THEN manager ELSE Resized(manager, n)
  BY DEF LayoutChanged
<1> HIDE DEF n
<1>3. CASE n # monitors
  <2>1. MonitorsChanged(n)
    BY <1>2, <1>3 DEF MonitorsChanged
  <2>2. QED
    BY <1>1, <2>1 DEF Next
<1>4. CASE n = monitors
  BY <1>2, <1>4, SameSizeResizes DEF vars
<1>5. QED
  BY <1>3, <1>4

\* With the geometry hidden, every step is one of GSManager's or none.
LEMMA StepRefines == IInv /\ [WindowsNext]_windowVars => [Next]_vars
<1> SUFFICES ASSUME IInv, [WindowsNext]_windowVars
             PROVE  [Next]_vars
  OBVIOUS
<1>1. ASSUME NEW active \in BOOLEAN, NEW grabbed \in BOOLEAN,
             SwitchWindows(active, grabbed)
      PROVE  [Next]_vars
  BY <1>1 DEF SwitchWindows, Next
<1>2. ASSUME NEW l \in Layouts, LayoutChanged(l)
      PROVE  [Next]_vars
  BY <1>2, LayoutChangedRefines
<1>3. ASSUME NEW w \in Monitors, Resize(w)
      PROVE  [Next]_vars
  BY <1>3 DEF Resize, vars
<1>4. CASE SameGeometry
  BY <1>4, Zenon DEF SameGeometry, Next
<1>5. CASE UNCHANGED windowVars
  BY <1>5 DEF windowVars, vars
<1>6. QED
  BY <1>1, <1>2, <1>3, <1>4, <1>5 DEF WindowsNext

\* What touches no geometry touches no window.
LEMMA SameGeometryKeepsWindows ==
    ASSUME IInv, SameGeometry
    PROVE  manager'.windows = manager.windows /\ monitors' = monitors
<1>1. manager \in Manager
  BY DEF IInv, Sound
<1>2. ASSUME NEW b \in BOOLEAN
      PROVE  /\ ManagerSetSessionVisible(manager, b).windows = manager.windows
             /\ ManagerSetBlankScreen(manager, b).windows = manager.windows
             /\ ManagerSetLidClosed(manager, b).windows = manager.windows
  BY <1>1 DEF ManagerSetSessionVisible, ManagerSetBlankScreen, ManagerSetLidClosed,
     Presentable, TimedSwitch, StopSwitch, TimedLock, StopLock, Manager
<1>3. ASSUME NEW a \in LockAfterValues, NEW w \in Monitors
      PROVE  /\ ManagerSetLockAfter(manager, a).windows = manager.windows
             /\ WindowMapped(manager, w).windows = manager.windows
  BY <1>1 DEF ManagerSetLockAfter, WindowMapped, Manager
<1>4. /\ ManagerShowContent(manager).windows = manager.windows
      /\ SwitchGreeterFired(manager).windows = manager.windows
      /\ LockFired(manager).windows = manager.windows
  BY <1>1 DEF ManagerShowContent, SwitchGreeterFired, LockFired, Manager
<1>5. ASSUME NEW b \in BOOLEAN,
             SetSessionVisible(b) \/ SetBlankScreen(b) \/ SetLidClosed(b)
      PROVE  manager'.windows = manager.windows /\ monitors' = monitors
  BY <1>2, <1>5 DEF SetSessionVisible, SetBlankScreen, SetLidClosed
<1>6. ASSUME NEW a \in LockAfterValues, SetLockAfter(a)
      PROVE  manager'.windows = manager.windows /\ monitors' = monitors
  BY <1>1, <1>6 DEF SetLockAfter, ManagerSetLockAfter, Manager
<1>7. ASSUME NEW w \in Monitors, MapEvent(w)
      PROVE  manager'.windows = manager.windows /\ monitors' = monitors
  BY <1>1, <1>7 DEF MapEvent, WindowMapped, Manager
<1>8. ASSUME ShowContent \/ SwitchGreeterTimeout \/ LockTimeout
      PROVE  manager'.windows = manager.windows /\ monitors' = monitors
  BY <1>4, <1>8 DEF ShowContent, SwitchGreeterTimeout, LockTimeout
<1>9. QED
  BY <1>5, <1>6, <1>7, <1>8, Zenon DEF SameGeometry

-----------------------------------------------------------------------------
(***************************************************************************)
(* The invariant.                                                          *)
(***************************************************************************)

LEMMA WindowsInitSound == WindowsInit => WindowsIInv
<1> SUFFICES ASSUME WindowsInit
             PROVE  WindowsIInv
  OBVIOUS
<1>1. IInv
  BY InitSound DEF WindowsInit
<1>2. manager.windows = {}
  BY DEF WindowsInit, Init, NewManager
<1>3. QED
  BY <1>1, <1>2 DEF WindowsInit, WindowsIInv, AreasTypeOK, Fresh

LEMMA SwitchWindowsSound ==
    ASSUME WindowsIInv, NEW active \in BOOLEAN, NEW grabbed \in BOOLEAN,
           SwitchWindows(active, grabbed)
    PROVE  AreasTypeOK' /\ Fresh'
<1>1. /\ AreasTypeOK /\ Fresh
      /\ layout' = layout /\ monitors' = monitors
  BY DEF WindowsIInv, SwitchWindows, SetActive
<1>2. CASE manager'.windows = manager.windows
  BY <1>1, <1>2 DEF SwitchWindows, AreasTypeOK, Fresh
<1>3. CASE manager'.windows # manager.windows
  BY <1>1, <1>3 DEF SwitchWindows, AreasTypeOK, Fresh
<1>4. QED
  BY <1>2, <1>3

LEMMA LayoutChangedSound ==
    ASSUME WindowsIInv, NEW l \in Layouts, LayoutChanged(l)
    PROVE  AreasTypeOK' /\ Fresh'
<1>1. /\ layout' = l
      /\ monitors' = Cardinality(DOMAIN l)
      /\ DOMAIN area' = manager'.windows
      /\ resizes' = manager'.windows
  BY DEF LayoutChanged
<1>2. DOMAIN l = FirstMonitors(Cardinality(DOMAIN l))
  BY LayoutSize, ManagerAssumption, LayoutsAssumption
<1>3. QED
  BY <1>1, <1>2 DEF AreasTypeOK, Fresh

LEMMA ResizeSound ==
    ASSUME WindowsIInv, NEW w \in Monitors, Resize(w)
    PROVE  AreasTypeOK' /\ Fresh'
<1>1. AreasTypeOK /\ Fresh
  BY DEF WindowsIInv
<1>2. w \in DOMAIN area
  BY <1>1 DEF Resize, AreasTypeOK
<1>3. /\ area' = [area EXCEPT ![w] = Geometry(layout, w)]
      /\ resizes' = resizes \ {w}
      /\ layout' = layout /\ manager' = manager /\ monitors' = monitors
  BY DEF Resize
<1>4. AreasTypeOK'
  BY <1>1, <1>3 DEF AreasTypeOK
<1>5. ASSUME NEW v \in DOMAIN area' \ resizes'
      PROVE  area'[v] = Geometry(layout', v)
  BY <1>1, <1>2, <1>3, <1>5 DEF Fresh
<1>6. QED
  BY <1>4, <1>5 DEF Fresh

LEMMA WindowsNextSound == WindowsIInv /\ [WindowsNext]_windowVars => WindowsIInv'
<1> SUFFICES ASSUME WindowsIInv, [WindowsNext]_windowVars
             PROVE  WindowsIInv'
  OBVIOUS
<1>1. IInv'
  BY StepRefines, NextSound DEF WindowsIInv
<1>2. AreasTypeOK' /\ Fresh'
  <2>1. ASSUME NEW active \in BOOLEAN, NEW grabbed \in BOOLEAN,
               SwitchWindows(active, grabbed)
        PROVE  AreasTypeOK' /\ Fresh'
    BY <2>1, SwitchWindowsSound
  <2>2. ASSUME NEW l \in Layouts, LayoutChanged(l)
        PROVE  AreasTypeOK' /\ Fresh'
    BY <2>2, LayoutChangedSound
  <2>3. ASSUME NEW w \in Monitors, Resize(w)
        PROVE  AreasTypeOK' /\ Fresh'
    BY <2>3, ResizeSound
  <2>4. CASE SameGeometry
    <3>1. manager'.windows = manager.windows /\ monitors' = monitors
      BY <2>4, SameGeometryKeepsWindows DEF WindowsIInv
    <3>2. layout' = layout /\ area' = area /\ resizes' = resizes
      BY <2>4 DEF SameGeometry
    <3>3. QED
      BY <3>1, <3>2 DEF WindowsIInv, AreasTypeOK, Fresh
  <2>5. CASE UNCHANGED windowVars
    BY <2>5 DEF windowVars, WindowsIInv, AreasTypeOK, Fresh
  <2>6. QED
    BY <2>1, <2>2, <2>3, <2>4, <2>5 DEF WindowsNext
<1>3. QED
  BY <1>1, <1>2 DEF WindowsIInv

\* Windows, geometries and queued resizes stay consistent in every reachable
\* state.
THEOREM WindowsAlwaysSound == WindowsSpec => []WindowsIInv
BY WindowsInitSound, WindowsNextSound, PTL DEF WindowsSpec

\* There is a geometry for each lock window and for no other.
THEOREM AreasTypeCorrect == WindowsSpec => []AreasTypeOK
<1>1. WindowsIInv => AreasTypeOK
  BY DEF WindowsIInv
<1>2. QED
  BY <1>1, WindowsAlwaysSound, PTL

\* The lock windows are GSManager's: what is proved of it holds of them.
THEOREM WindowsImplementGSManager == WindowsSpec => Spec
<1>1. WindowsInit => Init
  BY DEF WindowsInit
<1>2. WindowsIInv => IInv
  BY DEF WindowsIInv
<1>3. QED
  BY <1>1, <1>2, StepRefines, WindowsAlwaysSound, PTL DEF WindowsSpec, Spec

\* Once the queued resizes are through, lock windows cover all that the
\* monitors of a locked session show.
THEOREM ScreenIsCovered == WindowsSpec => []ScreenCovered
<1>1. WindowsIInv => ScreenCovered
  <2> SUFFICES ASSUME WindowsIInv, manager.active, resizes = {},
                      NEW m \in DOMAIN layout, NEW p \in Pixels(layout[m])
               PROVE  \E w \in DOMAIN area : p \in area[w]
    BY DEF ScreenCovered, Shown, Covered
  <2>1. DOMAIN area = DOMAIN layout
    BY DEF WindowsIInv, IInv, Sound, ManagerInv, WindowsOK, AreasTypeOK
  <2>2. layout \in Layouts
    BY DEF WindowsIInv, AreasTypeOK
  <2>3. PICK w \in DOMAIN layout : p \in Geometry(layout, w)
    BY <2>2, NoGap, ManagerAssumption, LayoutsAssumption
  <2>4. area[w] = Geometry(layout, w)
    BY <2>1 DEF WindowsIInv, Fresh
  <2>5. QED
    BY <2>1, <2>3, <2>4
<1>2. QED
  BY <1>1, WindowsAlwaysSound, PTL

\* While the monitors stay as they are no window is told to resize again, and
\* each idle callback leaves one window less to wait for: with the callbacks
\* dispatched the resizes run out, and then ScreenIsCovered applies
\* (gs-manager.c:298-306, gs-window-x11.c:596).
ResizesRunOut ==
    [][ layout' = layout =>
            /\ resizes' \subseteq resizes
            /\ \A w \in Monitors : Resize(w) => w \in resizes \ resizes' ]_windowVars

\* For any layouts, the pending resizes only get fewer.
THEOREM NothingResizesForEver == WindowsSpec => ResizesRunOut
<1>1. ASSUME WindowsIInv, WindowsNext, layout' = layout
      PROVE  /\ resizes' \subseteq resizes
             /\ \A w \in Monitors : Resize(w) => w \in resizes \ resizes'
  <2>1. resizes' \subseteq resizes
    BY <1>1 DEF WindowsNext, SwitchWindows, LayoutChanged, Resize, SameGeometry
  <2>2. QED
    BY <2>1 DEF Resize
<1>2. WindowsIInv /\ [WindowsNext]_windowVars =>
         [ layout' = layout =>
              /\ resizes' \subseteq resizes
              /\ \A w \in Monitors : Resize(w) => w \in resizes \ resizes' ]_windowVars
  BY <1>1
<1>3. QED
  BY <1>2, WindowsAlwaysSound, PTL DEF WindowsSpec, ResizesRunOut

=============================================================================
