------------------------------ MODULE GSWindow ------------------------------
(***************************************************************************)
(* What the lock windows cover (gs-window-x11.c), under GSManager.         *)
(*                                                                         *)
(* Window w is made for monitor w.  It leaves out what monitors with a     *)
(* lower number show already, so that mirrored and overlapping monitors    *)
(* are covered once.  When monitors come, go or move, the windows that     *)
(* stay are only told to work out their geometry again; each does so in an *)
(* idle callback of its own, and the layout may change before it does.     *)
(*                                                                         *)
(* A rectangle is the one GDK reports; a region is its set of pixels.      *)
(***************************************************************************)
EXTENDS GSManager

CONSTANT
    Layouts     \* the arrangements of monitors GDK may report

Rectangle == [x : Int, y : Int, width : Nat, height : Nat]

ASSUME LayoutsAssumption ==
    \A l \in Layouts : \E n \in 1 .. MaxMonitors : l \in [FirstMonitors(n) -> Rectangle]

VARIABLES
    layout,     \* the monitors' geometries: gdk_screen_get_monitor_geometry
    area,       \* what each lock window covers: GSWindow's geometry
    resizes     \* the windows with a queued resize

windowVars == <<manager, monitors, layout, area, resizes>>

-----------------------------------------------------------------------------
(***************************************************************************)
(* Geometry.                                                               *)
(***************************************************************************)

Pixels(r) == (r.x .. (r.x + r.width - 1)) \X (r.y .. (r.y + r.height - 1))

\* Bug: every other monitor is left out, not only those before.
OutsideAnyOther(l, w) == UNION {Pixels(l[i]) : i \in DOMAIN l \ {w}}

\* get_outside_region: the monitors before w.
OutsideRegion(l, w) == UNION {Pixels(l[i]) : i \in 0 .. (w - 1)}

\* cairo_region_get_extents of a region within r: its bounding box.
Extents(region, r) ==
    {p \in Pixels(r) : /\ \E q \in region : q[1] <= p[1]
                       /\ \E q \in region : p[1] <= q[1]
                       /\ \E q \in region : q[2] <= p[2]
                       /\ \E q \in region : p[2] <= q[2]}

\* update_geometry.
Geometry(l, w) == Extents(Pixels(l[w]) \ OutsideRegion(l, w), l[w])

-----------------------------------------------------------------------------

\* gs_manager_set_active: new windows work out their geometry as they are
\* shown, destroyed ones take theirs with them.
SwitchWindows(active, grabbed) ==
    /\ SetActive(active, grabbed)
    /\ IF manager'.windows = manager.windows
       THEN UNCHANGED <<area, resizes>>
       ELSE /\ area' = [w \in manager'.windows |-> Geometry(layout, w)]
            /\ resizes' = {}
    /\ UNCHANGED layout

\* Bug: the geometry of a destroyed window is kept.
LayoutChangedKeepsAreas(l) ==
    LET n == Cardinality(DOMAIN l)
    IN  /\ l # layout
        /\ layout' = l
        /\ monitors' = n
        /\ manager' = IF manager.windows = {} THEN manager ELSE Resized(manager, n)
        /\ area' = [w \in manager.windows \cup manager'.windows |->
                       IF w \in manager.windows THEN area[w] ELSE Geometry(l, w)]
        /\ resizes' = manager'.windows

\* on_screen_monitors_changed with the layout l: windows are added and shown,
\* or destroyed, and every window there is then is told to resize.
\* screen_size_changed, which may follow, tells them once more.
LayoutChanged(l) ==
    LET n == Cardinality(DOMAIN l)
    IN  /\ l # layout
        /\ layout' = l
        /\ monitors' = n
        /\ manager' = IF manager.windows = {} THEN manager ELSE Resized(manager, n)
        /\ area' = [w \in manager'.windows |->
                       IF w \in manager.windows THEN area[w] ELSE Geometry(l, w)]
        /\ resizes' = manager'.windows

\* Bug: the old geometry is saved after it was updated, so nothing moves.
ResizeComparesLate(w) ==
    /\ w \in resizes
    /\ resizes' = resizes \ {w}
    /\ UNCHANGED <<manager, monitors, layout, area>>

\* gs_window_real_size_request of a realized window, from GTK's idle.
Resize(w) ==
    /\ w \in resizes
    /\ area' = [area EXCEPT ![w] = Geometry(layout, w)]
    /\ resizes' = resizes \ {w}
    /\ UNCHANGED <<manager, monitors, layout>>

\* The rest of GSManager does not touch the windows' geometry.
SameGeometry ==
    /\ \/ \E visible \in BOOLEAN : SetSessionVisible(visible)
       \/ \E blank \in BOOLEAN : SetBlankScreen(blank)
       \/ \E closed \in BOOLEAN : SetLidClosed(closed)
       \/ \E lockAfter \in LockAfterValues : SetLockAfter(lockAfter)
       \/ ShowContent
       \/ \E w \in Monitors : MapEvent(w)
       \/ SwitchGreeterTimeout
       \/ LockTimeout
    /\ UNCHANGED <<layout, area, resizes>>

WindowsInit ==
    /\ Init
    /\ layout \in Layouts
    /\ DOMAIN layout = FirstMonitors(monitors)
    /\ area = [w \in {} |-> {}]
    /\ resizes = {}

WindowsNext ==
    \/ \E active, grabbed \in BOOLEAN : SwitchWindows(active, grabbed)
    \/ \E l \in Layouts : LayoutChanged(l)
    \/ \E w \in Monitors : Resize(w)
    \/ SameGeometry

WindowsSpec == WindowsInit /\ [][WindowsNext]_windowVars

\* GTK runs its idle callbacks.
WindowsFairSpec == WindowsSpec /\ \A w \in Monitors : WF_windowVars(Resize(w))

-----------------------------------------------------------------------------
(***************************************************************************)
(* Properties.                                                             *)
(***************************************************************************)

\* There is a geometry for every window and for no other.
AreasTypeOK ==
    /\ layout \in Layouts
    /\ DOMAIN layout = FirstMonitors(monitors)
    /\ DOMAIN area = manager.windows
    /\ resizes \subseteq manager.windows

Shown == UNION {Pixels(layout[m]) : m \in DOMAIN layout}

Covered == UNION {area[w] : w \in DOMAIN area}

\* A locked screen shows nothing but lock windows once the queued resizes are
\* through: leaving out what lower monitors show leaves no gap, whatever
\* overlaps, mirrors or contains what, and no window keeps the geometry of a
\* layout that is gone (gs-window-x11.c:142-201, gs-manager.c:298-306).
ScreenCovered == manager.active /\ resizes = {} => Shown \subseteq Covered

\* If the monitors stay as they are, a locked screen is covered in the end,
\* although each window resizes at a time of its own.
CoveredInTheEnd ==
    \A l \in Layouts :
        <>[](layout = l) => []<>(manager.active => Shown \subseteq Covered)

=============================================================================
