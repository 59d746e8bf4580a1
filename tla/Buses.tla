-------------------------------- MODULE Buses --------------------------------
(***************************************************************************)
(* light-locker on the session and the system bus (gs-listener-dbus.c):    *)
(* gs_listener_acquire, which several light-lockers and other screen       *)
(* savers may run at one time, and what is left of it when a bus is lost.  *)
(*                                                                         *)
(* Each blocking call to the bus is a step of its own.  Between two of     *)
(* them anybody else may act; light-locker itself does nothing else before *)
(* it enters the main loop.                                                *)
(***************************************************************************)
EXTENDS Integers, FiniteSets

CONSTANTS
    Lockers,        \* light-locker processes of one session
    Rivals,         \* other programs that take one of the names
    NoOne,          \* not a program
    CallsFail       \* the bus may answer a call with an error

ASSUME BusesAssumption ==
    /\ Lockers \cap Rivals = {}
    /\ NoOne \notin Lockers \cup Rivals
    /\ CallsFail \in BOOLEAN

Bus == {"session", "system"}

\* GS_SERVICE and GS_SERVICE_GNOME.
Names == {"freedesktop", "GNOME"}

VARIABLES
    up,         \* the buses that accept connections
    owner,      \* who owns each name on the session bus
    pc,         \* where a light-locker is
    link,       \* its two connections
    wired,      \* those that have its filter and its match rules
    retries     \* its timeouts that run reinit_dbus

vars == <<up, owner, pc, link, wired, retries>>

\* A connection the process does not know to be lost is "closed"; "none" is
\* a NULL pointer.
Links == {"open", "closed", "none"}

Acquiring == {"check", "checkGNOME", "request", "requestGNOME"}

Init ==
    /\ up = Bus
    /\ owner = [n \in Names |-> NoOne]
    /\ pc = [p \in Lockers |-> "exited"]
    /\ link = [p \in Lockers |-> [b \in Bus |-> "none"]]
    /\ wired = [p \in Lockers |-> {}]
    /\ retries = [p \in Lockers |-> 0]

-----------------------------------------------------------------------------
(***************************************************************************)
(* A light-locker starts.                                                  *)
(***************************************************************************)

\* gs_listener_init: without both connections the session id is not found
\* and the process aborts.
Launch(p) ==
    /\ pc[p] = "exited"
    /\ up = Bus
    /\ pc' = [pc EXCEPT ![p] = "check"]
    /\ link' = [link EXCEPT ![p] = [b \in Bus |-> "open"]]
    /\ UNCHANGED <<up, owner, wired, retries>>

\* The names of a process that exits are free again.
Released(p) == [n \in Names |-> IF owner[n] = p THEN NoOne ELSE owner[n]]

\* main exits when gs_monitor_start fails.
Exit(p) ==
    /\ pc' = [pc EXCEPT ![p] = "exited"]
    /\ link' = [link EXCEPT ![p] = [b \in Bus |-> "none"]]
    /\ wired' = [wired EXCEPT ![p] = {}]
    /\ retries' = [retries EXCEPT ![p] = 0]
    /\ owner' = Released(p)
    /\ UNCHANGED up

Goes(p, to) ==
    /\ pc' = [pc EXCEPT ![p] = to]
    /\ UNCHANGED <<up, link, wired, retries>>

\* A call fails on a lost connection, and may fail on another.
Errs(p) == CallsFail \/ link[p]["session"] # "open"

\* What dbus_bus_name_has_owner answers; an error counts as FALSE.
HasOwner(p, n) ==
    (IF link[p]["session"] = "open" THEN {owner[n] # NoOne} ELSE {})
        \cup (IF Errs(p) THEN {FALSE} ELSE {})

\* gs_listener_acquire on a connection known to be lost, and the first call
\* of screensaver_is_running.
Check(p) ==
    /\ pc[p] = "check"
    /\ \/ /\ link[p]["session"] # "open" \/ TRUE \in HasOwner(p, "freedesktop")
          /\ Exit(p)
       \/ /\ link[p]["session"] = "open" /\ FALSE \in HasOwner(p, "freedesktop")
          /\ Goes(p, "checkGNOME")
          /\ UNCHANGED owner

\* The second call of screensaver_is_running.
CheckGNOME(p) ==
    /\ pc[p] = "checkGNOME"
    /\ \/ /\ TRUE \in HasOwner(p, "GNOME")
          /\ Exit(p)
       \/ /\ FALSE \in HasOwner(p, "GNOME")
          /\ Goes(p, "request")
          /\ UNCHANGED owner

\* Bug: the name is taken from whoever has it.
GrantsAnyway(p, n) == link[p]["session"] = "open"

\* dbus_bus_request_name with DBUS_NAME_FLAG_DO_NOT_QUEUE.
Grants(p, n) == link[p]["session"] = "open" /\ owner[n] \in {NoOne, p}

\* The first name.  An error is recorded, and the next request is made.
Request(p) ==
    /\ pc[p] = "request"
    /\ \/ /\ Grants(p, "freedesktop")
          /\ owner' = [owner EXCEPT !["freedesktop"] = p]
          /\ Goes(p, "requestGNOME")
       \/ /\ Errs(p)
          /\ Goes(p, "requestGNOME")
          /\ UNCHANGED owner
       \/ /\ link[p]["session"] = "open" /\ ~Grants(p, "freedesktop")
          /\ Exit(p)

\* Bug: the second name is not insisted on.
RequestGNOMEAnyway(p) ==
    /\ pc[p] = "requestGNOME"
    /\ owner' = IF Grants(p, "GNOME") THEN [owner EXCEPT !["GNOME"] = p] ELSE owner
    /\ pc' = [pc EXCEPT ![p] = "running"]
    /\ wired' = [wired EXCEPT ![p] = Bus]
    /\ UNCHANGED <<up, link, retries>>

\* The second name.  Its result is the result of gs_listener_acquire; filters
\* and match rules are added before it is looked at for an error.
RequestGNOME(p) ==
    /\ pc[p] = "requestGNOME"
    /\ \/ /\ Grants(p, "GNOME")
          /\ owner' = [owner EXCEPT !["GNOME"] = p]
          /\ pc' = [pc EXCEPT ![p] = "running"]
          /\ wired' = [wired EXCEPT ![p] = Bus]
          /\ UNCHANGED <<up, link, retries>>
       \/ /\ Errs(p) \/ ~Grants(p, "GNOME")
          /\ Exit(p)

-----------------------------------------------------------------------------
(***************************************************************************)
(* A bus is lost while light-locker runs.                                  *)
(***************************************************************************)

\* Bug: the pointer is kept, and the message is handled again.
HandleDisconnectedAgain(p, b) ==
    /\ pc[p] = "running"
    /\ link[p][b] = "closed"
    /\ b \in wired[p]
    /\ retries' = [retries EXCEPT ![p] = @ + 1]
    /\ UNCHANGED <<up, owner, pc, link, wired>>

\* "Disconnected", in listener_dbus_filter_function or in
\* listener_dbus_system_filter_function.  A connection without the filter
\* is not noticed.
HandleDisconnected(p, b) ==
    /\ pc[p] = "running"
    /\ link[p][b] = "closed"
    /\ b \in wired[p]
    /\ link' = [link EXCEPT ![p][b] = "none"]
    /\ wired' = [wired EXCEPT ![p] = @ \ {b}]
    /\ retries' = [retries EXCEPT ![p] = @ + 1]
    /\ UNCHANGED <<up, owner, pc>>

\* gs_listener_dbus_init: the session bus first; if it fails the system bus is
\* not tried.
Reached(p) ==
    LET session == link[p]["session"] # "none" \/ "session" \in up
    IN  [ b \in Bus |->
            IF link[p][b] = "none" /\ b \in up /\ (b = "session" \/ session)
            THEN "open" ELSE link[p][b] ]

\* Bug: one bus is enough.
DoneWithOne(l) == \E b \in Bus : l[b] # "none"

\* What gs_listener_dbus_init returns.
Done(l) == \A b \in Bus : l[b] # "none"

\* reinit_dbus, after each 10 s.
ReinitTimeout(p) ==
    /\ pc[p] = "running"
    /\ retries[p] > 0
    /\ link' = [link EXCEPT ![p] = Reached(p)]
    /\ retries' = [retries EXCEPT ![p] = @ - (IF Done(Reached(p)) THEN 1 ELSE 0)]
    /\ UNCHANGED <<up, owner, pc, wired>>

-----------------------------------------------------------------------------
(***************************************************************************)
(* The others.                                                             *)
(***************************************************************************)

\* A light-locker that runs is killed.
Killed(p) ==
    /\ pc[p] = "running"
    /\ Exit(p)

RivalTakes(r, n) ==
    /\ "session" \in up
    /\ owner[n] = NoOne
    /\ owner' = [owner EXCEPT ![n] = r]
    /\ UNCHANGED <<up, pc, link, wired, retries>>

RivalLeaves(r) ==
    /\ owner' = Released(r)
    /\ UNCHANGED <<up, pc, link, wired, retries>>

\* A bus dies, and with it what it knows.
BusDies(b) ==
    /\ b \in up
    /\ up' = up \ {b}
    /\ owner' = IF b = "session" THEN [n \in Names |-> NoOne] ELSE owner
    /\ link' = [p \in Lockers |->
                  [link[p] EXCEPT ![b] = IF @ = "open" THEN "closed" ELSE @]]
    /\ UNCHANGED <<pc, wired, retries>>

BusReturns(b) ==
    /\ b \notin up
    /\ up' = up \cup {b}
    /\ UNCHANGED <<owner, pc, link, wired, retries>>

-----------------------------------------------------------------------------

Acquire(p) == Check(p) \/ CheckGNOME(p) \/ Request(p) \/ RequestGNOME(p)

Next ==
    \/ \E p \in Lockers : Launch(p) \/ Acquire(p) \/ ReinitTimeout(p) \/ Killed(p)
    \/ \E p \in Lockers, b \in Bus : HandleDisconnected(p, b)
    \/ \E r \in Rivals : RivalLeaves(r) \/ \E n \in Names : RivalTakes(r, n)
    \/ \E b \in Bus : BusDies(b) \/ BusReturns(b)

Spec == Init /\ [][Next]_vars

\* A process runs, and its main loop dispatches timeouts and messages.
\* Nothing is assumed of the buses or of the other programs.
Fairness ==
    \A p \in Lockers :
        /\ WF_vars(Acquire(p))
        /\ WF_vars(ReinitTimeout(p))
        /\ \A b \in Bus : WF_vars(HandleDisconnected(p, b))

FairSpec == Spec /\ Fairness

-----------------------------------------------------------------------------
(***************************************************************************)
(* Properties.                                                             *)
(***************************************************************************)

\* The variables keep their types.  No more than one retry per bus is ever
\* pending, because a connection is noticed to be lost once.
TypeOK ==
    /\ up \subseteq Bus
    /\ owner \in [Names -> Lockers \cup Rivals \cup {NoOne}]
    /\ pc \in [Lockers -> Acquiring \cup {"running", "exited"}]
    /\ link \in [Lockers -> [Bus -> Links]]
    /\ wired \in [Lockers -> SUBSET Bus]
    /\ retries \in [Lockers -> 0 .. 2]

\* It runs and is reached through the connection it registered on.
Serving(p) ==
    /\ pc[p] = "running"
    /\ "session" \in wired[p]
    /\ link[p]["session"] = "open"

\* "screensaver already running in this session" (gs-listener-dbus.c:1780,
\* 1829): of light-lockers that start at one time, whatever they saw when they
\* checked and although a failed first request is passed over, one serves.
OneScreenSaver ==
    \A p, q \in Lockers : Serving(p) /\ Serving(q) => p = q

\* While a bus is known to be lost a timeout goes on to retry, although both
\* filters start one, each ends by itself, and the session bus going first may
\* keep the system bus from being tried (gs-listener-dbus.c:1433-1482).
RetryUntilBack ==
    \A p \in Lockers, b \in Bus :
        pc[p] = "running" /\ link[p][b] = "none" => retries[p] > 0

\* "Got disconnected ...; retrying to reconnect every 10 seconds"
\* (gs-listener-dbus.c:1497): it comes back once both buses are there.
Reconnects ==
    \A p \in Lockers, b \in Bus :
        <>[](up = Bus) => [](pc[p] = "running" /\ link[p][b] = "none"
                                => <>(link[p][b] # "none" \/ pc[p] # "running"))

\* A light-locker that got the first name and not the second does not keep the
\* first from others (gs-listener-dbus.c:1843).  The second name alone is another
\* matter: an error of the first request leaves it so for good.
FirstAlone(p) == owner["freedesktop"] = p /\ owner["GNOME"] # p

FirstNameGivenBack == \A p \in Lockers : FirstAlone(p) ~> ~FirstAlone(p)

\* "retrying to reconnect every 10 seconds": a light-locker that is connected
\* again listens to what comes over the connection.
ReconnectedListens ==
    \A p \in Lockers, b \in Bus :
        pc[p] = "running" /\ link[p][b] = "open" => b \in wired[p]

=============================================================================
