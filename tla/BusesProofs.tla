----------------------------- MODULE BusesProofs -----------------------------
(***************************************************************************)
(* Theorems about Buses, for any number of light-lockers and rivals.       *)
(***************************************************************************)
EXTENDS Buses, TLAPS

\* TypeOK without its bound on the retries, which is not inductive.
Types ==
    /\ up \subseteq Bus
    /\ owner \in [Names -> Lockers \cup Rivals \cup {NoOne}]
    /\ pc \in [Lockers -> Acquiring \cup {"running", "exited"}]
    /\ link \in [Lockers -> [Bus -> Links]]
    /\ wired \in [Lockers -> SUBSET Bus]
    /\ retries \in [Lockers -> Nat]

\* The buses process p has lost the filter of.
Unwired(p) == IF wired[p] = Bus THEN 0 ELSE IF wired[p] = {} THEN 2 ELSE 1

\* Each retry stands for a bus whose filter is gone.
RetriesPaid(p) ==
    IF pc[p] = "running" THEN retries[p] <= Unwired(p)
                         ELSE retries[p] = 0 /\ wired[p] = {}

\* A process that tries to acquire the names has both connections.
Connected(p) == pc[p] \in Acquiring => \A b \in Bus : link[p][b] # "none"

\* What has a filter is a connection.
Filtered(p) == \A b \in wired[p] : link[p][b] # "none"

\* A process that runs and lost a connection retries.
Retrying(p) ==
    pc[p] = "running" => \A b \in Bus : link[p][b] = "none" => retries[p] > 0

\* The second name is the one that makes a process serve.
OwnsSecond(p) == Serving(p) => owner["GNOME"] = p

IInv ==
    /\ Types
    /\ \A p \in Lockers :
        /\ RetriesPaid(p) /\ Connected(p) /\ Filtered(p)
        /\ Retrying(p) /\ OwnsSecond(p)

LEMMA Starts == Init => IInv
  BY DEF Init, IInv, Types, RetriesPaid, Connected, Filtered, Retrying, OwnsSecond, Serving,
         Acquiring, Links, Bus

-----------------------------------------------------------------------------

\* Exit, whoever it was: the names of the others stay.
LEMMA ExitKeeps ==
  ASSUME IInv, NEW p \in Lockers, Exit(p)
  PROVE  IInv'
<1>1. Types'
  BY BusesAssumption DEF IInv, Types, Exit, Released, Acquiring, Links, Bus
<1>2. ASSUME NEW q \in Lockers
      PROVE  RetriesPaid(q)' /\ Connected(q)' /\ Filtered(q)' /\ Retrying(q)' /\ OwnsSecond(q)'
  <2>1. CASE q = p
    BY <2>1 DEF IInv, Types, Exit, RetriesPaid, Connected, Filtered, Retrying, OwnsSecond,
                Serving, Acquiring, Unwired
  <2>2. CASE q # p
    <3>1. /\ pc'[q] = pc[q] /\ link'[q] = link[q]
          /\ wired'[q] = wired[q] /\ retries'[q] = retries[q]
      BY <2>2 DEF IInv, Types, Exit
    <3>2. owner["GNOME"] = q => owner'["GNOME"] = q
      BY <2>2 DEF IInv, Types, Exit, Released, Names
    <3> QED
      BY <3>1, <3>2 DEF IInv, RetriesPaid, Connected, Filtered, Retrying, OwnsSecond, Serving, Unwired
  <2> QED
    BY <2>1, <2>2
<1> QED
  BY <1>1, <1>2 DEF IInv

\* A step of p on its way to the names, by which owner changes at most from
\* nobody or p to p.
LEMMA GoesKeeps ==
  ASSUME IInv, NEW p \in Lockers, pc[p] \in Acquiring,
         NEW to \in Acquiring, Goes(p, to),
         \/ UNCHANGED owner
         \/ owner' = [owner EXCEPT !["freedesktop"] = p]
  PROVE  IInv'
<1>1. Types'
  BY DEF IInv, Types, Goes, Names
<1>2. owner'["GNOME"] = owner["GNOME"]
  BY DEF IInv, Types, Names
<1>3. ASSUME NEW q \in Lockers
      PROVE  RetriesPaid(q)' /\ Connected(q)' /\ Filtered(q)' /\ Retrying(q)' /\ OwnsSecond(q)'
  <2>1. pc'[q] = IF q = p THEN to ELSE pc[q]
    BY DEF IInv, Types, Goes
  <2>2. UNCHANGED <<link, wired, retries>>
    BY DEF Goes
  <2> QED
    BY <1>2, <2>1, <2>2
       DEF IInv, RetriesPaid, Connected, Filtered, Retrying, OwnsSecond, Serving, Unwired, Acquiring
<1> QED
  BY <1>1, <1>3 DEF IInv

LEMMA AcquireKeeps ==
  ASSUME IInv, NEW p \in Lockers, Acquire(p)
  PROVE  IInv'
<1>1. CASE Check(p)
  BY <1>1, ExitKeeps, GoesKeeps DEF Check, Acquiring
<1>2. CASE CheckGNOME(p)
  BY <1>2, ExitKeeps, GoesKeeps DEF CheckGNOME, Acquiring
<1>3. CASE Request(p)
  BY <1>3, ExitKeeps, GoesKeeps DEF Request, Acquiring
<1>4. CASE RequestGNOME(p)
  <2>1. CASE Exit(p)
    BY <2>1, ExitKeeps
  <2>2. CASE /\ Grants(p, "GNOME")
             /\ owner' = [owner EXCEPT !["GNOME"] = p]
             /\ pc' = [pc EXCEPT ![p] = "running"]
             /\ wired' = [wired EXCEPT ![p] = Bus]
             /\ UNCHANGED <<up, link, retries>>
    <3>1. Types'
      BY <2>2 DEF IInv, Types, Names
    <3>2. pc[p] = "requestGNOME"
      BY <1>4 DEF RequestGNOME
    <3>3. RetriesPaid(p)' /\ Connected(p)' /\ Filtered(p)' /\ Retrying(p)' /\ OwnsSecond(p)'
      BY <2>2, <3>2 DEF IInv, Types, RetriesPaid, Connected, Filtered, Retrying, OwnsSecond,
                        Unwired, Acquiring, Names
    <3>4. ASSUME NEW q \in Lockers, q # p
          PROVE  RetriesPaid(q)' /\ Connected(q)' /\ Filtered(q)' /\ Retrying(q)' /\ OwnsSecond(q)'
      <4>1. /\ pc'[q] = pc[q] /\ link'[q] = link[q]
            /\ wired'[q] = wired[q] /\ retries'[q] = retries[q]
        BY <2>2, <3>4 DEF IInv, Types
      <4>2. owner["GNOME"] # q
        BY <2>2, <3>4, BusesAssumption DEF Grants
      <4> QED
        BY <4>1, <4>2 DEF IInv, RetriesPaid, Connected, Filtered, Retrying, OwnsSecond, Serving, Unwired
    <3> QED
      BY <3>1, <3>3, <3>4 DEF IInv
  <2> QED
    BY <1>4, <2>1, <2>2 DEF RequestGNOME
<1> QED
  BY <1>1, <1>2, <1>3, <1>4 DEF Acquire

LEMMA LaunchKeeps ==
  ASSUME IInv, NEW p \in Lockers, Launch(p)
  PROVE  IInv'
<1>1. Types'
  BY DEF IInv, Types, Launch, Acquiring, Links
<1>2. ASSUME NEW q \in Lockers
      PROVE  RetriesPaid(q)' /\ Connected(q)' /\ Filtered(q)' /\ Retrying(q)' /\ OwnsSecond(q)'
  <2>1. CASE q = p
    BY <2>1 DEF IInv, Types, Launch, RetriesPaid, Connected, Filtered, Retrying, OwnsSecond,
                Serving, Unwired, Acquiring
  <2>2. CASE q # p
    <3>1. pc'[q] = pc[q] /\ link'[q] = link[q] /\ UNCHANGED <<owner, wired, retries>>
      BY <2>2 DEF IInv, Types, Launch
    <3> QED
      BY <3>1 DEF IInv, RetriesPaid, Connected, Filtered, Retrying, OwnsSecond, Serving, Unwired
  <2> QED
    BY <2>1, <2>2
<1> QED
  BY <1>1, <1>2 DEF IInv

\* The filter that is lost pays for the retry it starts.
LEMMA HandleDisconnectedKeeps ==
  ASSUME IInv, NEW p \in Lockers, NEW b \in Bus, HandleDisconnected(p, b)
  PROVE  IInv'
<1>1. Types'
  BY DEF IInv, Types, HandleDisconnected, Links
<1>2. RetriesPaid(p)'
  BY DEF IInv, Types, HandleDisconnected, RetriesPaid, Unwired, Bus
<1>3. Connected(p)' /\ Filtered(p)' /\ Retrying(p)'
  BY DEF IInv, Types, HandleDisconnected, Connected, Filtered, Retrying, Acquiring
<1>4. OwnsSecond(p)'
  BY DEF IInv, Types, HandleDisconnected, OwnsSecond, Serving, Bus
<1>5. ASSUME NEW q \in Lockers, q # p
      PROVE  RetriesPaid(q)' /\ Connected(q)' /\ Filtered(q)' /\ Retrying(q)' /\ OwnsSecond(q)'
  <2>1. /\ pc'[q] = pc[q] /\ link'[q] = link[q] /\ owner' = owner
        /\ wired'[q] = wired[q] /\ retries'[q] = retries[q]
    BY <1>5 DEF IInv, Types, HandleDisconnected
  <2> QED
    BY <2>1 DEF IInv, RetriesPaid, Connected, Filtered, Retrying, OwnsSecond, Serving, Unwired
<1> QED
  BY <1>1, <1>2, <1>3, <1>4, <1>5 DEF IInv

\* A connection that is made anew has no filter, and a retry ends only when
\* both are there.
LEMMA ReinitKeeps ==
  ASSUME IInv, NEW p \in Lockers, ReinitTimeout(p)
  PROVE  IInv'
<1>1. Reached(p) \in [Bus -> Links]
  BY DEF IInv, Types, Reached, Links
<1>2. Types'
  BY <1>1 DEF IInv, Types, ReinitTimeout
<1>3. link'[p] = Reached(p) /\ retries'[p] \in {retries[p], retries[p] - 1}
  BY DEF IInv, Types, ReinitTimeout
<1>4. RetriesPaid(p)'
  <2>1. Unwired(p)' = Unwired(p) /\ pc'[p] = "running" /\ pc[p] = "running"
    BY DEF ReinitTimeout, Unwired
  <2>2. retries[p] \in Nat /\ Unwired(p) \in Nat /\ retries[p] <= Unwired(p)
    BY <2>1 DEF IInv, Types, RetriesPaid, Unwired
  <2> QED
    BY <1>3, <2>1, <2>2 DEF RetriesPaid
<1>5. Connected(p)' /\ Filtered(p)'
  <2>1. \A b \in Bus : link[p][b] # "none" => link'[p][b] = link[p][b]
    BY <1>3 DEF Reached
  <2> QED
    BY <2>1 DEF ReinitTimeout, Connected, Filtered, Acquiring, IInv, Types
<1>6. Retrying(p)'
  <2>1. CASE Done(Reached(p))
    BY <1>3, <2>1 DEF Done, Retrying
  <2>2. CASE ~Done(Reached(p))
    BY <1>3, <2>2 DEF ReinitTimeout, Retrying, IInv, Types
  <2> QED
    BY <2>1, <2>2
<1>7. OwnsSecond(p)'
  \* The connection either was open before or has no filter.
  <2>1. CASE "session" \in wired[p]
    <3>1. link[p]["session"] # "none" => link'[p]["session"] = link[p]["session"]
      BY <1>3 DEF Reached, Bus
    <3>2. wired' = wired /\ pc' = pc /\ owner' = owner
      BY DEF ReinitTimeout
    <3>3. link[p]["session"] # "none"
      BY <2>1 DEF IInv, Filtered
    <3> QED
      BY <3>1, <3>2, <3>3 DEF IInv, OwnsSecond, Serving
  <2>2. CASE "session" \notin wired[p]
    BY <2>2 DEF ReinitTimeout, OwnsSecond, Serving
  <2> QED
    BY <2>1, <2>2
<1>8. ASSUME NEW q \in Lockers, q # p
      PROVE  RetriesPaid(q)' /\ Connected(q)' /\ Filtered(q)' /\ Retrying(q)' /\ OwnsSecond(q)'
  <2>1. /\ pc'[q] = pc[q] /\ link'[q] = link[q] /\ owner' = owner
        /\ wired'[q] = wired[q] /\ retries'[q] = retries[q]
    BY <1>8 DEF IInv, Types, ReinitTimeout
  <2> QED
    BY <2>1 DEF IInv, RetriesPaid, Connected, Filtered, Retrying, OwnsSecond, Serving, Unwired
<1> QED
  BY <1>2, <1>4, <1>5, <1>6, <1>7, <1>8 DEF IInv

\* A bus that dies takes its names along, and closes what was open.
LEMMA BusDiesKeeps ==
  ASSUME IInv, NEW b \in Bus, BusDies(b)
  PROVE  IInv'
<1>1. Types'
  BY BusesAssumption DEF IInv, Types, BusDies, Links
<1>2. ASSUME NEW p \in Lockers
      PROVE  RetriesPaid(p)' /\ Connected(p)' /\ Filtered(p)' /\ Retrying(p)' /\ OwnsSecond(p)'
  <2>1. /\ UNCHANGED <<pc, wired, retries>>
        /\ \A c \in Bus : (link'[p][c] = "none") <=> (link[p][c] = "none")
    BY DEF IInv, Types, BusDies
  <2>2. RetriesPaid(p)' /\ Connected(p)' /\ Filtered(p)' /\ Retrying(p)'
    BY <2>1 DEF IInv, Types, RetriesPaid, Connected, Filtered, Retrying, Unwired
  <2>3. OwnsSecond(p)'
    <3>1. CASE b = "session"
      BY <3>1 DEF BusDies, IInv, Types, OwnsSecond, Serving
    <3>2. CASE b # "session"
      BY <3>2 DEF BusDies, IInv, Types, OwnsSecond, Serving, Bus
    <3> QED
      BY <3>1, <3>2
  <2> QED
    BY <2>2, <2>3
<1> QED
  BY <1>1, <1>2 DEF IInv

\* Only names nobody has change hands.
LEMMA RivalKeeps ==
  ASSUME IInv, NEW r \in Rivals,
         RivalLeaves(r) \/ \E n \in Names : RivalTakes(r, n)
  PROVE  IInv'
<1>1. UNCHANGED <<up, pc, link, wired, retries>>
  BY DEF RivalLeaves, RivalTakes
<1>2. Types'
  BY <1>1 DEF IInv, Types, RivalLeaves, RivalTakes, Released
<1>3. ASSUME NEW p \in Lockers
      PROVE  RetriesPaid(p)' /\ Connected(p)' /\ Filtered(p)' /\ Retrying(p)' /\ OwnsSecond(p)'
  <2>1. owner["GNOME"] = p => owner'["GNOME"] = p
    BY BusesAssumption DEF IInv, Types, RivalLeaves, RivalTakes, Released, Names
  <2> QED
    BY <1>1, <2>1 DEF IInv, RetriesPaid, Connected, Filtered, Retrying, OwnsSecond, Serving, Unwired
<1> QED
  BY <1>2, <1>3 DEF IInv

LEMMA BusReturnsKeeps ==
  ASSUME IInv, NEW b \in Bus, BusReturns(b)
  PROVE  IInv'
  BY DEF IInv, Types, BusReturns, RetriesPaid, Connected, Filtered, Retrying, OwnsSecond,
         Serving, Unwired

LEMMA StutterKeeps ==
  ASSUME IInv, UNCHANGED vars
  PROVE  IInv'
  BY DEF IInv, Types, vars, RetriesPaid, Connected, Filtered, Retrying, OwnsSecond,
         Serving, Unwired

LEMMA NextSound == IInv /\ [Next]_vars => IInv'
<1> SUFFICES ASSUME IInv, [Next]_vars
             PROVE  IInv'
  OBVIOUS
<1>1. CASE \E p \in Lockers : Launch(p) \/ Acquire(p) \/ ReinitTimeout(p) \/ Killed(p)
  BY <1>1, LaunchKeeps, AcquireKeeps, ReinitKeeps, ExitKeeps DEF Killed
<1>2. CASE \E p \in Lockers, b \in Bus : HandleDisconnected(p, b)
  BY <1>2, HandleDisconnectedKeeps
<1>3. CASE \E r \in Rivals : RivalLeaves(r) \/ \E n \in Names : RivalTakes(r, n)
  BY <1>3, RivalKeeps
<1>4. CASE \E b \in Bus : BusDies(b) \/ BusReturns(b)
  BY <1>4, BusDiesKeeps, BusReturnsKeeps
<1>5. CASE UNCHANGED vars
  BY <1>5, StutterKeeps
<1> QED
  BY <1>1, <1>2, <1>3, <1>4, <1>5 DEF Next

LEMMA AlwaysSound == Spec => []IInv
  BY Starts, NextSound, PTL DEF Spec

-----------------------------------------------------------------------------

\* The variables keep their types; in particular never more than two
\* timeouts retry (gs-listener-dbus.c:1503, 1535).
THEOREM TypeCorrect == Spec => []TypeOK
<1>1. IInv => TypeOK
  BY DEF IInv, Types, TypeOK, RetriesPaid, Unwired
<1> QED
  BY <1>1, AlwaysSound, PTL

\* However many light-lockers start, in whatever order, at most one serves
\* the session (gs-listener-dbus.c:1746).
THEOREM AtMostOneServes == Spec => []OneScreenSaver
<1>1. IInv => OneScreenSaver
  BY DEF IInv, OwnsSecond, OneScreenSaver
<1> QED
  BY <1>1, AlwaysSound, PTL

\* A light-locker that knows it lost a bus goes on retrying
\* (gs-listener-dbus.c:1466).
THEOREM RetriesAreKept == Spec => []RetryUntilBack
<1>1. IInv => RetryUntilBack
  BY DEF IInv, Retrying, RetryUntilBack
<1> QED
  BY <1>1, AlwaysSound, PTL

-----------------------------------------------------------------------------
(***************************************************************************)
(* Why FirstNameGivenBack and Reconnects come about.                       *)
(***************************************************************************)

\* A process owns a name only where it has asked for it and not yet left, and one
\* that runs with the first name has the second too.  It may run with the second
\* alone.
NamesOf(p) ==
    /\ owner["freedesktop"] = p => pc[p] \in {"requestGNOME", "running"}
    /\ owner["GNOME"] = p => pc[p] = "running"
    /\ pc[p] = "running" /\ owner["freedesktop"] = p => owner["GNOME"] = p

AllNames == \A p \in Lockers : NamesOf(p)

\* A step that leaves q where it was and gives it no name may take its first.
LEMMA NamesKept ==
  ASSUME NEW q \in Lockers, NamesOf(q), pc'[q] = pc[q],
         owner'["freedesktop"] = q => owner["freedesktop"] = q,
         owner'["GNOME"] = q <=> owner["GNOME"] = q
  PROVE  NamesOf(q)'
  BY DEF NamesOf

LEMMA NamesAfterExit ==
  ASSUME IInv, AllNames, NEW p \in Lockers, Exit(p)
  PROVE  AllNames'
<1> SUFFICES ASSUME NEW q \in Lockers PROVE NamesOf(q)'
  BY DEF AllNames
<1>1. /\ owner' = Released(p)
      /\ pc' = [pc EXCEPT ![p] = "exited"]
      /\ "freedesktop" \in Names /\ "GNOME" \in Names /\ p # NoOne
  BY BusesAssumption DEF Exit, Names
<1>2. CASE q = p
  BY <1>1, <1>2 DEF IInv, Types, Released, NamesOf
<1>3. CASE q # p
  <2>1. pc'[q] = pc[q] /\ q # NoOne
    BY <1>1, <1>3, BusesAssumption DEF IInv, Types
  <2>2. /\ owner'["freedesktop"] = q <=> owner["freedesktop"] = q
        /\ owner'["GNOME"] = q <=> owner["GNOME"] = q
    BY <1>1, <1>3, <2>1 DEF Released
  <2> QED
    BY <2>1, <2>2, NamesKept DEF AllNames
<1> QED
  BY <1>2, <1>3

LEMMA NamesAfterAcquire ==
  ASSUME IInv, AllNames, NEW p \in Lockers, Acquire(p)
  PROVE  AllNames'
<1> USE DEF Names
<1>0. /\ pc \in [Lockers -> Acquiring \cup {"running", "exited"}]
      /\ owner \in [Names -> Lockers \cup Rivals \cup {NoOne}]
      /\ p # NoOne /\ \A q \in Lockers : NamesOf(q)
  BY BusesAssumption DEF IInv, Types, AllNames
<1>1. CASE Exit(p)
  BY <1>1, NamesAfterExit
<1>2. ASSUME NEW to \in {"checkGNOME", "request"}, pc[p] \in {"check", "checkGNOME"},
             Goes(p, to), UNCHANGED owner
      PROVE  AllNames'
  BY <1>0, <1>2 DEF Goes, NamesOf, AllNames
<1>3. ASSUME pc[p] = "request", Goes(p, "requestGNOME"),
             \/ UNCHANGED owner
             \/ /\ owner["freedesktop"] \in {NoOne, p}
                /\ owner' = [owner EXCEPT !["freedesktop"] = p]
      PROVE  AllNames'
  <2>1. ASSUME NEW q \in Lockers
        PROVE  NamesOf(q)'
    BY <1>0, <1>3 DEF Goes, NamesOf
  <2> QED
    BY <2>1 DEF AllNames
<1>4. ASSUME pc[p] = "requestGNOME", owner["GNOME"] \in {NoOne, p},
             owner' = [owner EXCEPT !["GNOME"] = p], pc' = [pc EXCEPT ![p] = "running"]
      PROVE  AllNames'
  <2>1. ASSUME NEW q \in Lockers
        PROVE  NamesOf(q)'
    <3>1. /\ owner'["GNOME"] = p
          /\ owner'["freedesktop"] = owner["freedesktop"]
          /\ pc'[q] = IF q = p THEN "running" ELSE pc[q]
      BY <1>0, <1>4
    <3>2. NamesOf(q) /\ q # NoOne
      BY <1>0, BusesAssumption
    <3> QED
      BY <1>4, <3>1, <3>2 DEF NamesOf
  <2> QED
    BY <2>1 DEF AllNames
<1>5. CASE Check(p)
  BY <1>1, <1>2, <1>5 DEF Check
<1>6. CASE CheckGNOME(p)
  BY <1>1, <1>2, <1>6 DEF CheckGNOME
<1>7. CASE Request(p)
  BY <1>1, <1>3, <1>7 DEF Request, Grants
<1>8. CASE RequestGNOME(p)
  BY <1>1, <1>4, <1>8 DEF RequestGNOME, Grants
<1> QED
  BY <1>5, <1>6, <1>7, <1>8 DEF Acquire

LEMMA NamesSteps ==
  ASSUME IInv, AllNames, [Next]_vars
  PROVE  AllNames'
<1>0. /\ pc \in [Lockers -> Acquiring \cup {"running", "exited"}]
      /\ owner \in [Names -> Lockers \cup Rivals \cup {NoOne}]
      /\ \A q \in Lockers : NamesOf(q) /\ q # NoOne /\ q \notin Rivals
      /\ "freedesktop" \in Names /\ "GNOME" \in Names
  BY BusesAssumption DEF IInv, Types, AllNames, Names
<1>1. ASSUME NEW p \in Lockers, Launch(p)
      PROVE  AllNames'
  <2>1. ASSUME NEW q \in Lockers
        PROVE  NamesOf(q)'
    BY <1>0, <1>1 DEF Launch, NamesOf
  <2> QED
    BY <2>1 DEF AllNames
<1>2. ASSUME NEW p \in Lockers, Acquire(p) \/ Killed(p)
      PROVE  AllNames'
  BY <1>2, NamesAfterAcquire, NamesAfterExit DEF Killed
<1>3. CASE \E p \in Lockers : ReinitTimeout(p) \/ \E b \in Bus : HandleDisconnected(p, b)
  <2>1. UNCHANGED <<pc, owner>>
    BY <1>3 DEF ReinitTimeout, HandleDisconnected
  <2> QED
    BY <1>0, <2>1 DEF AllNames, NamesOf
<1>4. ASSUME NEW r \in Rivals, RivalLeaves(r) \/ \E n \in Names : RivalTakes(r, n)
      PROVE  AllNames'
  <2>1. UNCHANGED pc
        /\ \A q \in Lockers, n \in Names : owner'[n] = q <=> owner[n] = q
    BY <1>0, <1>4 DEF RivalLeaves, RivalTakes, Released
  <2> QED
    BY <1>0, <2>1 DEF AllNames, NamesOf
<1>5. ASSUME NEW b \in Bus, BusDies(b)
      PROVE  AllNames'
  <2>1. UNCHANGED pc /\ (UNCHANGED owner \/ \A n \in Names : owner'[n] = NoOne)
    BY <1>5 DEF BusDies
  <2> QED
    BY <1>0, <2>1 DEF AllNames, NamesOf
<1>6. CASE (\E b \in Bus : BusReturns(b)) \/ UNCHANGED vars
  BY <1>0, <1>6 DEF BusReturns, vars, AllNames, NamesOf
<1> QED
  BY <1>1, <1>2, <1>3, <1>4, <1>5, <1>6 DEF Next

\* A light-locker owns the first name without the second only until its second
\* request is answered: it goes on with both or gives the first one back
\* (gs-listener-dbus.c:1797-1843).
FirstOnlyBetween == \A p \in Lockers : FirstAlone(p) => pc[p] = "requestGNOME"

FirstEndsWithCall ==
    [][ \A p \in Lockers : Acquire(p) => pc[p] = "request" \/ ~FirstAlone(p)' ]_vars

\* For any number of light-lockers: the first name alone is never the end of it.
THEOREM FirstAloneMovesOn == Spec => []FirstOnlyBetween /\ FirstEndsWithCall
<1>1. Init => AllNames
  BY BusesAssumption DEF Init, AllNames, NamesOf, Names
<1>2. IInv /\ AllNames /\ [Next]_vars => AllNames'
  BY NamesSteps
<1>3. AllNames => FirstOnlyBetween
  BY DEF AllNames, NamesOf, FirstOnlyBetween, FirstAlone
<1>4. ASSUME IInv, AllNames, AllNames', NEW p \in Lockers, Acquire(p), pc[p] # "request"
      PROVE  ~FirstAlone(p)'
  <2>1. pc'[p] # "requestGNOME"
    BY <1>4 DEF IInv, Types, Acquire, Check, CheckGNOME, Request, RequestGNOME, Exit, Goes
  <2> QED
    BY <1>4, <2>1 DEF AllNames, NamesOf, FirstAlone
<1>5. IInv /\ AllNames /\ AllNames' /\ [Next]_vars =>
        [\A p \in Lockers : Acquire(p) => pc[p] = "request" \/ ~FirstAlone(p)']_vars
  BY <1>4
<1> QED
  BY <1>1, <1>2, <1>3, <1>5, AlwaysSound, PTL DEF Spec, FirstEndsWithCall

\* The other half: the second name without the first.
SecondAlone(p) == owner["GNOME"] = p /\ owner["freedesktop"] # p

\* A light-locker comes to the second name alone by its own second request, made
\* without having the first, and only a process that runs has it
\* (gs-listener-dbus.c:1816, 1834).
SecondOnlyRuns == \A p \in Lockers : SecondAlone(p) => pc[p] = "running"

SecondWithoutFirst ==
    [][ \A p \in Lockers : ~SecondAlone(p) /\ SecondAlone(p)' =>
            RequestGNOME(p) /\ owner["freedesktop"] # p ]_vars

\* Nothing but going on to the second request without the first name leads to
\* it: no rival and no bus that dies takes the first away and leaves the second.
THEOREM SecondAloneByRequest == Spec => []SecondOnlyRuns /\ SecondWithoutFirst
<1>1. Init => AllNames
  BY BusesAssumption DEF Init, AllNames, NamesOf, Names
<1>2. IInv /\ AllNames /\ [Next]_vars => AllNames'
  BY NamesSteps
<1>3. AllNames => SecondOnlyRuns
  BY DEF AllNames, NamesOf, SecondOnlyRuns, SecondAlone
<1>4. ASSUME IInv, AllNames, Next, NEW p \in Lockers, ~SecondAlone(p), SecondAlone(p)'
      PROVE  RequestGNOME(p) /\ owner["freedesktop"] # p
  <2>0. /\ owner \in [Names -> Lockers \cup Rivals \cup {NoOne}]
        /\ p # NoOne /\ p \notin Rivals
        /\ "freedesktop" \in Names /\ "GNOME" \in Names
        /\ owner'["GNOME"] = p /\ owner'["freedesktop"] # p
    BY <1>4, BusesAssumption DEF IInv, Types, Names, SecondAlone
  <2>1. ASSUME NEW q \in Lockers \cup Rivals, owner' = Released(q)
        PROVE  FALSE
    BY <1>4, <2>0, <2>1 DEF Released, SecondAlone
  <2>2. owner' # owner
    BY <1>4, <2>0 DEF SecondAlone
  <2>3. ASSUME NEW q \in Lockers, Acquire(q)
        PROVE  RequestGNOME(p) /\ owner["freedesktop"] # p
    <3>1. ~Exit(q)
      BY <2>1 DEF Exit
    <3>2. CASE Check(q) \/ CheckGNOME(q)
      BY <2>2, <3>1, <3>2 DEF Check, CheckGNOME
    <3>3. CASE Request(q)
      <4>1. /\ owner' = [owner EXCEPT !["freedesktop"] = q]
            /\ owner["freedesktop"] \in {NoOne, q}
        BY <2>2, <3>1, <3>3 DEF Request, Grants
      <4> QED
        BY <1>4, <2>0, <4>1 DEF SecondAlone
    <3>4. CASE RequestGNOME(q)
      <4>1. owner' = [owner EXCEPT !["GNOME"] = q]
        BY <3>1, <3>4 DEF RequestGNOME
      <4> QED
        BY <1>4, <2>0, <3>4, <4>1 DEF SecondAlone
    <3> QED
      BY <2>3, <3>2, <3>3, <3>4 DEF Acquire
  <2>4. ASSUME NEW q \in Lockers,
               Launch(q) \/ ReinitTimeout(q) \/ \E b \in Bus : HandleDisconnected(q, b)
        PROVE  FALSE
    BY <2>2, <2>4 DEF Launch, ReinitTimeout, HandleDisconnected
  <2>5. ASSUME NEW q \in Lockers, Killed(q)
        PROVE  FALSE
    BY <2>1, <2>5 DEF Killed, Exit
  <2>6. ASSUME NEW r \in Rivals, RivalLeaves(r) \/ \E n \in Names : RivalTakes(r, n)
        PROVE  FALSE
    <3>1. CASE RivalLeaves(r)
      BY <2>1, <3>1 DEF RivalLeaves
    <3>2. ASSUME NEW n \in Names, RivalTakes(r, n)
          PROVE  FALSE
      BY <1>4, <2>0, <3>2 DEF RivalTakes, SecondAlone
    <3> QED
      BY <2>6, <3>1, <3>2
  <2>7. ASSUME NEW b \in Bus, BusDies(b) \/ BusReturns(b)
        PROVE  FALSE
    BY <2>0, <2>2, <2>7 DEF BusDies, BusReturns
  <2> QED
    BY <1>4, <2>3, <2>4, <2>5, <2>6, <2>7 DEF Next
<1>5. IInv /\ AllNames /\ [Next]_vars =>
        [\A p \in Lockers : ~SecondAlone(p) /\ SecondAlone(p)' =>
            RequestGNOME(p) /\ owner["freedesktop"] # p]_vars
  BY <1>4
<1> QED
  BY <1>1, <1>2, <1>3, <1>5, AlwaysSound, PTL DEF Spec, SecondWithoutFirst

\* Where the bus answers without errors, a light-locker at its second request has
\* the first name, or lost the connection it would need for the second.
FirstGranted(p) ==
    pc[p] = "requestGNOME" /\ link[p]["session"] = "open" => owner["freedesktop"] = p

AllGranted == \A p \in Lockers : FirstGranted(p)

LEMMA GrantedSteps ==
  ASSUME CallsFail = FALSE, IInv, AllGranted, [Next]_vars
  PROVE  AllGranted'
<1> SUFFICES ASSUME NEW p \in Lockers,
                    pc'[p] = "requestGNOME", link'[p]["session"] = "open"
             PROVE  owner'["freedesktop"] = p
  BY DEF AllGranted, FirstGranted
<1>0. /\ pc \in [Lockers -> Acquiring \cup {"running", "exited"}]
      /\ owner \in [Names -> Lockers \cup Rivals \cup {NoOne}]
      /\ link \in [Lockers -> [Bus -> Links]]
      /\ p # NoOne /\ p \notin Rivals /\ FirstGranted(p)
      /\ "freedesktop" \in Names /\ "GNOME" \in Names /\ "session" \in Bus
  BY BusesAssumption DEF IInv, Types, Names, Bus, AllGranted
<1>1. ASSUME pc'[p] = pc[p], link'[p]["session"] = link[p]["session"],
             owner["freedesktop"] = p => owner'["freedesktop"] = p
      PROVE  owner'["freedesktop"] = p
  BY <1>0, <1>1 DEF FirstGranted
<1>2. ASSUME NEW q \in Lockers, Exit(q)
      PROVE  owner'["freedesktop"] = p
  <2>1. q # p
    BY <1>0, <1>2 DEF Exit
  <2> QED
    BY <1>0, <1>1, <1>2, <2>1 DEF Exit, Released
<1>3. ASSUME NEW q \in Lockers, Acquire(q), ~Exit(q)
      PROVE  owner'["freedesktop"] = p
  <2>1. CASE Check(q) \/ CheckGNOME(q)
    BY <1>0, <1>1, <1>3, <2>1 DEF Check, CheckGNOME, Goes
  <2>2. CASE Request(q)
    <3>1. UNCHANGED link /\ pc' = [pc EXCEPT ![q] = "requestGNOME"]
      BY <1>3, <2>2 DEF Request, Goes
    <3>2. CASE q = p
      <4>1. link[p]["session"] = "open"
        BY <3>1
      <4> QED
        BY <1>0, <1>3, <2>2, <3>2, <4>1 DEF Request, Errs
    <3>3. CASE q # p
      <4>1. owner["freedesktop"] = p => owner'["freedesktop"] = p
        BY <1>0, <1>3, <2>2, <3>3 DEF Request, Grants
      <4> QED
        BY <1>0, <1>1, <3>1, <3>3, <4>1
    <3> QED
      BY <3>2, <3>3
  <2>3. CASE RequestGNOME(q)
    <3>1. /\ owner' = [owner EXCEPT !["GNOME"] = q]
          /\ pc' = [pc EXCEPT ![q] = "running"]
          /\ UNCHANGED link
      BY <1>3, <2>3 DEF RequestGNOME
    <3> QED
      BY <1>0, <1>1, <3>1
  <2> QED
    BY <1>3, <2>1, <2>2, <2>3 DEF Acquire
<1>4. ASSUME NEW q \in Lockers, Launch(q) \/ ReinitTimeout(q) \/ \E b \in Bus : HandleDisconnected(q, b)
      PROVE  owner'["freedesktop"] = p
  <2>1. q # p /\ UNCHANGED owner
    BY <1>0, <1>4 DEF Launch, ReinitTimeout, HandleDisconnected
  <2> QED
    BY <1>0, <1>1, <1>4, <2>1 DEF Launch, ReinitTimeout, HandleDisconnected
<1>5. ASSUME NEW r \in Rivals, RivalLeaves(r) \/ \E n \in Names : RivalTakes(r, n)
      PROVE  owner'["freedesktop"] = p
  BY <1>0, <1>1, <1>5 DEF RivalLeaves, RivalTakes, Released
<1>6. ASSUME NEW b \in Bus, BusDies(b)
      PROVE  owner'["freedesktop"] = p
  <2>1. b # "session"
    BY <1>0, <1>6 DEF BusDies
  <2> QED
    BY <1>0, <1>1, <1>6, <2>1 DEF BusDies
<1>7. CASE (\E b \in Bus : BusReturns(b)) \/ UNCHANGED vars
  BY <1>1, <1>7 DEF BusReturns, vars
<1> QED
  BY <1>2, <1>3, <1>4, <1>5, <1>6, <1>7 DEF Next, Killed

\* Whatever other programs do and however often the buses die, a light-locker
\* that runs has both names or, after its session bus was lost, none.
BothNamesOrNone ==
    \A p \in Lockers : pc[p] = "running" =>
        (owner["freedesktop"] = p <=> owner["GNOME"] = p)

\* Only an error that the first request passes over (gs-listener-dbus.c:1816)
\* splits the names of a light-locker that runs.
THEOREM OnlyErrorsSplitNames ==
  ASSUME CallsFail = FALSE
  PROVE  Spec => []BothNamesOrNone
<1> DEFINE NoneSecond == \A p \in Lockers : ~SecondAlone(p)
<1>1. Init => AllNames /\ AllGranted /\ NoneSecond
  BY BusesAssumption DEF Init, AllNames, NamesOf, AllGranted, FirstGranted, SecondAlone, Names
<1>2. IInv /\ AllNames /\ [Next]_vars => AllNames'
  BY NamesSteps
<1>3. IInv /\ AllGranted /\ [Next]_vars => AllGranted'
  BY GrantedSteps
<1>4. ASSUME AllGranted, NoneSecond,
             [\A p \in Lockers : ~SecondAlone(p) /\ SecondAlone(p)' =>
                 RequestGNOME(p) /\ owner["freedesktop"] # p]_vars
      PROVE  NoneSecond'
  <2> SUFFICES ASSUME NEW p \in Lockers, SecondAlone(p)'
               PROVE  FALSE
    OBVIOUS
  <2>1. ~SecondAlone(p)
    BY <1>4
  <2>2. RequestGNOME(p) /\ owner["freedesktop"] # p
    BY <1>4, <2>1 DEF vars, SecondAlone
  <2>3. Grants(p, "GNOME")
    <3>1. ~Exit(p)
      BY BusesAssumption DEF Exit, Released, SecondAlone, Names
    <3> QED
      BY <2>2, <3>1 DEF RequestGNOME
  <2> QED
    BY <1>4, <2>2, <2>3 DEF RequestGNOME, Grants, AllGranted, FirstGranted
<1>5. AllNames /\ NoneSecond => BothNamesOrNone
  BY DEF AllNames, NamesOf, SecondAlone, BothNamesOrNone
<1> HIDE DEF NoneSecond
<1> QED
  BY <1>1, <1>2, <1>3, <1>4, <1>5, AlwaysSound, SecondAloneByRequest, PTL
  DEF Spec, SecondWithoutFirst

\* With both buses there, the next of the timeouts that RetryUntilBack keeps
\* pending connects to whatever was known to be lost, and is the last one that
\* is needed (gs-listener-dbus.c:1466-1482).
ConnectsAgain ==
    [][ \A p \in Lockers : ReinitTimeout(p) /\ up = Bus =>
            /\ \A b \in Bus : link'[p][b] # "none"
            /\ retries'[p] = retries[p] - 1 ]_vars

\* One timeout with both buses there is enough for both connections.
THEOREM OneTimeoutConnects == Spec => ConnectsAgain
<1>1. ASSUME IInv, NEW p \in Lockers, ReinitTimeout(p), up = Bus
      PROVE  /\ \A b \in Bus : link'[p][b] # "none"
             /\ retries'[p] = retries[p] - 1
  <2>1. \A b \in Bus : Reached(p)[b] # "none"
    BY <1>1 DEF IInv, Types, Reached, Bus
  <2>2. Done(Reached(p))
    BY <2>1 DEF Done
  <2> QED
    BY <1>1, <2>1, <2>2 DEF IInv, Types, ReinitTimeout
<1>2. IInv /\ [Next]_vars =>
        [\A p \in Lockers : ReinitTimeout(p) /\ up = Bus =>
            /\ \A b \in Bus : link'[p][b] # "none"
            /\ retries'[p] = retries[p] - 1]_vars
  BY <1>1
<1> QED
  BY <1>2, AlwaysSound, PTL DEF Spec, ConnectsAgain

=============================================================================
