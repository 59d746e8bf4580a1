----------------------------- MODULE Inhibitors -----------------------------
(***************************************************************************)
(* Inhibit and UnInhibit on org.freedesktop.ScreenSaver: the inhibit_list  *)
(* of GSListener (gs-listener-dbus.c), the count the X server keeps of     *)
(* XScreenSaverSuspend, and the clients on the session bus.                *)
(*                                                                         *)
(* The bus delivers to light-locker in one order what clients send and     *)
(* what it says of them itself: a NameOwnerChanged comes after everything  *)
(* the client sent before it left.  A client is a unique name, which the   *)
(* bus never gives out again.                                              *)
(***************************************************************************)
EXTENDS Integers, Sequences

CONSTANTS
    Clients,        \* unique names on the session bus
    NoOne,          \* not a client
    CookieSpace,    \* 2^32 in the program
    ReleaseNames,   \* clients own well-known names and may release them
    MaxInbox        \* bound on the messages waiting for light-locker

ASSUME InhibitorsAssumption ==
    /\ NoOne \notin Clients
    /\ CookieSpace \in Nat \ {0}
    /\ ReleaseNames \in BOOLEAN
    /\ MaxInbox \in 1 .. CookieSpace

Cookies == 0 .. (CookieSpace - 1)

VARIABLES
    owner,          \* inhibit_list: who holds a cookie, or NoOne
    lastCookie,     \* inhibit_last_cookie
    suspends,       \* XScreenSaverSuspend (TRUE) less XScreenSaverSuspend (FALSE)
    inbox,          \* messages not dispatched yet
    connected,      \* the clients still on the bus
    holds           \* the cookies a client was given and did not give back

vars == <<owner, lastCookie, suspends, inbox, connected, holds>>

Message ==
    [kind : {"Inhibit", "OwnerChanged"}, from : Clients]
        \cup [kind : {"UnInhibit"}, from : Clients, cookie : Cookies]

Init ==
    /\ owner = [k \in Cookies |-> NoOne]
    /\ lastCookie = 0
    /\ suspends = 0
    /\ inbox = <<>>
    /\ connected = Clients
    /\ holds = [c \in Clients |-> {}]

Inhibited(o) == \E k \in Cookies : o[k] # NoOne

-----------------------------------------------------------------------------
(***************************************************************************)
(* The list.                                                               *)
(***************************************************************************)

\* The i-th cookie from now; the counter wraps around.
Ahead(i) ==
    IF lastCookie + i < CookieSpace THEN lastCookie + i
                                    ELSE lastCookie + i - CookieSpace

\* Bug: the counter has no width.
NextCookieWide == lastCookie + 1

\* ++inhibit_last_cookie, a dbus_uint32_t.
NextCookie == Ahead(1)

\* gs_listener_add_inhibit: INHIBIT is emitted for the first entry.
AddInhibit(c) ==
    /\ lastCookie' = NextCookie
    /\ suspends' = suspends + (IF Inhibited(owner) THEN 0 ELSE 1)
    /\ owner' = [owner EXCEPT ![NextCookie] = c]

\* Bug: the X server is told for every entry that goes.
DropEach(gone) ==
    /\ owner' = [k \in Cookies |-> IF k \in gone THEN NoOne ELSE owner[k]]
    /\ suspends' = suspends - (IF gone # {} THEN 1 ELSE 0)
    /\ UNCHANGED lastCookie

\* The entries `gone' leave; INHIBIT is emitted if they were the last ones.
Drop(gone) ==
    /\ owner' = [k \in Cookies |-> IF k \in gone THEN NoOne ELSE owner[k]]
    /\ suspends' = suspends - (IF gone # {} /\ ~Inhibited(owner') THEN 1 ELSE 0)
    /\ UNCHANGED lastCookie

\* Bug: anybody's cookie will do.
RemovedAny(k, c) == {k} \cap {j \in Cookies : owner[j] # NoOne}

\* gs_listener_remove_inhibit: an unknown cookie, or another client's, is left.
Removed(k, c) == {k} \cap {j \in Cookies : owner[j] = c}

\* Bug: one entry of the client is removed, not each.
DisconnectedOne(c) ==
    {k \in Cookies : owner[k] = c /\ \A j \in Cookies : owner[j] = c => k <= j}

\* gs_listener_disonnect_inhibit: every entry of the owner.
Disconnected(c) == {k \in Cookies : owner[k] = c}

-----------------------------------------------------------------------------
(***************************************************************************)
(* The clients.                                                            *)
(***************************************************************************)

Post(message) ==
    /\ Len(inbox) < MaxInbox
    /\ inbox' = Append(inbox, message)

\* Nobody keeps a cookie while 2^32 others are given out.
CookiesLeft == \A i \in 1 .. (Len(inbox) + 1) : owner[Ahead(i)] = NoOne

CallInhibit(c) ==
    /\ c \in connected
    /\ CookiesLeft
    /\ Post([kind |-> "Inhibit", from |-> c])
    /\ UNCHANGED <<owner, lastCookie, suspends, connected, holds>>

\* A client gives back its cookie, or names one that another one holds.
CallUnInhibit(c, k) ==
    /\ c \in connected
    /\ k \in holds[c] \/ owner[k] \notin {NoOne, c}
    /\ Post([kind |-> "UnInhibit", from |-> c, cookie |-> k])
    /\ holds' = [holds EXCEPT ![c] = @ \ {k}]
    /\ UNCHANGED <<owner, lastCookie, suspends, connected>>

\* The client exits: its unique name loses its owner.
Leave(c) ==
    /\ c \in connected
    /\ Post([kind |-> "OwnerChanged", from |-> c])
    /\ connected' = connected \ {c}
    /\ holds' = [holds EXCEPT ![c] = {}]
    /\ UNCHANGED <<owner, lastCookie, suspends>>

\* A client that stays gives up a well-known name: its unique name is the
\* old owner in the signal.
ReleaseName(c) ==
    /\ ReleaseNames
    /\ c \in connected
    /\ Post([kind |-> "OwnerChanged", from |-> c])
    /\ UNCHANGED <<owner, lastCookie, suspends, connected, holds>>

-----------------------------------------------------------------------------
(***************************************************************************)
(* light-locker dispatches the next message.                               *)
(***************************************************************************)

\* listener_inhibit: the cookie reaches a client that is still there.
HandleInhibit ==
    LET c == Head(inbox).from IN
    /\ inbox # <<>> /\ Head(inbox).kind = "Inhibit"
    /\ AddInhibit(c)
    /\ holds' = IF c \in connected THEN [holds EXCEPT ![c] = @ \cup {NextCookie}]
                                   ELSE holds
    /\ inbox' = Tail(inbox)
    /\ UNCHANGED connected

\* listener_uninhibit
HandleUnInhibit ==
    /\ inbox # <<>> /\ Head(inbox).kind = "UnInhibit"
    /\ Drop(Removed(Head(inbox).cookie, Head(inbox).from))
    /\ inbox' = Tail(inbox)
    /\ UNCHANGED <<connected, holds>>

\* NameOwnerChanged is looked at while there are entries; only the second
\* argument is read.
HandleOwnerChanged ==
    /\ inbox # <<>> /\ Head(inbox).kind = "OwnerChanged"
    /\ IF Inhibited(owner) THEN Drop(Disconnected(Head(inbox).from))
                           ELSE UNCHANGED <<owner, lastCookie, suspends>>
    /\ inbox' = Tail(inbox)
    /\ UNCHANGED <<connected, holds>>

Handle == HandleInhibit \/ HandleUnInhibit \/ HandleOwnerChanged

Next ==
    \/ \E c \in Clients : CallInhibit(c) \/ Leave(c) \/ ReleaseName(c)
    \/ \E c \in Clients, k \in Cookies : CallUnInhibit(c, k)
    \/ Handle

Spec == Init /\ [][Next]_vars

-----------------------------------------------------------------------------
(***************************************************************************)
(* Properties.                                                             *)
(***************************************************************************)

\* The variables keep their types: a cookie fits its width.
TypeOK ==
    /\ owner \in [Cookies -> Clients \cup {NoOne}]
    /\ lastCookie \in Cookies
    /\ suspends \in Nat
    /\ inbox \in Seq(Message) /\ Len(inbox) <= MaxInbox
    /\ connected \subseteq Clients
    /\ holds \in [Clients -> SUBSET Cookies]

\* The X server counts one suspension while anybody inhibits and none
\* otherwise, whatever way the entries came and went: a count that drifts
\* blocks the screen saver, and with it the lock, for the whole session
\* (gs-listener-dbus.c:499, 527, 553).
SuspendedWhileInhibited == suspends = IF Inhibited(owner) THEN 1 ELSE 0

\* "Inhibitor disconnected" (gs-listener-dbus.c:551): whoever's entries go on
\* NameOwnerChanged, and is reported so, has left the bus.
DisconnectedHaveLeft ==
    [][ HandleOwnerChanged =>
          \A k \in Cookies : owner'[k] # owner[k] => owner[k] \notin connected ]_vars

\* The message removes the entry k.
Ends(m, k) ==
    \/ m.kind = "OwnerChanged" /\ m.from = owner[k]
    \/ m.kind = "UnInhibit" /\ m.from = owner[k] /\ m.cookie = k

\* No entry is left without somebody who will end it: its client still has the
\* cookie, or the message that removes the entry is on its way, even if the
\* client left before its Inhibit was dispatched.
NoStaleInhibitor ==
    \A k \in Cookies : owner[k] # NoOne =>
        \/ owner[k] \in connected /\ k \in holds[owner[k]]
        \/ \E i \in 1 .. Len(inbox) : Ends(inbox[i], k)

\* A message ends the sender's inhibitions and nobody else's, although cookies
\* are small numbers anybody can guess (gs-listener-dbus.c:521).
OthersUntouched ==
    [][ \A k \in Cookies :
          owner[k] # NoOne /\ owner'[k] # owner[k] => Head(inbox).from = owner[k] ]_vars

=============================================================================
