-------------------------- MODULE InhibitorsProofs --------------------------
(***************************************************************************)
(* Theorems about Inhibitors and LightLockerCommand, for any clients and   *)
(* processes, any width of the cookies and any number of messages waiting. *)
(***************************************************************************)
EXTENDS LightLockerCommand, TLAPS

\* The cookies that the Inhibit calls under way will be given are free.
Reserved ==
    \A i \in 1 .. Len(inbox) : inbox[i].kind = "Inhibit" =>
        \A j \in 1 .. i : owner[Ahead(j)] = NoOne

\* A client that left said so after its last Inhibit.
Followed ==
    \A i \in 1 .. Len(inbox) :
        inbox[i].kind = "Inhibit" /\ inbox[i].from \notin connected =>
            \E j \in (i + 1) .. Len(inbox) :
                inbox[j].kind = "OwnerChanged" /\ inbox[j].from = inbox[i].from

IInv == TypeOK /\ SuspendedWhileInhibited /\ Reserved /\ Followed /\ NoStaleInhibitor

-----------------------------------------------------------------------------
(***************************************************************************)
(* The cookies ahead and the queue.                                        *)
(***************************************************************************)

LEMMA AheadType ==
  ASSUME lastCookie \in Cookies, NEW i \in 1 .. CookieSpace
  PROVE  Ahead(i) \in Cookies
  BY InhibitorsAssumption DEF Ahead, Cookies

\* The first one ahead does not come again before the others.
LEMMA AheadApart ==
  ASSUME lastCookie \in Cookies, NEW i \in 2 .. CookieSpace
  PROVE  Ahead(i) # Ahead(1)
  BY InhibitorsAssumption DEF Ahead, Cookies

LEMMA AheadShift ==
  ASSUME lastCookie \in Cookies, lastCookie' = Ahead(1), NEW i \in 1 .. (CookieSpace - 1)
  PROVE  Ahead(i)' = Ahead(i + 1)
  BY InhibitorsAssumption DEF Ahead, Cookies

LEMMA PostFacts ==
  ASSUME TypeOK, NEW m \in Message, Post(m)
  PROVE  /\ inbox' \in Seq(Message) /\ Len(inbox') <= MaxInbox
         /\ Len(inbox') = Len(inbox) + 1
         /\ \A i \in 1 .. Len(inbox) : inbox'[i] = inbox[i]
         /\ inbox'[Len(inbox) + 1] = m
  BY InhibitorsAssumption DEF TypeOK, Post

LEMMA TailFacts ==
  ASSUME TypeOK, inbox # <<>>, inbox' = Tail(inbox)
  PROVE  /\ inbox' \in Seq(Message) /\ Len(inbox') <= MaxInbox
         /\ Len(inbox) \in Nat \ {0}
         /\ Len(inbox') = Len(inbox) - 1
         /\ \A i \in 1 .. Len(inbox') : inbox'[i] = inbox[i + 1]
         /\ Head(inbox) = inbox[1]
         /\ Head(inbox) \in Message
  BY InhibitorsAssumption DEF TypeOK

LEMMA Starts == Init => IInv
<1> SUFFICES ASSUME Init PROVE IInv
  OBVIOUS
<1>1. TypeOK
  BY InhibitorsAssumption DEF Init, TypeOK, Cookies
<1>2. SuspendedWhileInhibited
  BY DEF Init, SuspendedWhileInhibited, Inhibited
<1>3. Reserved /\ Followed /\ NoStaleInhibitor
  BY DEF Init, Reserved, Followed, NoStaleInhibitor
<1> QED
  BY <1>1, <1>2, <1>3 DEF IInv

-----------------------------------------------------------------------------
(***************************************************************************)
(* Clients.                                                                *)
(***************************************************************************)

\* What is posted stays behind what was.
LEMMA PostFollowed ==
  ASSUME IInv, NEW m \in Message, Post(m),
         connected' \subseteq connected,
         m.kind = "Inhibit" => m.from \in connected',
         \A c \in connected \ connected' : m.kind = "OwnerChanged" /\ m.from = c
  PROVE  Followed'
<1> SUFFICES ASSUME NEW i \in 1 .. Len(inbox'),
                    inbox'[i].kind = "Inhibit", inbox'[i].from \notin connected'
             PROVE  \E j \in (i + 1) .. Len(inbox') :
                       inbox'[j].kind = "OwnerChanged" /\ inbox'[j].from = inbox'[i].from
  BY DEF Followed
<1> DEFINE n == Len(inbox)
<1>0. n \in Nat
  BY DEF IInv, TypeOK
<1>1. /\ Len(inbox') = n + 1
      /\ \A k \in 1 .. n : inbox'[k] = inbox[k]
      /\ inbox'[n + 1] = m
  BY PostFacts DEF IInv
<1>2. i \in 1 .. n /\ inbox'[i] = inbox[i]
  BY <1>0, <1>1
<1>3. inbox[i].from \in Clients
  <2>1. inbox[i] \in Message
    BY <1>2 DEF IInv, TypeOK
  <2> QED
    BY <2>1 DEF Message
<1>4. CASE inbox[i].from \in connected
  <2>1. inbox'[n + 1].kind = "OwnerChanged" /\ inbox'[n + 1].from = inbox'[i].from
    BY <1>1, <1>2, <1>4
  <2> QED
    BY <1>0, <1>1, <1>2, <2>1
<1>5. CASE inbox[i].from \notin connected
  <2>1. PICK j \in (i + 1) .. n : inbox[j].kind = "OwnerChanged" /\ inbox[j].from = inbox[i].from
    BY <1>2, <1>5 DEF IInv, Followed
  <2>2. j \in (i + 1) .. Len(inbox') /\ inbox'[j] = inbox[j]
    BY <1>0, <1>1, <1>2, <2>1
  <2> QED
    BY <1>2, <2>1, <2>2
<1> QED
  BY <1>4, <1>5

\* The list is as it was: what was posted ends the entries that lost their
\* client or their holder.
LEMMA PostNoStale ==
  ASSUME IInv, NEW m \in Message, Post(m), UNCHANGED owner,
         \A k \in Cookies :
            owner[k] \in connected /\ k \in holds[owner[k]] =>
               \/ owner[k] \in connected' /\ k \in holds'[owner[k]]
               \/ Ends(m, k)
  PROVE  NoStaleInhibitor'
<1> SUFFICES ASSUME NEW k \in Cookies, owner[k] # NoOne
             PROVE  \/ owner[k] \in connected' /\ k \in holds'[owner[k]]
                    \/ \E i \in 1 .. Len(inbox') : Ends(inbox'[i], k)
  BY DEF NoStaleInhibitor, Ends
<1> DEFINE n == Len(inbox)
<1>1. /\ n \in Nat
      /\ Len(inbox') = n + 1
      /\ \A i \in 1 .. n : inbox'[i] = inbox[i]
      /\ inbox'[n + 1] = m
  BY PostFacts DEF IInv, TypeOK
<1>2. CASE owner[k] \in connected /\ k \in holds[owner[k]]
  <2>1. CASE Ends(m, k)
    BY <1>1, <2>1
  <2> QED
    BY <1>2, <2>1
<1>3. CASE \E i \in 1 .. n : Ends(inbox[i], k)
  BY <1>1, <1>3
<1> QED
  BY <1>2, <1>3 DEF IInv, NoStaleInhibitor

\* Nothing but an Inhibit asks for more cookies.
LEMMA PostReserved ==
  ASSUME IInv, NEW m \in Message, Post(m), UNCHANGED <<owner, lastCookie>>,
         m.kind = "Inhibit" => CookiesLeft
  PROVE  Reserved'
<1> DEFINE n == Len(inbox)
<1>1. /\ n \in Nat
      /\ Len(inbox') = n + 1
      /\ \A i \in 1 .. n : inbox'[i] = inbox[i]
      /\ inbox'[n + 1] = m
  BY PostFacts DEF IInv, TypeOK
<1>2. \A j : Ahead(j)' = Ahead(j)
  BY DEF Ahead
<1>3. ASSUME NEW i \in 1 .. (n + 1), inbox'[i].kind = "Inhibit", NEW j \in 1 .. i
      PROVE  owner[Ahead(j)] = NoOne
  BY <1>1, <1>3 DEF CookiesLeft, IInv, Reserved
<1> QED
  BY <1>1, <1>2, <1>3 DEF Reserved

\* A client's step: it posts, and the list stays.
LEMMA ClientKeeps ==
  ASSUME IInv, NEW c \in Clients,
         CallInhibit(c) \/ Leave(c) \/ ReleaseName(c) \/ \E k \in Cookies : CallUnInhibit(c, k)
  PROVE  IInv'
<1>1. UNCHANGED <<owner, lastCookie, suspends>>
  BY DEF CallInhibit, Leave, ReleaseName, CallUnInhibit
<1>2. SuspendedWhileInhibited'
  BY <1>1 DEF IInv, SuspendedWhileInhibited, Inhibited
<1>3. CASE CallInhibit(c)
  <2> DEFINE m == [kind |-> "Inhibit", from |-> c]
  <2>1. m \in Message /\ Post(m) /\ c \in connected /\ CookiesLeft
        /\ UNCHANGED <<connected, holds>>
    BY <1>3 DEF CallInhibit, Message
  <2>2. TypeOK'
    BY <1>1, <2>1, PostFacts DEF IInv, TypeOK
  <2>3. Followed' /\ NoStaleInhibitor' /\ Reserved'
    BY <1>1, <2>1, PostFollowed, PostNoStale, PostReserved
  <2> QED
    BY <1>2, <2>2, <2>3 DEF IInv
<1>4. CASE Leave(c)
  <2> DEFINE m == [kind |-> "OwnerChanged", from |-> c]
  <2>1. m \in Message /\ Post(m) /\ connected' = connected \ {c}
        /\ holds' = [holds EXCEPT ![c] = {}]
    BY <1>4 DEF Leave, Message
  <2>2. TypeOK'
    BY <1>1, <2>1, PostFacts DEF IInv, TypeOK
  <2>3. ASSUME NEW k \in Cookies, owner[k] \in connected, k \in holds[owner[k]]
        PROVE  (owner[k] \in connected' /\ k \in holds'[owner[k]]) \/ Ends(m, k)
    BY <2>1, <2>3 DEF IInv, TypeOK, Ends
  <2>4. Followed' /\ Reserved'
    BY <1>1, <2>1, PostFollowed, PostReserved
  <2>5. NoStaleInhibitor'
    BY <1>1, <2>1, <2>3, PostNoStale
  <2> QED
    BY <1>2, <2>2, <2>4, <2>5 DEF IInv
<1>5. CASE ReleaseName(c)
  <2> DEFINE m == [kind |-> "OwnerChanged", from |-> c]
  <2>1. m \in Message /\ Post(m) /\ UNCHANGED <<connected, holds>>
    BY <1>5 DEF ReleaseName, Message
  <2>2. TypeOK'
    BY <1>1, <2>1, PostFacts DEF IInv, TypeOK
  <2>3. Followed' /\ NoStaleInhibitor' /\ Reserved'
    BY <1>1, <2>1, PostFollowed, PostNoStale, PostReserved
  <2> QED
    BY <1>2, <2>2, <2>3 DEF IInv
<1>6. ASSUME NEW k \in Cookies, CallUnInhibit(c, k)
      PROVE  IInv'
  <2> DEFINE m == [kind |-> "UnInhibit", from |-> c, cookie |-> k]
  <2>1. m \in Message /\ Post(m) /\ UNCHANGED connected
        /\ holds' = [holds EXCEPT ![c] = @ \ {k}]
    BY <1>6 DEF CallUnInhibit, Message
  <2>2. TypeOK'
    BY <1>1, <2>1, PostFacts DEF IInv, TypeOK
  <2>3. ASSUME NEW j \in Cookies, owner[j] \in connected, j \in holds[owner[j]]
        PROVE  (owner[j] \in connected' /\ j \in holds'[owner[j]]) \/ Ends(m, j)
    BY <2>1, <2>3 DEF IInv, TypeOK, Ends
  <2>4. Followed' /\ Reserved'
    BY <1>1, <2>1, PostFollowed, PostReserved
  <2>5. NoStaleInhibitor'
    BY <1>1, <2>1, <2>3, PostNoStale
  <2> QED
    BY <1>2, <2>2, <2>4, <2>5 DEF IInv
<1> QED
  BY <1>3, <1>4, <1>5, <1>6

-----------------------------------------------------------------------------
(***************************************************************************)
(* light-locker.                                                           *)
(***************************************************************************)

\* The message at the head is gone, and no client came or went.
LEMMA TailFollowed ==
  ASSUME IInv, inbox # <<>>, inbox' = Tail(inbox), UNCHANGED connected
  PROVE  Followed'
<1> SUFFICES ASSUME NEW i \in 1 .. Len(inbox'),
                    inbox'[i].kind = "Inhibit", inbox'[i].from \notin connected
             PROVE  \E j \in (i + 1) .. Len(inbox') :
                       inbox'[j].kind = "OwnerChanged" /\ inbox'[j].from = inbox'[i].from
  BY DEF Followed
<1>1. /\ Len(inbox) \in Nat \ {0}
      /\ Len(inbox') = Len(inbox) - 1
      /\ \A k \in 1 .. Len(inbox') : inbox'[k] = inbox[k + 1]
  BY TailFacts DEF IInv
<1>2. i + 1 \in 1 .. Len(inbox) /\ inbox'[i] = inbox[i + 1]
  BY <1>1
<1>3. PICK j \in (i + 2) .. Len(inbox) :
         inbox[j].kind = "OwnerChanged" /\ inbox[j].from = inbox[i + 1].from
  BY <1>2 DEF IInv, Followed
<1>4. j - 1 \in (i + 1) .. Len(inbox') /\ inbox'[j - 1] = inbox[j]
  BY <1>1, <1>2, <1>3
<1> QED
  BY <1>2, <1>3, <1>4

\* Entries that stay are ended by what is left of the queue: the message at the
\* head ended only entries that are gone.
LEMMA TailNoStale ==
  ASSUME IInv, inbox # <<>>, inbox' = Tail(inbox), UNCHANGED <<connected, holds>>,
         \A k \in Cookies : owner'[k] # NoOne =>
            owner'[k] = owner[k] /\ ~Ends(Head(inbox), k)
  PROVE  NoStaleInhibitor'
<1> SUFFICES ASSUME NEW k \in Cookies, owner'[k] # NoOne
             PROVE  \/ owner'[k] \in connected' /\ k \in holds'[owner'[k]]
                    \/ \E i \in 1 .. Len(inbox') : Ends(inbox[i], k)'
  BY DEF NoStaleInhibitor
<1>1. /\ Len(inbox) \in Nat \ {0}
      /\ Len(inbox') = Len(inbox) - 1
      /\ \A i \in 1 .. Len(inbox') : inbox'[i] = inbox[i + 1]
      /\ Head(inbox) = inbox[1]
  BY TailFacts DEF IInv
<1>2. owner'[k] = owner[k] /\ ~Ends(inbox[1], k)
  BY <1>1
<1>3. CASE \E i \in 1 .. Len(inbox) : Ends(inbox[i], k)
  <2>1. PICK i \in 1 .. Len(inbox) : Ends(inbox[i], k)
    BY <1>3
  <2>2. i # 1
    BY <1>2, <2>1
  <2>3. i - 1 \in 1 .. Len(inbox') /\ inbox'[i - 1] = inbox[i]
    BY <1>1, <2>2
  <2>4. Ends(inbox[i - 1], k)'
    BY <1>2, <2>1, <2>3 DEF Ends
  <2> QED
    BY <2>3, <2>4
<1>4. CASE owner[k] \in connected /\ k \in holds[owner[k]]
  BY <1>2, <1>4
<1> QED
  BY <1>2, <1>3, <1>4 DEF IInv, NoStaleInhibitor

\* A count that follows the list when entries leave it.
LEMMA DropFacts ==
  ASSUME IInv, NEW gone \in SUBSET Cookies, \A k \in gone : owner[k] # NoOne, Drop(gone)
  PROVE  /\ owner' \in [Cookies -> Clients \cup {NoOne}]
         /\ lastCookie' = lastCookie
         /\ suspends' \in Nat
         /\ \A k \in Cookies : owner'[k] = IF k \in gone THEN NoOne ELSE owner[k]
         /\ SuspendedWhileInhibited'
<1>1. /\ owner' \in [Cookies -> Clients \cup {NoOne}]
      /\ lastCookie' = lastCookie
      /\ \A k \in Cookies : owner'[k] = IF k \in gone THEN NoOne ELSE owner[k]
  BY DEF IInv, TypeOK, Drop
<1>2. suspends' = suspends - (IF gone # {} /\ ~Inhibited(owner') THEN 1 ELSE 0)
  BY DEF Drop
<1>3. suspends = IF Inhibited(owner) THEN 1 ELSE 0
  BY DEF IInv, SuspendedWhileInhibited
<1>4. suspends' = IF Inhibited(owner') THEN 1 ELSE 0
  <2>1. gone # {} => Inhibited(owner)
    BY DEF Inhibited
  <2>2. gone = {} => (Inhibited(owner') <=> Inhibited(owner))
    BY <1>1 DEF Inhibited
  <2>3. Inhibited(owner') => Inhibited(owner)
    BY <1>1 DEF Inhibited
  <2> QED
    BY <1>2, <1>3, <2>1, <2>2, <2>3
<1> QED
  BY <1>1, <1>4 DEF SuspendedWhileInhibited, Inhibited

\* A list that lost entries leaves the cookies ahead as free as they were.
LEMMA TailReserved ==
  ASSUME IInv, inbox # <<>>, inbox' = Tail(inbox), lastCookie' = lastCookie,
         \A k \in Cookies : owner[k] = NoOne => owner'[k] = NoOne
  PROVE  Reserved'
<1>1. /\ Len(inbox) \in Nat \ {0} /\ Len(inbox) <= CookieSpace
      /\ Len(inbox') = Len(inbox) - 1
      /\ \A i \in 1 .. Len(inbox') : inbox'[i] = inbox[i + 1]
  BY TailFacts, InhibitorsAssumption DEF IInv, TypeOK
<1>2. \A j : Ahead(j)' = Ahead(j)
  BY DEF Ahead
<1>3. ASSUME NEW i \in 1 .. Len(inbox'), inbox'[i].kind = "Inhibit", NEW j \in 1 .. i
      PROVE  owner'[Ahead(j)] = NoOne
  <2>1. i + 1 \in 1 .. Len(inbox) /\ inbox[i + 1].kind = "Inhibit" /\ j \in 1 .. (i + 1)
    BY <1>1, <1>3
  <2>2. owner[Ahead(j)] = NoOne
    BY <2>1 DEF IInv, Reserved
  <2>3. lastCookie \in Cookies /\ j \in 1 .. CookieSpace
    BY <1>1, <2>1, InhibitorsAssumption DEF IInv, TypeOK
  <2>4. Ahead(j) \in Cookies
    BY <2>3, AheadType
  <2> QED
    BY <2>2, <2>4
<1> QED
  BY <1>2, <1>3 DEF Reserved

\* An Inhibit takes a cookie nobody has.
LEMMA InhibitKeeps == IInv /\ HandleInhibit => IInv'
<1> SUFFICES ASSUME IInv, HandleInhibit PROVE IInv'
  OBVIOUS
<1> DEFINE c == Head(inbox).from
           new == Ahead(1)
<1>1. /\ inbox # <<>> /\ inbox' = Tail(inbox) /\ UNCHANGED connected
      /\ inbox[1] = Head(inbox) /\ inbox[1].kind = "Inhibit"
      /\ lastCookie' = new
      /\ suspends' = suspends + (IF Inhibited(owner) THEN 0 ELSE 1)
      /\ owner' = [owner EXCEPT ![new] = c]
      /\ holds' = IF c \in connected THEN [holds EXCEPT ![c] = @ \cup {new}] ELSE holds
  BY TailFacts DEF IInv, HandleInhibit, AddInhibit, NextCookie
<1>2. /\ Len(inbox) \in Nat \ {0} /\ Len(inbox) <= CookieSpace
      /\ Len(inbox') = Len(inbox) - 1
      /\ \A i \in 1 .. Len(inbox') : inbox'[i] = inbox[i + 1]
      /\ inbox' \in Seq(Message) /\ Len(inbox') <= MaxInbox
      /\ c \in Clients
  BY <1>1, TailFacts, InhibitorsAssumption DEF IInv, TypeOK, Message
<1>3. new \in Cookies /\ owner[new] = NoOne
  <2>1. lastCookie \in Cookies /\ 1 \in 1 .. CookieSpace /\ 1 \in 1 .. Len(inbox) /\ 1 \in 1 .. 1
    BY <1>2, InhibitorsAssumption DEF IInv, TypeOK
  <2>2. new \in Cookies
    BY <2>1, AheadType
  <2>3. owner[new] = NoOne
    BY <1>1, <2>1 DEF IInv, Reserved
  <2> QED
    BY <2>2, <2>3
<1>4. TypeOK'
  BY <1>1, <1>2, <1>3 DEF IInv, TypeOK
<1>5. SuspendedWhileInhibited'
  <2>1. owner'[new] # NoOne
    BY <1>1, <1>2, <1>3, InhibitorsAssumption DEF IInv, TypeOK
  <2>2. Inhibited(owner')
    BY <1>3, <2>1 DEF Inhibited
  <2>3. suspends' = 1
    BY <1>1 DEF IInv, SuspendedWhileInhibited
  <2> QED
    BY <2>2, <2>3 DEF SuspendedWhileInhibited, Inhibited
<1>6. Reserved'
  <2>1. ASSUME NEW i \in 1 .. Len(inbox'), inbox'[i].kind = "Inhibit", NEW j \in 1 .. i
        PROVE  owner'[Ahead(j)'] = NoOne
    <3>1. i + 1 \in 1 .. Len(inbox) /\ inbox[i + 1].kind = "Inhibit"
          /\ j + 1 \in 1 .. (i + 1) /\ j + 1 \in 2 .. CookieSpace
          /\ j \in 1 .. (CookieSpace - 1)
      BY <1>2, <2>1, InhibitorsAssumption
    <3>2. owner[Ahead(j + 1)] = NoOne
      BY <3>1 DEF IInv, Reserved
    <3>3. Ahead(j)' = Ahead(j + 1)
      BY <1>1, <3>1, AheadShift DEF IInv, TypeOK
    <3>4. Ahead(j + 1) # new
      BY <3>1, AheadApart DEF IInv, TypeOK
    <3> QED
      BY <1>1, <3>1, <3>2, <3>3, <3>4, AheadType DEF IInv, TypeOK
  <2> QED
    BY <2>1 DEF Reserved
<1>7. Followed'
  BY <1>1, TailFollowed
<1>8. NoStaleInhibitor'
  <2> SUFFICES ASSUME NEW k \in Cookies, owner'[k] # NoOne
               PROVE  \/ owner'[k] \in connected /\ k \in holds'[owner'[k]]
                      \/ \E i \in 1 .. Len(inbox') : Ends(inbox[i], k)'
    BY <1>1 DEF NoStaleInhibitor, Ends
  <2>1. CASE k = new
    <3>1. owner'[k] = c
      BY <1>1, <2>1 DEF IInv, TypeOK
    <3>2. CASE c \in connected
      BY <1>1, <1>2, <2>1, <3>1, <3>2 DEF IInv, TypeOK
    <3>3. CASE c \notin connected
      <4>1. PICK j \in 2 .. Len(inbox) : inbox[j].kind = "OwnerChanged" /\ inbox[j].from = c
        BY <1>1, <1>2, <3>3 DEF IInv, Followed
      <4>2. j - 1 \in 1 .. Len(inbox') /\ inbox'[j - 1] = inbox[j]
        BY <1>2, <4>1
      <4> QED
        BY <3>1, <4>1, <4>2 DEF Ends
    <3> QED
      BY <3>2, <3>3
  <2>2. CASE k # new
    <3>1. owner'[k] = owner[k]
      BY <1>1, <2>2 DEF IInv, TypeOK
    <3>2. CASE owner[k] \in connected /\ k \in holds[owner[k]]
      BY <1>1, <3>1, <3>2 DEF IInv, TypeOK
    <3>3. CASE \E i \in 1 .. Len(inbox) : Ends(inbox[i], k)
      <4>1. PICK i \in 1 .. Len(inbox) : Ends(inbox[i], k)
        BY <3>3
      <4>2. i # 1
        BY <1>1, <4>1 DEF Ends
      <4>3. i - 1 \in 1 .. Len(inbox') /\ inbox'[i - 1] = inbox[i]
        BY <1>2, <4>2
      <4> QED
        BY <3>1, <4>1, <4>3 DEF Ends
    <3> QED
      BY <3>1, <3>2, <3>3 DEF IInv, NoStaleInhibitor
  <2> QED
    BY <2>1, <2>2
<1> QED
  BY <1>4, <1>5, <1>6, <1>7, <1>8 DEF IInv

\* A message at the head that removes what it ends, and nothing else.
LEMMA RemovalKeeps ==
  ASSUME IInv, inbox # <<>>, inbox' = Tail(inbox), UNCHANGED <<connected, holds>>,
         NEW gone \in SUBSET Cookies, Drop(gone),
         \A k \in Cookies : k \in gone <=> owner[k] # NoOne /\ Ends(Head(inbox), k)
  PROVE  IInv'
<1>1. /\ owner' \in [Cookies -> Clients \cup {NoOne}]
      /\ lastCookie' = lastCookie
      /\ suspends' \in Nat
      /\ \A k \in Cookies : owner'[k] = IF k \in gone THEN NoOne ELSE owner[k]
      /\ SuspendedWhileInhibited'
  BY DropFacts
<1>2. TypeOK'
  BY <1>1, TailFacts DEF IInv, TypeOK
<1>3. Reserved'
  BY <1>1, TailReserved
<1>4. Followed'
  BY TailFollowed
<1>5. NoStaleInhibitor'
  BY <1>1, TailNoStale
<1> QED
  BY <1>1, <1>2, <1>3, <1>4, <1>5 DEF IInv

LEMMA UnInhibitKeeps == IInv /\ HandleUnInhibit => IInv'
<1> SUFFICES ASSUME IInv, HandleUnInhibit PROVE IInv'
  OBVIOUS
<1> DEFINE gone == Removed(Head(inbox).cookie, Head(inbox).from)
<1>1. /\ inbox # <<>> /\ inbox' = Tail(inbox) /\ UNCHANGED <<connected, holds>>
      /\ Head(inbox).kind = "UnInhibit" /\ Drop(gone)
  BY DEF HandleUnInhibit
<1>2. Head(inbox).from \in Clients /\ Head(inbox).from # NoOne
  BY <1>1, TailFacts, InhibitorsAssumption DEF IInv, Message
<1>3. gone \in SUBSET Cookies
      /\ \A k \in Cookies : k \in gone <=> owner[k] # NoOne /\ Ends(Head(inbox), k)
  BY <1>1, <1>2 DEF Removed, Ends
<1> HIDE DEF gone
<1> QED
  BY <1>1, <1>3, RemovalKeeps

LEMMA OwnerChangedKeeps == IInv /\ HandleOwnerChanged => IInv'
<1> SUFFICES ASSUME IInv, HandleOwnerChanged PROVE IInv'
  OBVIOUS
<1> DEFINE gone == Disconnected(Head(inbox).from)
<1>1. /\ inbox # <<>> /\ inbox' = Tail(inbox) /\ UNCHANGED <<connected, holds>>
      /\ Head(inbox).kind = "OwnerChanged"
  BY DEF HandleOwnerChanged
<1>2. Head(inbox).from \in Clients /\ Head(inbox).from # NoOne
  BY <1>1, TailFacts, InhibitorsAssumption DEF IInv, Message
<1>3. gone \in SUBSET Cookies
      /\ \A k \in Cookies : k \in gone <=> owner[k] # NoOne /\ Ends(Head(inbox), k)
  BY <1>1, <1>2 DEF Disconnected, Ends
<1>4. CASE Inhibited(owner)
  <2>1. Drop(gone)
    BY <1>4 DEF HandleOwnerChanged
  <2> HIDE DEF gone
  <2> QED
    BY <1>1, <1>3, <2>1, RemovalKeeps
<1>5. CASE ~Inhibited(owner)
  <2>1. UNCHANGED <<owner, lastCookie, suspends>>
    BY <1>5 DEF HandleOwnerChanged
  <2>2. TypeOK' /\ SuspendedWhileInhibited'
    BY <1>1, <2>1, TailFacts DEF IInv, TypeOK, SuspendedWhileInhibited, Inhibited
  <2>3. Reserved' /\ Followed'
    BY <1>1, <2>1, TailReserved, TailFollowed
  <2>4. NoStaleInhibitor'
    BY <1>1, <1>5, <2>1, TailNoStale DEF Inhibited
  <2> QED
    BY <2>2, <2>3, <2>4 DEF IInv
<1> QED
  BY <1>4, <1>5

-----------------------------------------------------------------------------
(***************************************************************************)
(* The theorems.                                                           *)
(***************************************************************************)

LEMMA NextSound == IInv /\ [Next]_vars => IInv'
<1> SUFFICES ASSUME IInv, [Next]_vars PROVE IInv'
  OBVIOUS
<1>1. CASE UNCHANGED vars
  <2>1. \A j : Ahead(j)' = Ahead(j)
    BY <1>1 DEF vars, Ahead
  <2> QED
    BY <1>1, <2>1 DEF vars, IInv, TypeOK, SuspendedWhileInhibited, Inhibited, Reserved,
                      Followed, NoStaleInhibitor, Ends
<1>2. ASSUME NEW c \in Clients,
             CallInhibit(c) \/ Leave(c) \/ ReleaseName(c) \/ \E k \in Cookies : CallUnInhibit(c, k)
      PROVE  IInv'
  BY <1>2, ClientKeeps
<1>3. CASE Handle
  BY <1>3, InhibitKeeps, UnInhibitKeeps, OwnerChangedKeeps DEF Handle
<1> QED
  BY <1>1, <1>2, <1>3 DEF Next

\* The inductive invariant: what is listed, counted, under way and held.
THEOREM AlwaysSound == Spec => []IInv
  BY Starts, NextSound, PTL DEF Spec

\* The variables keep their types: the cookie counter wraps within its width
\* (gs-listener-dbus.c:497).
THEOREM TypeCorrect == Spec => []TypeOK
<1>1. IInv => TypeOK
  BY DEF IInv
<1> QED
  BY <1>1, AlwaysSound, PTL

\* The X server counts one suspension exactly while there are entries, for any
\* number of clients, cookies and messages (gs-listener-dbus.c:499, 527, 553).
THEOREM CountFollowsList == Spec => []SuspendedWhileInhibited
<1>1. IInv => SuspendedWhileInhibited
  BY DEF IInv
<1> QED
  BY <1>1, AlwaysSound, PTL

\* Every entry of the list has a client that holds its cookie or a message on
\* its way that removes it.
THEOREM EntriesEnd == Spec => []NoStaleInhibitor
<1>1. IInv => NoStaleInhibitor
  BY DEF IInv
<1> QED
  BY <1>1, AlwaysSound, PTL

\* A message ends the inhibitions of its sender alone: the counter does not hand
\* out a cookie that is held (gs-listener-dbus.c:497, 521, 549).
THEOREM SenderAlone == Spec => OthersUntouched
<1>1. IInv /\ [Next]_vars =>
        [\A k \in Cookies :
           owner[k] # NoOne /\ owner'[k] # owner[k] => Head(inbox).from = owner[k]]_vars
  <2> SUFFICES ASSUME IInv, Next, NEW k \in Cookies, owner[k] # NoOne, owner'[k] # owner[k]
               PROVE  Head(inbox).from = owner[k]
    OBVIOUS
  <2>1. CASE HandleInhibit
    <3>1. inbox # <<>> /\ Head(inbox).kind = "Inhibit"
          /\ owner' = [owner EXCEPT ![Ahead(1)] = Head(inbox).from]
      BY <2>1 DEF HandleInhibit, AddInhibit, NextCookie
    <3>2. owner[Ahead(1)] = NoOne
      BY <3>1, 1 \in 1 .. Len(inbox), Head(inbox) = inbox[1] DEF IInv, TypeOK, Reserved
    <3> QED
      BY <3>1, <3>2 DEF IInv, TypeOK
  <2>2. CASE HandleUnInhibit
    BY <2>2 DEF HandleUnInhibit, Drop, Removed
  <2>3. CASE HandleOwnerChanged
    BY <2>3 DEF HandleOwnerChanged, Drop, Disconnected
  <2> QED
    BY <2>1, <2>2, <2>3 DEF Next, Handle, CallInhibit, Leave, ReleaseName, CallUnInhibit
<1> QED
  BY <1>1, AlwaysSound, PTL DEF Spec, OthersUntouched

\* Whoever the bus names as an old owner is gone.
OldOwnersLeft ==
    \A i \in 1 .. Len(inbox) : inbox[i].kind = "OwnerChanged" => inbox[i].from \notin connected

LEMMA OldOwnersSteps ==
  ASSUME IInv, OldOwnersLeft, ReleaseNames = FALSE, [Next]_vars
  PROVE  OldOwnersLeft'
<1>1. ASSUME NEW m \in Message, Post(m), connected' \subseteq connected,
             m.kind = "OwnerChanged" => m.from \notin connected'
      PROVE  OldOwnersLeft'
  <2>1. /\ Len(inbox) \in Nat /\ Len(inbox') = Len(inbox) + 1
        /\ \A i \in 1 .. Len(inbox) : inbox'[i] = inbox[i]
        /\ inbox'[Len(inbox) + 1] = m
    BY <1>1, PostFacts DEF IInv, TypeOK
  <2> QED
    BY <1>1, <2>1 DEF OldOwnersLeft
<1>2. ASSUME NEW c \in Clients, CallInhibit(c) \/ Leave(c) \/ ReleaseName(c)
      PROVE  OldOwnersLeft'
  <2>1. /\ [kind |-> "Inhibit", from |-> c] \in Message
        /\ [kind |-> "OwnerChanged", from |-> c] \in Message
    BY DEF Message
  <2>2. CASE CallInhibit(c)
    BY <1>1, <2>1, <2>2 DEF CallInhibit
  <2>3. CASE Leave(c)
    BY <1>1, <2>1, <2>3 DEF Leave
  <2> QED
    BY <1>2, <2>2, <2>3 DEF ReleaseName
<1>3. ASSUME NEW c \in Clients, NEW k \in Cookies, CallUnInhibit(c, k)
      PROVE  OldOwnersLeft'
  <2>1. [kind |-> "UnInhibit", from |-> c, cookie |-> k] \in Message
    BY DEF Message
  <2> QED
    BY <1>1, <1>3, <2>1 DEF CallUnInhibit
<1>4. CASE Handle
  <2>1. inbox # <<>> /\ inbox' = Tail(inbox) /\ UNCHANGED connected
    BY <1>4 DEF Handle, HandleInhibit, HandleUnInhibit, HandleOwnerChanged
  <2>2. /\ Len(inbox) \in Nat \ {0} /\ Len(inbox') = Len(inbox) - 1
        /\ \A i \in 1 .. Len(inbox') : inbox'[i] = inbox[i + 1]
    BY <2>1, TailFacts DEF IInv
  <2> QED
    BY <2>1, <2>2 DEF OldOwnersLeft
<1>5. CASE UNCHANGED vars
  BY <1>5 DEF vars, OldOwnersLeft
<1> QED
  BY <1>2, <1>3, <1>4, <1>5 DEF Next

\* Where no client gives up a well-known name, only those that left are taken for
\* disconnected: giving one up is the one way to the violation of
\* DisconnectedHaveLeft (gs-listener-dbus.c:1057).
THEOREM OnlyReleasedNamesMislead ==
  ASSUME ReleaseNames = FALSE
  PROVE  Spec => DisconnectedHaveLeft
<1>1. Init => OldOwnersLeft
  BY DEF Init, OldOwnersLeft
<1>2. IInv /\ OldOwnersLeft /\ [Next]_vars => OldOwnersLeft'
  BY OldOwnersSteps
<1>3. ASSUME IInv, OldOwnersLeft, HandleOwnerChanged,
             NEW k \in Cookies, owner'[k] # owner[k]
      PROVE  owner[k] \notin connected
  <2>1. inbox # <<>> /\ inbox' = Tail(inbox) /\ Head(inbox).kind = "OwnerChanged"
    BY <1>3 DEF HandleOwnerChanged
  <2>2. 1 \in 1 .. Len(inbox) /\ Head(inbox) = inbox[1]
    BY <2>1, TailFacts DEF IInv
  <2>3. owner[k] = Head(inbox).from
    BY <1>3 DEF HandleOwnerChanged, Drop, Disconnected
  <2> QED
    BY <1>3, <2>1, <2>2, <2>3 DEF OldOwnersLeft
<1>4. IInv /\ OldOwnersLeft /\ [Next]_vars =>
        [HandleOwnerChanged =>
           \A k \in Cookies : owner'[k] # owner[k] => owner[k] \notin connected]_vars
  BY <1>3
<1> QED
  BY <1>1, <1>2, <1>4, AlwaysSound, PTL DEF Spec, DisconnectedHaveLeft

\* Once the messages of a client that left are handled it owns no entry, and
\* there will be no more of them: what InhibitionEnds promises to come about needs
\* nothing but light-locker's dispatching (gs-listener-dbus.c:553).
GoneOwnNothing ==
    \A c \in Clients \ connected :
        (\A i \in 1 .. Len(inbox) : inbox[i].from # c)
            => \A k \in Cookies : owner[k] # c

GoneSendNothing ==
    [][ \A c \in Clients \ connected :
            /\ c \notin connected'
            /\ \/ inbox' = Tail(inbox)
               \/ \E m \in Message : inbox' = Append(inbox, m) /\ m.from # c ]_vars

\* A client that left sends nothing more and, what it sent once handled, is
\* forgotten.
THEOREM GoneAreForgotten == Spec => []GoneOwnNothing /\ GoneSendNothing
<1>1. IInv => GoneOwnNothing
  <2> SUFFICES ASSUME IInv, NEW c \in Clients \ connected,
                      \A i \in 1 .. Len(inbox) : inbox[i].from # c,
                      NEW k \in Cookies, owner[k] = c
               PROVE  FALSE
    BY DEF GoneOwnNothing
  <2>1. c # NoOne
    BY InhibitorsAssumption
  <2>2. PICK i \in 1 .. Len(inbox) : Ends(inbox[i], k)
    BY <2>1 DEF IInv, NoStaleInhibitor
  <2> QED
    BY <2>2 DEF Ends
<1>2. ASSUME IInv, Next, NEW c \in Clients \ connected
      PROVE  /\ c \notin connected'
             /\ \/ inbox' = Tail(inbox)
                \/ \E m \in Message : inbox' = Append(inbox, m) /\ m.from # c
  <2>1. CASE Handle
    BY <2>1 DEF Handle, HandleInhibit, HandleUnInhibit, HandleOwnerChanged
  <2>2. ASSUME NEW d \in Clients, NEW m \in Message, m.from = d, d \in connected,
               Post(m), connected' \subseteq connected
        PROVE  /\ c \notin connected'
               /\ \E x \in Message : inbox' = Append(inbox, x) /\ x.from # c
    BY <2>2 DEF Post
  <2>3. ASSUME NEW d \in Clients
        PROVE  /\ [kind |-> "Inhibit", from |-> d] \in Message
               /\ [kind |-> "OwnerChanged", from |-> d] \in Message
               /\ \A k \in Cookies : [kind |-> "UnInhibit", from |-> d, cookie |-> k] \in Message
    BY DEF Message
  <2>4. ASSUME NEW d \in Clients, CallInhibit(d) \/ Leave(d) \/ ReleaseName(d)
        PROVE  /\ c \notin connected'
               /\ \E x \in Message : inbox' = Append(inbox, x) /\ x.from # c
    BY <2>2, <2>3, <2>4 DEF CallInhibit, Leave, ReleaseName
  <2>5. ASSUME NEW d \in Clients, NEW k \in Cookies, CallUnInhibit(d, k)
        PROVE  /\ c \notin connected'
               /\ \E x \in Message : inbox' = Append(inbox, x) /\ x.from # c
    BY <2>2, <2>3, <2>5 DEF CallUnInhibit
  <2> QED
    BY <1>2, <2>1, <2>4, <2>5 DEF Next
<1>3. IInv /\ [Next]_vars =>
        [\A c \in Clients \ connected :
            /\ c \notin connected'
            /\ \/ inbox' = Tail(inbox)
               \/ \E m \in Message : inbox' = Append(inbox, m) /\ m.from # c]_vars
  BY <1>2
<1> QED
  BY <1>1, <1>3, AlwaysSound, PTL DEF Spec, GoneSendNothing

-----------------------------------------------------------------------------
(***************************************************************************)
(* light-locker-command.                                                   *)
(***************************************************************************)

ProcessTyped == process \in [Commands -> Process]

\* A process that has not come to its UnInhibit has announced no end, and what it
\* was given stands in the list.
Staying(c) == process[c].at \in {"calls", "inhibits", "waits", "quits"}

NoEndSent(c) ==
    \A i \in 1 .. Len(inbox) : inbox[i].from = c => inbox[i].kind = "Inhibit"

HeldListed(c) == \A k \in holds[c] : owner[k] = c

Calm(c) ==
    Staying(c) => /\ NoEndSent(c)
                  /\ HeldListed(c)
                  /\ process[c].at = "waits" => process[c].holding
                  /\ process[c].holding => process[c].cookie \in holds[c]

AllCalm == \A c \in Commands : Calm(c)

LEMMA ProcessTypedSteps ==
  ASSUME IInv, ProcessTyped, [CommandNext]_commandVars
  PROVE  ProcessTyped'
<1>1. CASE UNCHANGED process
  BY <1>1 DEF ProcessTyped
<1>2. ASSUME NEW c \in Commands, Command(c)
      PROVE  ProcessTyped'
  <2>1. process[c] \in Process
    BY DEF ProcessTyped
  <2>2. \A p \in Process : process' = [process EXCEPT ![c] = p] => ProcessTyped'
    BY DEF ProcessTyped
  <2>3. ASSUME NEW to \in {"calls", "inhibits", "waits", "quits", "exits", "gone"}, Goes(c, to)
        PROVE  ProcessTyped'
    BY <2>1, <2>2, <2>3 DEF Goes, Process
  <2>4. CASE Answered(c)
    <3>1. process[c].calls - 1 \in 0 .. MaxCalls
      BY <2>1, <2>4, CommandAssumption DEF Answered, Process
    <3>2. [process[c] EXCEPT !.calls = @ - 1] \in Process
      BY <2>1, <3>1 DEF Process
    <3> QED
      BY <2>2, <2>4, <3>2 DEF Answered
  <2>5. CASE Reply(c)
    <3>1. c \in Clients /\ holds[c] \subseteq Cookies
      BY CommandAssumption DEF IInv, TypeOK
    <3>2. PICK k \in Cookies, to \in {"waits", "quits"}, child \in {"none", "given", "runs"} :
             process' = [process EXCEPT ![c] = Took(@, k, to, child)]
      BY <2>5, <3>1 DEF Reply
    <3>3. Took(process[c], k, to, child) \in Process
      BY <2>1 DEF Took, Process
    <3> QED
      BY <2>2, <3>2, <3>3
  <2>6. CASE ChildEnds(c)
    BY <2>1, <2>2, <2>6 DEF ChildEnds, Process
  <2>7. CASE SendUnInhibit(c)
    BY <2>1, <2>2, <2>7 DEF SendUnInhibit, Process
  <2>8. CASE \/ Done(c) \/ SendInhibit(c) \/ NoReply(c) \/ ChildTerm(c)
             \/ HandleTerm(c) \/ Exit(c) \/ Kill(c)
    BY <2>3, <2>8 DEF Done, SendInhibit, NoReply, ChildTerm, HandleTerm, Exit, Kill, Silently
  <2> QED
    BY <1>2, <2>4, <2>5, <2>6, <2>7, <2>8 DEF Command
<1> QED
  BY <1>1, <1>2 DEF CommandNext, commandVars

\* For light-locker a light-locker-command is a client like any other.
LEMMA CommandStepIsStep ==
  ASSUME ProcessTyped, [CommandNext]_commandVars
  PROVE  [Next]_vars
<1>1. ASSUME NEW c \in Commands, Command(c)
      PROVE  [Next]_vars
  <2>1. c \in Clients
    BY CommandAssumption
  <2>2. process[c].cookie \in Cookies
    BY DEF ProcessTyped, Process
  <2>3. \/ UNCHANGED vars
        \/ CallInhibit(c) \/ Leave(c) \/ CallUnInhibit(c, process[c].cookie)
    BY <1>1, Zenon DEF Command, Answered, Done, SendInhibit, Reply, NoReply, ChildEnds,
       ChildTerm, HandleTerm, SendUnInhibit, Exit, Kill, Silently
  <2> QED
    BY <2>1, <2>2, <2>3, Zenon DEF Next
<1>2. ASSUME NEW c \in Clients \ Commands, OtherClient(c)
      PROVE  Next
  <2>1. c \in Clients
    OBVIOUS
  <2> QED
    BY <1>2, <2>1, Zenon DEF OtherClient, Next
<1>3. Handle => Next
  BY Zenon DEF Next
<1>4. UNCHANGED commandVars => UNCHANGED vars
  BY DEF commandVars, vars
<1> QED
  BY <1>1, <1>2, <1>3, <1>4, Zenon DEF CommandNext

LEMMA CommandSound == CommandSpec => [](IInv /\ ProcessTyped)
<1>1. CommandInit => IInv /\ ProcessTyped
  <2>1. ASSUME CommandInit
        PROVE  ProcessTyped
    <3>1. 0 \in Cookies
      BY InhibitorsAssumption DEF Cookies
    <3> QED
      BY <2>1, <3>1 DEF CommandInit, Started, ProcessTyped
  <2> QED
    BY <2>1, Starts DEF CommandInit
<1>2. IInv /\ ProcessTyped /\ [CommandNext]_commandVars => IInv' /\ ProcessTyped'
  BY CommandStepIsStep, NextSound, ProcessTypedSteps
<1> QED
  BY <1>1, <1>2, PTL DEF CommandSpec

\* Everything proved of Inhibitors holds with light-locker-command among its
\* clients.
THEOREM CommandImplementsClients == CommandSpec => Spec
<1>1. CommandInit => Init
  BY DEF CommandInit
<1>2. ProcessTyped /\ [CommandNext]_commandVars => [Next]_vars
  BY CommandStepIsStep
<1> QED
  BY <1>1, <1>2, CommandSound, PTL DEF CommandSpec, Spec

-----------------------------------------------------------------------------

\* Light-locker's own steps: it ends the entries of those who asked for it.
LEMMA HandleCalm ==
  ASSUME IInv, NEW c \in Clients, NoEndSent(c), HeldListed(c), Handle
  PROVE  NoEndSent(c)' /\ HeldListed(c)' /\ holds[c] \subseteq holds'[c]
<1>0. inbox # <<>> /\ inbox' = Tail(inbox)
  BY DEF Handle, HandleInhibit, HandleUnInhibit, HandleOwnerChanged
<1>1. /\ Len(inbox) \in Nat \ {0}
      /\ Len(inbox') = Len(inbox) - 1
      /\ \A i \in 1 .. Len(inbox') : inbox'[i] = inbox[i + 1]
      /\ Head(inbox) = inbox[1]
  BY <1>0, TailFacts DEF IInv
<1>2. NoEndSent(c)'
  <2> SUFFICES ASSUME NEW i \in 1 .. Len(inbox'), inbox'[i].from = c
               PROVE  inbox'[i].kind = "Inhibit"
    BY DEF NoEndSent
  <2>1. i + 1 \in 1 .. Len(inbox) /\ inbox'[i] = inbox[i + 1]
    BY <1>1
  <2> QED
    BY <2>1 DEF NoEndSent
<1>3. Head(inbox).kind # "Inhibit" => Head(inbox).from # c
  <2>1. 1 \in 1 .. Len(inbox)
    BY <1>1
  <2> QED
    BY <1>1, <2>1 DEF NoEndSent
<1>4. /\ holds \in [Clients -> SUBSET Cookies]
      /\ owner \in [Cookies -> Clients \cup {NoOne}]
      /\ c # NoOne
  BY InhibitorsAssumption DEF IInv, TypeOK
<1>5. CASE HandleInhibit
  <2> DEFINE d == Head(inbox).from
             new == Ahead(1)
  <2>1. /\ Head(inbox).kind = "Inhibit"
        /\ owner' = [owner EXCEPT ![new] = d]
        /\ holds' = IF d \in connected THEN [holds EXCEPT ![d] = @ \cup {new}] ELSE holds
    BY <1>5 DEF HandleInhibit, AddInhibit, NextCookie
  <2>2. owner[new] = NoOne
    <3>1. 1 \in 1 .. Len(inbox) /\ 1 \in 1 .. 1 /\ inbox[1].kind = "Inhibit"
      BY <1>1, <2>1
    <3> QED
      BY <3>1 DEF IInv, Reserved
  <2>3. new \in Cookies
    BY InhibitorsAssumption, AheadType DEF IInv, TypeOK
  <2>4. holds'[c] = holds[c] \/ (d = c /\ holds'[c] = holds[c] \cup {new})
    BY <1>4, <2>1
  <2>5. \A k \in holds[c] : owner[k] = c
    BY DEF HeldListed
  <2> HIDE DEF new, d
  <2>6. \A k \in holds'[c] : owner'[k] = c
    BY <1>4, <2>1, <2>2, <2>3, <2>4, <2>5
  <2> QED
    BY <1>2, <2>4, <2>6 DEF HeldListed
<1>6. CASE HandleUnInhibit \/ HandleOwnerChanged
  <2>1. UNCHANGED holds
    BY <1>6 DEF HandleUnInhibit, HandleOwnerChanged
  <2>2. \A k \in Cookies : owner[k] = c => owner'[k] = c
    BY <1>3, <1>6 DEF HandleUnInhibit, HandleOwnerChanged, Drop, Removed, Disconnected
  <2>3. \A k \in holds[c] : k \in Cookies
    BY <1>4
  <2> QED
    BY <1>2, <2>1, <2>2, <2>3 DEF HeldListed
<1> QED
  BY <1>5, <1>6 DEF Handle

\* A message that ends nothing of c's.
LEMMA PostCalm ==
  ASSUME IInv, NEW c \in Clients, NoEndSent(c), HeldListed(c),
         NEW m \in Message, Post(m), m.from = c => m.kind = "Inhibit",
         UNCHANGED owner, holds'[c] = holds[c]
  PROVE  NoEndSent(c)' /\ HeldListed(c)'
<1>1. /\ Len(inbox) \in Nat
      /\ Len(inbox') = Len(inbox) + 1
      /\ \A i \in 1 .. Len(inbox) : inbox'[i] = inbox[i]
      /\ inbox'[Len(inbox) + 1] = m
  BY PostFacts DEF IInv, TypeOK
<1>2. NoEndSent(c)'
  BY <1>1 DEF NoEndSent
<1> QED
  BY <1>2 DEF HeldListed

\* What another client does.
LEMMA OtherCalm ==
  ASSUME IInv, NEW c \in Clients, NoEndSent(c), HeldListed(c),
         NEW d \in Clients, d # c,
         CallInhibit(d) \/ Leave(d) \/ ReleaseName(d) \/ \E k \in Cookies : CallUnInhibit(d, k)
  PROVE  NoEndSent(c)' /\ HeldListed(c)' /\ holds'[c] = holds[c]
<1>0. holds \in [Clients -> SUBSET Cookies]
  BY DEF IInv, TypeOK
<1>1. CASE CallInhibit(d)
  <2>1. [kind |-> "Inhibit", from |-> d] \in Message
    BY DEF Message
  <2> QED
    BY <1>1, <2>1, PostCalm DEF CallInhibit
<1>2. CASE Leave(d)
  <2>1. [kind |-> "OwnerChanged", from |-> d] \in Message
    BY DEF Message
  <2>2. holds'[c] = holds[c]
    BY <1>0, <1>2 DEF Leave
  <2> QED
    BY <1>2, <2>1, <2>2, PostCalm DEF Leave
<1>3. CASE ReleaseName(d)
  <2>1. [kind |-> "OwnerChanged", from |-> d] \in Message
    BY DEF Message
  <2> QED
    BY <1>3, <2>1, PostCalm DEF ReleaseName
<1>4. ASSUME NEW k \in Cookies, CallUnInhibit(d, k)
      PROVE  NoEndSent(c)' /\ HeldListed(c)' /\ holds'[c] = holds[c]
  <2>1. [kind |-> "UnInhibit", from |-> d, cookie |-> k] \in Message
    BY DEF Message
  <2>2. holds'[c] = holds[c]
    BY <1>0, <1>4 DEF CallUnInhibit
  <2> QED
    BY <1>4, <2>1, <2>2, PostCalm DEF CallUnInhibit
<1> QED
  BY <1>1, <1>2, <1>3, <1>4

\* No step of a process leaves its record as it is.
LEMMA CommandMoves ==
  ASSUME ProcessTyped, NEW c \in Commands, Command(c)
  PROVE  process'[c] # process[c]
<1>0. process \in [Commands -> Process] /\ process[c] \in Process
  BY DEF ProcessTyped
<1>2. CASE Answered(c)
  <2>1. process'[c].calls = process[c].calls - 1
    BY <1>0, <1>2 DEF Answered, Process
  <2>2. process[c].calls \in Int
    BY <1>0, CommandAssumption DEF Process
  <2> QED
    BY <2>1, <2>2
<1>3. CASE Reply(c)
  <2>1. process'[c].at \in {"waits", "quits"}
    BY <1>0, <1>3 DEF Reply, Took, Process
  <2> QED
    BY <1>3, <2>1 DEF Reply
<1>4. CASE ChildEnds(c)
  <2>1. process'[c].child = "ended"
    BY <1>0, <1>4 DEF ChildEnds, Process
  <2> QED
    BY <1>4, <2>1 DEF ChildEnds
<1>5. CASE SendUnInhibit(c)
  <2>1. process'[c].at = "exits"
    BY <1>0, <1>5 DEF SendUnInhibit, Process
  <2> QED
    BY <1>5, <2>1 DEF SendUnInhibit
<1>6. CASE \/ Done(c) \/ SendInhibit(c) \/ NoReply(c) \/ ChildTerm(c)
           \/ HandleTerm(c) \/ Exit(c) \/ Kill(c)
  <2>1. PICK to \in {"inhibits", "quits", "gone"} : Goes(c, to) /\ process[c].at # to
    BY <1>6 DEF Done, SendInhibit, NoReply, ChildTerm, HandleTerm, Exit, Kill, Silently
  <2>2. process'[c].at = to
    BY <1>0, <2>1 DEF Goes, Process
  <2> QED
    BY <2>1, <2>2
<1> QED
  BY <1>2, <1>3, <1>4, <1>5, <1>6 DEF Command

LEMMA AllCalmSteps ==
  ASSUME IInv, ProcessTyped, AllCalm, [CommandNext]_commandVars
  PROVE  AllCalm'
<1> SUFFICES ASSUME NEW c \in Commands, Staying(c)'
             PROVE  /\ NoEndSent(c)'
                    /\ HeldListed(c)'
                    /\ process'[c].at = "waits" => process'[c].holding
                    /\ process'[c].holding => process'[c].cookie \in holds'[c]
  BY DEF AllCalm, Calm
<1>0. c \in Clients /\ Calm(c) /\ process[c] \in Process
  BY CommandAssumption DEF AllCalm, ProcessTyped
<1>1. CASE process'[c] = process[c]
  <2>1. /\ NoEndSent(c) /\ HeldListed(c)
        /\ process[c].at = "waits" => process[c].holding
        /\ process[c].holding => process[c].cookie \in holds[c]
    BY <1>0, <1>1 DEF Staying, Calm
  <2>2. CASE Handle
    BY <1>0, <1>1, <2>1, <2>2, HandleCalm
  <2>3. CASE UNCHANGED vars
    BY <1>1, <2>1, <2>3 DEF vars, NoEndSent, HeldListed
  <2>4. ASSUME NEW d \in Clients, d # c, OtherClient(d)
        PROVE  /\ NoEndSent(c)' /\ HeldListed(c)'
               /\ process'[c].at = "waits" => process'[c].holding
               /\ process'[c].holding => process'[c].cookie \in holds'[c]
    <3>1. \/ CallInhibit(d) \/ Leave(d) \/ ReleaseName(d)
          \/ \E k \in Cookies : CallUnInhibit(d, k)
      BY <2>4 DEF OtherClient
    <3> QED
      BY <1>0, <1>1, <2>1, <2>4, <3>1, OtherCalm
  <2>5. ASSUME NEW d \in Commands, d # c, Command(d)
        PROVE  /\ NoEndSent(c)' /\ HeldListed(c)'
               /\ process'[c].at = "waits" => process'[c].holding
               /\ process'[c].holding => process'[c].cookie \in holds'[c]
    <3>1. d \in Clients /\ process[d].cookie \in Cookies
      BY CommandAssumption DEF ProcessTyped, Process
    <3>2. \/ UNCHANGED vars
          \/ CallInhibit(d) \/ Leave(d) \/ CallUnInhibit(d, process[d].cookie)
      BY <2>5, Zenon DEF Command, Answered, Done, SendInhibit, Reply, NoReply, ChildEnds,
         ChildTerm, HandleTerm, SendUnInhibit, Exit, Kill, Silently
    <3>3. UNCHANGED vars \/ OtherClient(d)
      BY <3>1, <3>2, Zenon DEF OtherClient
    <3> QED
      BY <2>3, <2>4, <2>5, <3>1, <3>3
  <2>6. ASSUME Command(c)
        PROVE  /\ NoEndSent(c)' /\ HeldListed(c)'
               /\ process'[c].at = "waits" => process'[c].holding
               /\ process'[c].holding => process'[c].cookie \in holds'[c]
    BY <1>1, <2>6, CommandMoves
  <2>7. UNCHANGED commandVars => UNCHANGED vars
    BY DEF commandVars, vars
  <2> QED
    BY <2>2, <2>3, <2>4, <2>5, <2>6, <2>7 DEF CommandNext
<1>2. CASE process'[c] # process[c]
  <2>1. Command(c)
    <3>1. UNCHANGED commandVars => process' = process
      BY DEF commandVars
    <3>2. ASSUME NEW d \in Commands, d # c, Command(d)
          PROVE  process'[c] = process[c]
      BY <3>2 DEF ProcessTyped, Command, Answered, Done, SendInhibit, Reply, NoReply,
         ChildEnds, ChildTerm, HandleTerm, SendUnInhibit, Exit, Kill, Silently, Goes
    <3> QED
      BY <1>2, <3>1, <3>2 DEF CommandNext
  <2>2. process'[c].at \in {"calls", "inhibits", "waits", "quits"}
    BY DEF Staying
  <2>3. \/ Answered(c) \/ SendInhibit(c) \/ Reply(c) \/ ChildEnds(c)
        \/ Done(c) \/ NoReply(c) \/ ChildTerm(c) \/ HandleTerm(c)
    BY <2>1, <2>2 DEF ProcessTyped, Process, Command, SendUnInhibit, Exit, Kill, Goes
  <2>4. /\ NoEndSent(c) /\ HeldListed(c)
        /\ process[c].at = "waits" => process[c].holding
        /\ process[c].holding => process[c].cookie \in holds[c]
    BY <1>0, <2>3 DEF Calm, Staying, Answered, SendInhibit, Reply, ChildEnds, Done,
       NoReply, ChildTerm, HandleTerm
  <2>5. UNCHANGED vars => NoEndSent(c)' /\ HeldListed(c)' /\ holds' = holds
    BY <2>4 DEF vars, NoEndSent, HeldListed
  <2>6. CASE Answered(c)
    BY <1>0, <2>4, <2>5, <2>6 DEF Answered, ProcessTyped, Process
  <2>7. CASE SendInhibit(c)
    <3>1. [kind |-> "Inhibit", from |-> c] \in Message
      BY <1>0 DEF Message
    <3>2. NoEndSent(c)' /\ HeldListed(c)'
      BY <1>0, <2>4, <2>7, <3>1, PostCalm DEF SendInhibit, CallInhibit
    <3>3. /\ process'[c].at = "inhibits" /\ holds' = holds
          /\ process'[c].holding = process[c].holding
          /\ process'[c].cookie = process[c].cookie
      BY <2>7 DEF SendInhibit, CallInhibit, Goes, ProcessTyped, Process
    <3> QED
      BY <2>4, <3>2, <3>3
  <2>8. CASE Reply(c)
    <3>1. PICK k \in holds[c], to \in {"waits", "quits"}, child \in {"none", "given", "runs"} :
             process' = [process EXCEPT ![c] = Took(@, k, to, child)]
      BY <2>8 DEF Reply
    <3>2. process'[c].cookie = k /\ process'[c].holding
      BY <1>0, <3>1 DEF ProcessTyped, Process, Took
    <3> QED
      BY <2>5, <2>8, <3>2 DEF Reply
  <2>9. CASE ChildEnds(c)
    BY <1>0, <2>4, <2>5, <2>9 DEF ChildEnds, ProcessTyped, Process
  <2>10. CASE Done(c) \/ NoReply(c) \/ ChildTerm(c) \/ HandleTerm(c)
    <3>1. UNCHANGED vars /\ Goes(c, "quits")
      BY <2>10 DEF Done, NoReply, ChildTerm, HandleTerm, Silently
    <3>2. /\ process'[c].at = "quits"
          /\ process'[c].holding = process[c].holding
          /\ process'[c].cookie = process[c].cookie
      BY <1>0, <3>1 DEF Goes, ProcessTyped, Process
    <3> QED
      BY <2>4, <2>5, <3>1, <3>2
  <2> QED
    BY <2>3, <2>6, <2>7, <2>8, <2>9, <2>10
<1> QED
  BY <1>1, <1>2

LEMMA AllCalmAlways == CommandSpec => []AllCalm
<1>1. CommandInit => AllCalm
  <2> SUFFICES ASSUME CommandInit, NEW c \in Commands
               PROVE  Calm(c)
    BY DEF AllCalm
  <2>1. inbox = <<>> /\ holds[c] = {} /\ process[c].at = "calls" /\ ~process[c].holding
    BY CommandAssumption DEF CommandInit, Started, Init
  <2> QED
    BY <2>1 DEF Calm, NoEndSent, HeldListed
<1>2. IInv /\ ProcessTyped /\ AllCalm /\ [CommandNext]_commandVars => AllCalm'
  BY AllCalmSteps
<1> QED
  BY <1>1, <1>2, CommandSound, PTL DEF CommandSpec

\* A light-locker-command that waits inhibits, for any number of processes and
\* other clients, whatever they send and however late the answer is.
THEOREM WaitingInhibits == CommandSpec => []CommandInhibits
<1>1. AllCalm => CommandInhibits
  BY DEF AllCalm, Calm, Staying, HeldListed, CommandInhibits
<1> QED
  BY <1>1, AllCalmAlways, PTL

-----------------------------------------------------------------------------
(***************************************************************************)
(* One inhibition for each light-locker-command, and what gives it back.   *)
(***************************************************************************)

Asks(c, i) == inbox[i].kind = "Inhibit" /\ inbox[i].from = c

\* The client has asked for nothing and is given nothing.
Unasked(c) ==
    /\ \A i \in 1 .. Len(inbox) : ~Asks(c, i)
    /\ \A k \in Cookies : owner[k] # c

\* It has asked once at most, and has the answer or waits for it.
Single(c) ==
    /\ \A i, j \in 1 .. Len(inbox) : Asks(c, i) /\ Asks(c, j) => i = j
    /\ \A j, k \in Cookies : owner[j] = c /\ owner[k] = c => j = k
    /\ (\E i \in 1 .. Len(inbox) : Asks(c, i)) => \A k \in Cookies : owner[k] # c

AllSingle ==
    \A c \in Commands : Single(c) /\ (process[c].at = "calls" => Unasked(c))

LEMMA HandleSingle ==
  ASSUME IInv, NEW c \in Clients, Single(c), Handle
  PROVE  Single(c)' /\ (Unasked(c) => Unasked(c)')
<1>0. inbox # <<>> /\ inbox' = Tail(inbox)
  BY DEF Handle, HandleInhibit, HandleUnInhibit, HandleOwnerChanged
<1>1. /\ Len(inbox) \in Nat \ {0}
      /\ Len(inbox') = Len(inbox) - 1
      /\ \A i \in 1 .. Len(inbox') : inbox'[i] = inbox[i + 1]
      /\ Head(inbox) = inbox[1]
  BY <1>0, TailFacts DEF IInv
<1>2. \A i \in 1 .. Len(inbox') :
         i + 1 \in 2 .. Len(inbox) /\ (Asks(c, i)' <=> Asks(c, i + 1))
  BY <1>1 DEF Asks
<1>3. \A i, j \in 1 .. Len(inbox') : Asks(c, i)' /\ Asks(c, j)' => i = j
  BY <1>1, <1>2 DEF Single
<1>4. CASE HandleInhibit /\ Asks(c, 1)
  <2>1. /\ \A i \in 1 .. Len(inbox') : ~Asks(c, i)'
        /\ \A k \in Cookies : owner[k] # c
        /\ ~Unasked(c)
    BY <1>1, <1>2, <1>4 DEF Single, Unasked
  <2>2. owner' = [owner EXCEPT ![NextCookie] = c]
    BY <1>1, <1>4 DEF HandleInhibit, AddInhibit, Asks
  <2>3. \A j, k \in Cookies : owner'[j] = c /\ owner'[k] = c => j = k
    BY <2>1, <2>2 DEF IInv, TypeOK
  <2> QED
    BY <2>1, <2>3 DEF Single
<1>5. CASE ~(HandleInhibit /\ Asks(c, 1))
  <2>1. \A k \in Cookies : owner'[k] = c => owner[k] = c
    <3>1. CASE HandleInhibit
      <4>1. owner' = [owner EXCEPT ![NextCookie] = inbox[1].from] /\ inbox[1].from # c
        BY <1>1, <1>5, <3>1 DEF HandleInhibit, AddInhibit, Asks
      <4> QED
        BY <4>1 DEF IInv, TypeOK
    <3>2. CASE HandleUnInhibit \/ HandleOwnerChanged
      BY <3>2, InhibitorsAssumption DEF HandleUnInhibit, HandleOwnerChanged, Drop
    <3> QED
      BY <3>1, <3>2 DEF Handle
  <2> QED
    BY <1>2, <1>3, <2>1 DEF Single, Unasked
<1> QED
  BY <1>4, <1>5

\* A message that asks for nothing on c's behalf, or its only one that does.
LEMMA PostSingle ==
  ASSUME IInv, NEW c \in Clients, Single(c), NEW m \in Message, Post(m), UNCHANGED owner,
         m.kind = "Inhibit" /\ m.from = c => Unasked(c)
  PROVE  /\ Single(c)'
         /\ ~(m.kind = "Inhibit" /\ m.from = c) => (Unasked(c) => Unasked(c)')
<1> DEFINE n == Len(inbox) + 1
<1>1. /\ Len(inbox) \in Nat
      /\ Len(inbox') = n
      /\ \A i \in 1 .. Len(inbox) : Asks(c, i)' <=> Asks(c, i)
      /\ inbox'[n] = m
  BY PostFacts DEF IInv, TypeOK, Asks
<1>2. \A i \in 1 .. Len(inbox') :
         i \in 1 .. Len(inbox) \/ (i = n /\ (Asks(c, i)' <=> m.kind = "Inhibit" /\ m.from = c))
  BY <1>1 DEF Asks
<1>3. CASE m.kind = "Inhibit" /\ m.from = c
  BY <1>1, <1>2, <1>3 DEF Single, Unasked
<1>4. CASE ~(m.kind = "Inhibit" /\ m.from = c)
  BY <1>1, <1>2, <1>4 DEF Single, Unasked
<1> QED
  BY <1>3, <1>4

\* What a client does is to post a message of its own.
LEMMA ClientPosts ==
  ASSUME IInv, NEW d \in Clients,
         CallInhibit(d) \/ Leave(d) \/ ReleaseName(d) \/ \E k \in Cookies : CallUnInhibit(d, k)
  PROVE  /\ UNCHANGED owner
         /\ \A c \in Clients \ {d} : holds'[c] = holds[c]
         /\ \E m \in Message :
               Post(m) /\ m.from = d /\ (m.kind = "Inhibit" => CallInhibit(d))
<1>1. CASE CallInhibit(d)
  BY <1>1 DEF CallInhibit, Message
<1>2. CASE Leave(d)
  BY <1>2 DEF Leave, Message, IInv, TypeOK
<1>3. CASE ReleaseName(d)
  BY <1>3 DEF ReleaseName, Message
<1>4. ASSUME NEW k \in Cookies, CallUnInhibit(d, k)
      PROVE  /\ UNCHANGED owner
             /\ \A c \in Clients \ {d} : holds'[c] = holds[c]
             /\ \E m \in Message : Post(m) /\ m.from = d /\ m.kind # "Inhibit"
  <2>1. [kind |-> "UnInhibit", from |-> d, cookie |-> k] \in Message
    BY DEF Message
  <2> QED
    BY <1>4, <2>1 DEF CallUnInhibit, IInv, TypeOK
<1> QED
  BY <1>1, <1>2, <1>3, <1>4

\* Whose step it is.
LEMMA WhoSteps ==
  ASSUME ProcessTyped, [CommandNext]_commandVars, NEW c \in Commands
  PROVE  \/ Command(c)
         \/ process'[c] = process[c] /\ (Handle \/ UNCHANGED vars)
         \/ /\ process'[c] = process[c]
            /\ \E d \in Clients \ {c} :
                  \/ CallInhibit(d) \/ Leave(d) \/ ReleaseName(d)
                  \/ \E k \in Cookies : CallUnInhibit(d, k)
<1>1. CASE UNCHANGED commandVars
  BY <1>1 DEF commandVars, vars
<1>2. CASE Handle /\ UNCHANGED process
  BY <1>2
<1>3. ASSUME NEW d \in Clients \ Commands, OtherClient(d), UNCHANGED process
      PROVE  /\ process'[c] = process[c]
             /\ \E e \in Clients \ {c} :
                   \/ CallInhibit(e) \/ Leave(e) \/ ReleaseName(e)
                   \/ \E k \in Cookies : CallUnInhibit(e, k)
  <2>1. d \in Clients \ {c}
    OBVIOUS
  <2> QED
    BY <1>3, <2>1, Zenon DEF OtherClient
<1>4. ASSUME NEW d \in Commands, Command(d), d # c
      PROVE  /\ process'[c] = process[c]
             /\ \/ UNCHANGED vars
                \/ \E e \in Clients \ {c} :
                      \/ CallInhibit(e) \/ Leave(e) \/ ReleaseName(e)
                      \/ \E k \in Cookies : CallUnInhibit(e, k)
  <2>1. d \in Clients \ {c} /\ process[d].cookie \in Cookies
    BY <1>4, CommandAssumption DEF ProcessTyped, Process
  <2>2. \/ UNCHANGED vars
        \/ CallInhibit(d) \/ Leave(d) \/ CallUnInhibit(d, process[d].cookie)
    BY <1>4, Zenon DEF Command, Answered, Done, SendInhibit, Reply, NoReply, ChildEnds,
       ChildTerm, HandleTerm, SendUnInhibit, Exit, Kill, Silently
  <2>3. process'[c] = process[c]
    BY <1>4 DEF ProcessTyped, Command, Answered, Done, SendInhibit, Reply, NoReply,
       ChildEnds, ChildTerm, HandleTerm, SendUnInhibit, Exit, Kill, Silently, Goes
  <2> QED
    BY <2>1, <2>2, <2>3, Zenon
<1> QED
  BY <1>1, <1>2, <1>3, <1>4 DEF CommandNext

LEMMA SingleSteps ==
  ASSUME IInv, ProcessTyped, AllSingle, [CommandNext]_commandVars
  PROVE  AllSingle'
<1> SUFFICES ASSUME NEW c \in Commands
             PROVE  Single(c)' /\ (process'[c].at = "calls" => Unasked(c)')
  BY DEF AllSingle
<1>0. c \in Clients /\ Single(c) /\ (process[c].at = "calls" => Unasked(c))
  BY CommandAssumption DEF AllSingle
<1>1. UNCHANGED vars => Single(c)' /\ (Unasked(c) => Unasked(c)')
  BY <1>0 DEF vars, Single, Unasked, Asks
<1>2. CASE process'[c] = process[c] /\ (Handle \/ UNCHANGED vars)
  BY <1>0, <1>1, <1>2, HandleSingle
<1>3. ASSUME process'[c] = process[c], NEW d \in Clients \ {c},
             \/ CallInhibit(d) \/ Leave(d) \/ ReleaseName(d)
             \/ \E k \in Cookies : CallUnInhibit(d, k)
      PROVE  Single(c)' /\ (process'[c].at = "calls" => Unasked(c)')
  <2>1. PICK m \in Message : UNCHANGED owner /\ Post(m) /\ m.from = d
    BY <1>3, ClientPosts
  <2> QED
    BY <1>0, <1>3, <2>1, PostSingle
<1>4. CASE Command(c)
  <2>0. process[c] \in Process
    BY DEF ProcessTyped
  <2>1. CASE UNCHANGED vars
    <3>1. process'[c].at = "calls" => process[c].at = "calls"
      BY <1>4, <2>0 DEF ProcessTyped, Command, Answered, Done, SendInhibit, Reply, NoReply,
         ChildEnds, ChildTerm, HandleTerm, SendUnInhibit, Exit, Kill, Silently, Goes, Took,
         Process
    <3> QED
      BY <1>0, <1>1, <2>1, <3>1
  <2>2. CASE SendInhibit(c)
    <3>1. /\ [kind |-> "Inhibit", from |-> c] \in Message
          /\ Post([kind |-> "Inhibit", from |-> c]) /\ UNCHANGED owner /\ Unasked(c)
      BY <1>0, <2>2 DEF SendInhibit, CallInhibit, Message
    <3>2. Single(c)'
      BY <1>0, <3>1, PostSingle
    <3>3. process'[c].at = "inhibits"
      BY <2>0, <2>2 DEF SendInhibit, Goes, ProcessTyped, Process
    <3> QED
      BY <3>2, <3>3
  <2>3. CASE SendUnInhibit(c) \/ Exit(c) \/ Kill(c)
    <3>1. PICK m \in Message : Post(m) /\ m.kind # "Inhibit" /\ UNCHANGED owner
      <4>1. process[c].cookie \in Cookies
        BY <2>0 DEF Process
      <4>2. /\ [kind |-> "OwnerChanged", from |-> c] \in Message
            /\ [kind |-> "UnInhibit", from |-> c, cookie |-> process[c].cookie] \in Message
        BY <1>0, <4>1 DEF Message
      <4> QED
        BY <2>3, <4>2 DEF SendUnInhibit, CallUnInhibit, Exit, Kill, Leave
    <3>2. process'[c].at \in {"exits", "gone"}
      BY <2>0, <2>3 DEF SendUnInhibit, Exit, Kill, Goes, ProcessTyped, Process
    <3> QED
      BY <1>0, <3>1, <3>2, PostSingle
  <2> QED
    BY <1>4, <2>1, <2>2, <2>3, Zenon DEF Command, Answered, Done, Reply, NoReply,
       ChildEnds, ChildTerm, HandleTerm, Silently
<1> QED
  BY <1>2, <1>3, <1>4, WhoSteps

LEMMA AllSingleAlways == CommandSpec => []AllSingle
<1>1. CommandInit => AllSingle
  <2> SUFFICES ASSUME CommandInit, NEW c \in Commands
               PROVE  Single(c) /\ Unasked(c)
    BY DEF AllSingle
  <2>1. inbox = <<>> /\ \A k \in Cookies : owner[k] # c
    BY CommandAssumption, InhibitorsAssumption DEF CommandInit, Init
  <2> QED
    BY <2>1 DEF Single, Unasked
<1>2. IInv /\ ProcessTyped /\ AllSingle /\ [CommandNext]_commandVars => AllSingle'
  BY SingleSteps
<1> QED
  BY <1>1, <1>2, CommandSound, PTL DEF CommandSpec

\* However late light-locker answers and whatever becomes of the process, a
\* light-locker-command never has two entries in the list: the one cookie it
\* remembers is all there is to give back (light-locker-command.c:459, 562).
OneEntryEach ==
    \A c \in Commands : \A j, k \in Cookies : owner[j] = c /\ owner[k] = c => j = k

\* No interleaving gives a light-locker-command a second entry.
THEOREM OneCookieIsEnough == CommandSpec => []OneEntryEach
<1>1. AllSingle => OneEntryEach
  BY DEF AllSingle, Single, OneEntryEach
<1> QED
  BY <1>1, AllSingleAlways, PTL

\* After its UnInhibit a process has nothing of its own to be ended but by it.
Returning(c) ==
    process[c].at = "exits" =>
        /\ holds[c] = {}
        /\ \A i \in 1 .. Len(inbox) : inbox[i].from = c =>
               inbox[i].kind = "UnInhibit" /\ inbox[i].cookie = process[c].cookie

AllReturning == \A c \in Commands : Returning(c)

LEMMA ReturningSteps ==
  ASSUME IInv, ProcessTyped, AllCalm, AllSingle, AllReturning, [CommandNext]_commandVars
  PROVE  AllReturning'
<1> SUFFICES ASSUME NEW c \in Commands, process'[c].at = "exits"
             PROVE  /\ holds'[c] = {}
                    /\ \A i \in 1 .. Len(inbox') : inbox'[i].from = c =>
                           inbox'[i].kind = "UnInhibit"
                           /\ inbox'[i].cookie = process'[c].cookie
  BY DEF AllReturning, Returning
<1>0. /\ c \in Clients /\ process[c] \in Process
      /\ Calm(c) /\ Single(c) /\ Returning(c)
      /\ holds \in [Clients -> SUBSET Cookies] /\ Len(inbox) \in Nat
  BY CommandAssumption DEF AllCalm, AllSingle, AllReturning, ProcessTyped, IInv, TypeOK
<1>1. CASE process'[c] = process[c] /\ UNCHANGED vars
  BY <1>0, <1>1 DEF vars, Returning
<1>2. CASE process'[c] = process[c] /\ Handle
  <2>0. inbox # <<>> /\ inbox' = Tail(inbox)
    BY <1>2 DEF Handle, HandleInhibit, HandleUnInhibit, HandleOwnerChanged
  <2>1. /\ Len(inbox) \in Nat \ {0}
        /\ Len(inbox') = Len(inbox) - 1
        /\ \A i \in 1 .. Len(inbox') : inbox'[i] = inbox[i + 1]
        /\ Head(inbox) = inbox[1]
    BY <2>0, TailFacts DEF IInv
  <2>2. \A i \in 1 .. Len(inbox') : i + 1 \in 1 .. Len(inbox)
    BY <2>1
  <2>3. 1 \in 1 .. Len(inbox)
    BY <2>1
  <2>4. holds'[c] = holds[c]
    <3>1. Head(inbox).kind = "Inhibit" => Head(inbox).from # c
      BY <1>0, <1>2, <2>1, <2>3 DEF Returning
    <3> QED
      BY <1>0, <1>2, <3>1 DEF Handle, HandleInhibit, HandleUnInhibit, HandleOwnerChanged
  <2> QED
    BY <1>0, <1>2, <2>1, <2>2, <2>4 DEF Returning
<1>3. ASSUME process'[c] = process[c], NEW d \in Clients \ {c},
             \/ CallInhibit(d) \/ Leave(d) \/ ReleaseName(d)
             \/ \E k \in Cookies : CallUnInhibit(d, k)
      PROVE  /\ holds'[c] = {}
             /\ \A i \in 1 .. Len(inbox') : inbox'[i].from = c =>
                    inbox'[i].kind = "UnInhibit" /\ inbox'[i].cookie = process'[c].cookie
  <2>1. PICK m \in Message : Post(m) /\ m.from = d /\ holds'[c] = holds[c]
    BY <1>0, <1>3, ClientPosts
  <2>2. /\ Len(inbox') = Len(inbox) + 1
        /\ \A i \in 1 .. Len(inbox) : inbox'[i] = inbox[i]
        /\ inbox'[Len(inbox) + 1] = m
    BY <2>1, PostFacts DEF IInv
  <2> QED
    BY <1>0, <1>3, <2>1, <2>2 DEF Returning
<1>4. CASE Command(c)
  <2>1. SendUnInhibit(c)
    <3>1. process'[c] # process[c]
      BY <1>4, CommandMoves
    <3>2. process[c].at # "exits"
      BY <1>0, <1>4 DEF ProcessTyped, Command, Answered, Done, SendInhibit, Reply, NoReply,
         ChildEnds, ChildTerm, HandleTerm, SendUnInhibit, Exit, Kill, Silently, Goes, Process
    <3> QED
      BY <1>0, <1>4, <3>2 DEF ProcessTyped, Command, Answered, Done, SendInhibit, Reply,
         NoReply, ChildEnds, ChildTerm, HandleTerm, Exit, Kill, Silently, Goes, Took, Process
  <2> DEFINE k == process[c].cookie
             m == [kind |-> "UnInhibit", from |-> c, cookie |-> k]
  <2>2. /\ process'[c].cookie = k /\ k \in Cookies /\ m \in Message
        /\ Post(m) /\ holds'[c] = holds[c] \ {k}
        /\ process[c].at = "quits" /\ process[c].holding
    BY <1>0, <2>1 DEF SendUnInhibit, CallUnInhibit, ProcessTyped, Process, Message
  <2>3. k \in holds[c] /\ NoEndSent(c) /\ \A j \in holds[c] : j \in Cookies /\ owner[j] = c
    BY <1>0, <2>2 DEF Calm, Staying, HeldListed
  <2>4. holds[c] = {k} /\ \A i \in 1 .. Len(inbox) : ~Asks(c, i)
    BY <1>0, <2>2, <2>3 DEF Single
  <2>5. \A i \in 1 .. Len(inbox) : inbox[i].from # c
    BY <2>3, <2>4 DEF NoEndSent, Asks
  <2>6. /\ Len(inbox') = Len(inbox) + 1
        /\ \A i \in 1 .. Len(inbox) : inbox'[i] = inbox[i]
        /\ inbox'[Len(inbox) + 1] = m
    BY <2>2, PostFacts DEF IInv
  <2> QED
    BY <1>0, <2>2, <2>4, <2>5, <2>6
<1> QED
  BY <1>1, <1>2, <1>3, <1>4, WhoSteps

\* Once a process has said UnInhibit, what it still has in the list is the cookie
\* it named, and that call is on its way: it waits for light-locker alone
\* (light-locker-command.c:562-566).
GivenBack ==
    \A c \in Commands : process[c].at = "exits" =>
        \A k \in Cookies : owner[k] = c =>
            /\ k = process[c].cookie
            /\ \E i \in 1 .. Len(inbox) :
                   inbox[i].kind = "UnInhibit" /\ inbox[i].from = c /\ inbox[i].cookie = k

\* A process never leaves an entry behind that nobody ends.
THEOREM CookieIsGivenBack == CommandSpec => []GivenBack
<1>1. CommandInit => AllReturning
  BY DEF CommandInit, Started, AllReturning, Returning
<1>2. IInv /\ ProcessTyped /\ AllCalm /\ AllSingle /\ AllReturning
      /\ [CommandNext]_commandVars => AllReturning'
  BY ReturningSteps
<1>3. IInv /\ AllReturning => GivenBack
  <2> SUFFICES ASSUME IInv, NEW c \in Commands, Returning(c), process[c].at = "exits",
                      NEW k \in Cookies, owner[k] = c
               PROVE  /\ k = process[c].cookie
                      /\ \E i \in 1 .. Len(inbox) :
                            /\ inbox[i].kind = "UnInhibit"
                            /\ inbox[i].from = c
                            /\ inbox[i].cookie = k
    BY DEF AllReturning, GivenBack
  <2>1. c # NoOne /\ holds[c] = {}
    BY CommandAssumption, InhibitorsAssumption DEF Returning
  <2>2. PICK i \in 1 .. Len(inbox) : Ends(inbox[i], k)
    BY <2>1 DEF IInv, NoStaleInhibitor
  <2> QED
    BY <2>2 DEF Ends, Returning
<1> QED
  BY <1>1, <1>2, <1>3, CommandSound, AllCalmAlways, AllSingleAlways, PTL DEF CommandSpec

=============
