------------------------- MODULE VRSceneServer_proofs -------------------------
(***************************************************************************)
(* For any clients, whichever of them leave or are external, any bound of  *)
(* the send queue and any number of senders and of moves: the timer sends  *)
(* a list that stands still, and when everything is handled and sent,      *)
(* every client knows of the users who are there and of none who has left, *)
(* unless one sender overtook another with the news of them.               *)
(*                                                                         *)
(* The first needs that the mutex is the timer's for as long as it has     *)
(* something to send, although the other thread unlocks it too (Held).     *)
(*                                                                         *)
(* For the second, take what a client will know when all that is on its    *)
(* way has arrived in the order in which it was put: the messages that     *)
(* senders took, those in the send queue and, after them, those the        *)
(* application has still to put (Will).  It is right at any time, but for  *)
(* a client that has still to be sent the list of users, and for what the  *)
(* client was told in another order (Presence).                            *)
(* That the list of players agrees with the clients, once each has been    *)
(* reported, is Listed.                                                    *)
(***************************************************************************)
EXTENDS VRSceneServer, SequenceTheorems, WellFoundedInduction, TLAPS

Seats == Clients \union {NoSeat}
PlayerType == [link : Clients, seat : Seats, type : {"VIP", "ExternalVIP"},
               pos : Positions, update : BOOLEAN]
EventType == [kind : {"link_connected", "link_disconnected", "user_info", "transform",
                      "seen_external", "stop_seen_external", "global_transform"},
              who : Clients, pos : Positions]
Place == [at : {"idle", "greeting", "sending", "leaving", "VIP", "ExternalVIP"}, who : Seats]

Types ==
    /\ life \in [Clients -> {"new", "up", "in", "gone"}]
    /\ acts \in Positions
    /\ moves \in [Clients -> Positions] /\ \A c \in Clients : moves[c] <= acts
    /\ known \in [Clients -> SUBSET (Clients \union {NoSeat} \union (Clients \X Positions))]
    /\ events \in Seq(EventType)
    /\ players \in Seq(PlayerType)
    /\ pc \in [Threads -> Place]
    /\ todo \in [Threads -> Seq(Message)]
    /\ buffer \subseteq Clients \X Positions
    /\ m_queue \in Seq(Message) /\ taken \in Seq(Message)
    /\ overtaken \subseteq Clients \X Clients
    /\ putPc \in [Threads -> {"out", "wait", "woken"}]

\* The messages that were put and have not been sent, the oldest first.
Way == taken \o m_queue

\* The mutex is the thread's that holds it.
Held ==
    /\ pc["app"].at \in {"idle", "greeting", "sending", "leaving"}
    /\ pc["app"].at \in {"greeting", "leaving"} => pc["app"].who \in Clients
    /\ pc["app"].at = "sending" => m_Mutex = "app"
    /\ m_Mutex # "timer" => pc["timer"] = Idle /\ todo["timer"] = <<>> /\ buffer = {}
    /\ \A k \in DOMAIN todo["timer"] : todo["timer"][k].kind = "transform"

\* Nobody who has not connected yet is known to anybody.
Alive ==
    /\ \A k \in DOMAIN events : life[events[k].who] # "new"
    /\ \A k \in DOMAIN players : life[players[k].link] # "new"
    /\ \A t \in Threads : \A k \in DOMAIN todo[t] : life[todo[t][k].to] # "new"
    /\ \A k \in DOMAIN Way : life[Way[k].to] # "new"
    /\ \A c \in Clients : life[c] = "new" => known[c] = {}

Greeting(c) == pc["app"].at = "greeting" /\ pc["app"].who = c
Leaving(c) == pc["app"].at = "leaving" /\ pc["app"].who = c
Pending(kind, c) == \E k \in DOMAIN events : events[k].kind = kind /\ events[k].who = c

\* A client is greeted when it is listed.
Greets(m) == m.kind = "link_connected" => IsPlayer(m.to) \/ life[m.to] = "gone"

\* What the events and the list say of the clients.
EventFits(k) ==
    LET c == events[k].who
    IN  /\ events[k].kind = "link_connected" =>
              /\ ~ IsPlayer(c) /\ \A j \in DOMAIN events : events[j].who = c => k <= j
              /\ life[c] = "gone" => Pending("link_disconnected", c)
        /\ events[k].kind = "link_disconnected" => life[c] = "gone"
        /\ events[k].kind = "user_info" => life[c] \in {"in", "gone"}
        /\ events[k].kind = "seen_external" => c \in External
PlayerFits(p) ==
    LET c == p.link
    IN  /\ p.seat \in {NoSeat, c}
        /\ p.seat = c => life[c] \in {"in", "gone"}
        /\ p.type = "ExternalVIP" => c \in External
        /\ life[c] = "gone" => Pending("link_disconnected", c) \/ Leaving(c)
        /\ life[c] = "in" /\ p.seat = NoSeat => Pending("user_info", c)
Listed ==
    /\ \A j, k \in DOMAIN players : players[j].link = players[k].link => j = k
    /\ \A k \in DOMAIN events : EventFits(k)
    /\ \A k \in DOMAIN players : PlayerFits(players[k])
    /\ \A c \in Clients : Greeting(c) => IsPlayer(c)
    /\ \A c \in Clients : Leaving(c) => life[c] = "gone"
    /\ \A c \in Clients : life[c] = "in" => IsPlayer(c)
    /\ \A k \in DOMAIN todo["app"] : Greets(todo["app"][k])
    /\ \A k \in DOMAIN Way : Greets(Way[k])

\* Who c knows that knows K and has still to receive q.
After(q, c, K) ==
    {d \in Clients :
        \/ d \in K /\ \A k \in DOMAIN q : ~ Mentions(q[k], c, d)
        \/ \E k \in DOMAIN q : /\ Mentions(q[k], c, d) /\ q[k].kind # "ply_leave"
                               /\ \A j \in DOMAIN q : Mentions(q[j], c, d) => j <= k}
Will(c) == After(todo["app"], c, After(Way, c, known[c]))

Seated(d) == \E k \in DOMAIN players : players[k].link = d /\ players[k].seat = d
Knows(c, d) ==
    /\ d \in Will(c) => IsPlayer(c) /\ Seated(d) /\ ~ Leaving(d)
    /\ IsPlayer(c) /\ ~ Greeting(c) /\ Seated(d) /\ ~ Leaving(d) /\ d \notin External =>
            d \in Will(c)
Presence ==
    \A c, d \in Clients :
        c # d /\ life[c] # "gone" /\ <<c, d>> \notin overtaken => Knows(c, d)

Inv == Types /\ Held /\ BatchIsCurrent /\ Alive /\ Listed /\ Presence
-----------------------------------------------------------------------------
(* Sequences, and what they tell a client                                  *)

LEMMA AppendShape ==
    ASSUME NEW S, NEW q \in Seq(S), NEW e \in S
    PROVE  /\ Append(q, e) \in Seq(S) /\ Append(q, e) # <<>> /\ Len(q) \in Nat
           /\ DOMAIN q = 1..Len(q) /\ DOMAIN Append(q, e) = 1..(Len(q) + 1)
           /\ \A k \in DOMAIN q : k \in DOMAIN Append(q, e) /\ Append(q, e)[k] = q[k]
           /\ Append(q, e)[Len(q) + 1] = e
<1>1. Append(q, e) \in Seq(S) /\ Len(Append(q, e)) = Len(q) + 1 /\ Append(q, e) # <<>>
  BY AppendProperties
<1> QED BY <1>1, AppendProperties

LEMMA TailShape ==
    ASSUME NEW S, NEW q \in Seq(S), q # <<>>
    PROVE  /\ Tail(q) \in Seq(S) /\ Head(q) \in S /\ Head(q) = q[1] /\ 1 \in DOMAIN q
           /\ Len(q) \in Nat \ {0} /\ DOMAIN q = 1..Len(q) /\ DOMAIN Tail(q) = 1..(Len(q) - 1)
           /\ \A k \in DOMAIN Tail(q) : k \in Nat /\ k + 1 \in DOMAIN q /\ Tail(q)[k] = q[k + 1]
           /\ \A k \in DOMAIN q : k = 1 \/ (k - 1 \in DOMAIN Tail(q) /\ Tail(q)[k - 1] = q[k])
<1>1. Tail(q) \in Seq(S) /\ Len(Tail(q)) = Len(q) - 1 /\ Head(q) \in S
      /\ Len(q) \in Nat \ {0}
  BY HeadTailProperties, EmptySeq, LenProperties
<1> QED BY <1>1, HeadTailProperties

\* The greatest of some indices.
LEMMA LastIndex ==
    ASSUME NEW n \in Nat, NEW I, I \subseteq 1..n, I # {}
    PROVE  \E k \in I : \A i \in I : i <= k
<1> DEFINE J == {n - i : i \in I}
           Less == {ss \in Nat \X Nat : ss[1] < ss[2]}
<1>1. IsWellFoundedOn(Less, Nat)
  BY NatLessThanWellFounded DEF OpToRel
<1>2. J \subseteq Nat /\ J # {}
  <2>1. PICK i \in I : TRUE
    OBVIOUS
  <2>2. n - i \in J /\ \A k \in I : n - k \in Nat
    OBVIOUS
  <2> QED BY <2>2
<1> HIDE DEF Less
<1>3. PICK x \in J : \A y \in J : ~ (<<y, x>> \in Less)
  BY <1>1, <1>2, WFMin
<1>4. PICK k \in I : x = n - k
  OBVIOUS
<1>5. ASSUME NEW i \in I PROVE i <= k
  <2>1. n - i \in J /\ n - i \in Nat /\ n - k \in Nat
    BY <1>2, <1>4
  <2>2. <<n - i, n - k>> \notin Less
    BY <1>3, <1>4, <2>1
  <2>3. ~ n - i < n - k
    BY <2>1, <2>2 DEF Less
  <2> QED BY <2>3
<1> QED BY <1>5

\* The last message that mentions d says what c will know of it.
LEMMA AfterCases ==
    ASSUME NEW q \in Seq(Message), NEW c, NEW d \in Clients, NEW K
    PROVE  \/ /\ \A k \in DOMAIN q : ~ Mentions(q[k], c, d)
              /\ d \in After(q, c, K) <=> d \in K
           \/ \E k \in DOMAIN q : /\ Mentions(q[k], c, d)
                                  /\ \A j \in DOMAIN q : Mentions(q[j], c, d) => j <= k
                                  /\ d \in After(q, c, K) <=> q[k].kind # "ply_leave"
<1> DEFINE I == {k \in DOMAIN q : Mentions(q[k], c, d)}
<1>1. CASE I = {}
  <2>1. \A k \in DOMAIN q : ~ Mentions(q[k], c, d)
    BY <1>1
  <2>2. d \in After(q, c, K) <=> d \in K
    BY <2>1 DEF After
  <2> QED BY <2>1, <2>2
<1>2. CASE I # {}
  <2>0. Len(q) \in Nat /\ I \subseteq 1..Len(q)
    OBVIOUS
  <2>1. PICK k \in I : \A i \in I : i <= k
    BY <1>2, <2>0, LastIndex
  <2>2. k \in DOMAIN q /\ Mentions(q[k], c, d) /\ \A j \in DOMAIN q : Mentions(q[j], c, d) => j <= k
    BY <2>1
  <2>3. ASSUME NEW i \in DOMAIN q, Mentions(q[i], c, d), \A j \in DOMAIN q : Mentions(q[j], c, d) => j <= i
        PROVE  i = k
    <3>1. i <= k /\ k <= i /\ i \in Nat /\ k \in Nat
      BY <2>2, <2>3
    <3> QED BY <3>1
  <2>4. d \in After(q, c, K) => q[k].kind # "ply_leave"
    BY <2>2, <2>3 DEF After
  <2>5. q[k].kind # "ply_leave" => d \in After(q, c, K)
    BY <2>2 DEF After
  <2> QED BY <2>2, <2>4, <2>5
<1> QED BY <1>1, <1>2

LEMMA AfterNone ==
    ASSUME NEW q \in Seq(Message), NEW c, NEW d \in Clients, NEW K,
           \A k \in DOMAIN q : ~ Mentions(q[k], c, d)
    PROVE  d \in After(q, c, K) <=> d \in K
BY DEF After

\* When all its messages say the same, it is what they say.
LEMMA AfterSame ==
    ASSUME NEW q \in Seq(Message), NEW c, NEW d \in Clients, NEW K,
           NEW k \in DOMAIN q, Mentions(q[k], c, d),
           NEW kind, \A j \in DOMAIN q : q[j].kind = kind
    PROVE  d \in After(q, c, K) <=> kind # "ply_leave"
BY AfterCases

LEMMA AfterEmpty == \A c, K : \A d \in Clients : d \in After(<<>>, c, K) <=> d \in K
<1>1. <<>> \in Seq(Message) /\ DOMAIN <<>> = {}
  OBVIOUS
<1> QED BY <1>1, AfterNone

LEMMA AfterAppend ==
    ASSUME NEW q \in Seq(Message), NEW m \in Message, NEW c, NEW d \in Clients, NEW K
    PROVE  /\ Mentions(m, c, d) => (d \in After(Append(q, m), c, K) <=> m.kind # "ply_leave")
           /\ ~ Mentions(m, c, d) => (d \in After(Append(q, m), c, K) <=> d \in After(q, c, K))
<1>1. PICK r \in Seq(Message), n \in Nat :
             /\ r = Append(q, m) /\ DOMAIN q = 1..n /\ DOMAIN r = 1..(n + 1)
             /\ \A k \in DOMAIN q : k \in DOMAIN r /\ r[k] = q[k]
             /\ r[n + 1] = m
  <2>1. /\ Append(q, m) \in Seq(Message) /\ Len(q) \in Nat
        /\ DOMAIN q = 1..Len(q) /\ DOMAIN Append(q, m) = 1..(Len(q) + 1)
        /\ \A k \in DOMAIN q : k \in DOMAIN Append(q, m) /\ Append(q, m)[k] = q[k]
        /\ Append(q, m)[Len(q) + 1] = m
    BY AppendShape
  <2> QED BY <2>1
<1>2. \/ /\ \A k \in DOMAIN r : ~ Mentions(r[k], c, d)
         /\ d \in After(r, c, K) <=> d \in K
      \/ \E k \in DOMAIN r : /\ Mentions(r[k], c, d)
                             /\ \A j \in DOMAIN r : Mentions(r[j], c, d) => j <= k
                             /\ d \in After(r, c, K) <=> r[k].kind # "ply_leave"
  BY AfterCases
<1>3. \/ /\ \A k \in DOMAIN q : ~ Mentions(q[k], c, d)
         /\ d \in After(q, c, K) <=> d \in K
      \/ \E k \in DOMAIN q : /\ Mentions(q[k], c, d)
                             /\ \A j \in DOMAIN q : Mentions(q[j], c, d) => j <= k
                             /\ d \in After(q, c, K) <=> q[k].kind # "ply_leave"
  BY AfterCases
<1>4. n + 1 \in DOMAIN r /\ \A k \in DOMAIN r : k \in Nat /\ (k <= n + 1) /\ (k = n + 1 \/ k \in DOMAIN q)
  BY <1>1
<1>5. ASSUME Mentions(m, c, d)
      PROVE  d \in After(r, c, K) <=> m.kind # "ply_leave"
  <2>1. PICK k \in DOMAIN r : /\ n + 1 <= k
                              /\ d \in After(r, c, K) <=> r[k].kind # "ply_leave"
    BY <1>1, <1>2, <1>4, <1>5
  <2>2. k = n + 1
    BY <1>4, <2>1
  <2> QED BY <1>1, <2>1, <2>2
<1>6. ASSUME ~ Mentions(m, c, d)
      PROVE  d \in After(r, c, K) <=> d \in After(q, c, K)
  <2>1. \A k \in DOMAIN r : Mentions(r[k], c, d) => k \in DOMAIN q /\ r[k] = q[k]
    BY <1>1, <1>4, <1>6
  <2>2. CASE \A k \in DOMAIN q : ~ Mentions(q[k], c, d)
    <3>1. \A k \in DOMAIN r : ~ Mentions(r[k], c, d)
      BY <2>1, <2>2
    <3> QED BY <1>2, <1>3, <2>2, <3>1
  <2>3. ASSUME NEW i \in DOMAIN q, Mentions(q[i], c, d) PROVE d \in After(r, c, K) <=> d \in After(q, c, K)
    <3>1. PICK k \in DOMAIN q : /\ Mentions(q[k], c, d)
                                /\ \A j \in DOMAIN q : Mentions(q[j], c, d) => j <= k
                                /\ d \in After(q, c, K) <=> q[k].kind # "ply_leave"
      BY <1>3, <2>3
    <3>2. PICK l \in DOMAIN r : /\ Mentions(r[l], c, d)
                                /\ \A j \in DOMAIN r : Mentions(r[j], c, d) => j <= l
                                /\ d \in After(r, c, K) <=> r[l].kind # "ply_leave"
      BY <1>1, <1>2, <2>3
    <3>3. k <= l /\ l <= k /\ l \in Nat /\ k \in Nat
      BY <1>1, <1>4, <2>1, <3>1, <3>2
    <3>4. k = l
      BY <3>3
    <3> QED BY <1>1, <3>1, <3>2, <3>4
  <2> QED BY <2>2, <2>3
<1> QED BY <1>1, <1>5, <1>6

\* Two sequences, one behind the other.
LEMMA ConcatShape ==
    ASSUME NEW S, NEW p \in Seq(S), NEW q \in Seq(S)
    PROVE  /\ p \o q \in Seq(S) /\ Len(p) \in Nat /\ Len(q) \in Nat
           /\ DOMAIN p = 1..Len(p) /\ DOMAIN q = 1..Len(q)
           /\ Len(p \o q) = Len(p) + Len(q) /\ DOMAIN (p \o q) = 1..(Len(p) + Len(q))
           /\ \A i \in 1..Len(p) : (p \o q)[i] = p[i]
           /\ \A i \in 1..Len(q) : (p \o q)[Len(p) + i] = q[i]
<1>1. Len(p) \in Nat /\ Len(q) \in Nat /\ DOMAIN p = 1..Len(p) /\ DOMAIN q = 1..Len(q)
  BY LenProperties
<1>2. /\ p \o q \in Seq(S) /\ Len(p \o q) = Len(p) + Len(q)
      /\ \A i \in 1..(Len(p) + Len(q)) :
            (p \o q)[i] = IF i <= Len(p) THEN p[i] ELSE q[i - Len(p)]
  BY ConcatProperties
<1>3. DOMAIN (p \o q) = 1..(Len(p) + Len(q))
  BY <1>2, LenProperties
<1>4. ASSUME NEW i \in 1..Len(p) PROVE (p \o q)[i] = p[i]
  <2>1. i \in 1..(Len(p) + Len(q)) /\ i <= Len(p)
    BY <1>1
  <2> QED BY <1>2, <2>1
<1>5. ASSUME NEW i \in 1..Len(q) PROVE (p \o q)[Len(p) + i] = q[i]
  <2>1. /\ Len(p) + i \in 1..(Len(p) + Len(q)) /\ ~ Len(p) + i <= Len(p)
        /\ (Len(p) + i) - Len(p) = i
    BY <1>1
  <2>2. (p \o q)[Len(p) + i] = q[(Len(p) + i) - Len(p)]
    BY <1>2, <2>1
  <2> QED BY <2>1, <2>2
<1> QED BY <1>1, <1>2, <1>3, <1>4, <1>5

\* An element less.
LEMMA RemoveShape ==
    ASSUME NEW S, NEW q \in Seq(S), NEW k \in DOMAIN q
    PROVE  /\ RemoveAt(q, k) \in Seq(S) /\ Len(q) \in Nat /\ DOMAIN q = 1..Len(q) /\ k \in 1..Len(q)
           /\ DOMAIN RemoveAt(q, k) = 1..(Len(q) - 1)
           /\ \A i \in 1..(k - 1) : RemoveAt(q, k)[i] = q[i]
           /\ \A i \in k..(Len(q) - 1) : RemoveAt(q, k)[i] = q[i + 1]
<1>1. Len(q) \in Nat /\ DOMAIN q = 1..Len(q) /\ k \in 1..Len(q)
  OBVIOUS
<1>2. PICK a \in Seq(S) : /\ a = SubSeq(q, 1, k - 1) /\ Len(a) = k - 1
                          /\ \A i \in 1..(k - 1) : a[i] = q[i]
  <2>1. /\ SubSeq(q, 1, k - 1) \in Seq(S) /\ Len(SubSeq(q, 1, k - 1)) = k - 1
        /\ \A i \in 1..(k - 1) : SubSeq(q, 1, k - 1)[i] = q[i]
    BY <1>1
  <2> QED BY <2>1
<1>3. PICK b \in Seq(S) : /\ b = SubSeq(q, k + 1, Len(q)) /\ Len(b) = Len(q) - k
                          /\ \A i \in 1..(Len(q) - k) : b[i] = q[k + i]
  <2>1. /\ SubSeq(q, k + 1, Len(q)) \in Seq(S) /\ Len(SubSeq(q, k + 1, Len(q))) = Len(q) - k
        /\ \A i \in 1..(Len(q) - k) : SubSeq(q, k + 1, Len(q))[i] = q[k + i]
    BY <1>1, SMTT(30)
  <2> QED BY <2>1
<1>4. RemoveAt(q, k) = a \o b
  BY <1>2, <1>3 DEF RemoveAt
<1>5. a \o b \in Seq(S) /\ DOMAIN (a \o b) = 1..(Len(q) - 1)
  <2>1. a \o b \in Seq(S) /\ Len(a \o b) = Len(a) + Len(b)
    BY ConcatProperties
  <2>2. Len(a) + Len(b) = Len(q) - 1
    <3>1. /\ Len(a) = k - 1 /\ Len(b) = Len(q) - k
          /\ k \in Nat /\ Len(q) \in Nat /\ Len(a) \in Nat /\ Len(b) \in Nat
      BY <1>1, <1>2, <1>3
    <3> QED BY <3>1
  <2> QED BY <2>1, <2>2
<1>6. ASSUME NEW i \in 1..(k - 1)
      PROVE  (a \o b)[i] = q[i]
  <2>1. i \in 1..Len(a)
    BY <1>2
  <2>2. (a \o b)[i] = a[i]
    BY <2>1, ConcatShape
  <2> QED BY <1>2, <2>2
<1>7. ASSUME NEW i \in k..(Len(q) - 1)
      PROVE  (a \o b)[i] = q[i + 1]
  <2>1. PICK j \in 1..(Len(q) - k) : i = (k - 1) + j /\ k + j = i + 1
    <3>1. i - (k - 1) \in 1..(Len(q) - k) /\ i = (k - 1) + (i - (k - 1)) /\ k + (i - (k - 1)) = i + 1
      BY <1>1
    <3> QED BY <3>1
  <2>2. j \in 1..Len(b) /\ i = Len(a) + j
    BY <1>2, <1>3, <2>1
  <2>3. (a \o b)[Len(a) + j] = b[j]
    BY <2>2, ConcatShape
  <2> QED BY <1>3, <2>1, <2>2, <2>3
<1> QED BY <1>1, <1>4, <1>5, <1>6, <1>7

\* r is q without its k-th element.
Less(r, q, k) ==
    /\ Len(q) \in Nat /\ DOMAIN q = 1..Len(q) /\ k \in 1..Len(q)
    /\ DOMAIN r = 1..(Len(q) - 1)
    /\ \A i \in 1..(k - 1) : r[i] = q[i]
    /\ \A i \in k..(Len(q) - 1) : r[i] = q[i + 1]

\* What Less says of the elements.
LEMMA LessShape ==
    ASSUME NEW r, NEW q, NEW k, Less(r, q, k)
    PROVE  /\ k \in DOMAIN q /\ \A i \in DOMAIN q : i \in Nat
           /\ \A i \in DOMAIN r : /\ i \in Nat
                                  /\ i < k => i \in DOMAIN q /\ r[i] = q[i]
                                  /\ k <= i => i + 1 \in DOMAIN q /\ r[i] = q[i + 1]
           /\ \A i \in DOMAIN q : /\ i < k => i \in DOMAIN r /\ r[i] = q[i]
                                  /\ k < i => i - 1 \in DOMAIN r /\ r[i - 1] = q[i]
<1>1. PICK n \in Nat : n = Len(q)
  BY DEF Less
<1>2. /\ DOMAIN q = 1..n /\ k \in 1..n /\ DOMAIN r = 1..(n - 1)
      /\ \A i \in 1..(k - 1) : r[i] = q[i]
      /\ \A i \in k..(n - 1) : r[i] = q[i + 1]
  BY <1>1 DEF Less
<1>3. ASSUME NEW i \in DOMAIN r
      PROVE  /\ i \in Nat /\ i < k => i \in DOMAIN q /\ r[i] = q[i]
             /\ k <= i => i + 1 \in DOMAIN q /\ r[i] = q[i + 1]
  BY <1>2
<1>4. ASSUME NEW i \in DOMAIN q
      PROVE  /\ i < k => i \in DOMAIN r /\ r[i] = q[i]
             /\ k < i => i - 1 \in DOMAIN r /\ r[i - 1] = q[i]
  <2>1. CASE i < k
    BY <1>2, <2>1
  <2>2. CASE k < i
    <3>1. i - 1 \in k..(n - 1) /\ (i - 1) + 1 = i /\ i - 1 \in 1..(n - 1) /\ ~ i < k
      BY <1>2, <2>2
    <3> QED BY <1>2, <3>1
  <2> QED BY <1>2, <2>1, <2>2
<1>5. (\A i \in DOMAIN q : i \in Nat) /\ (\A i \in DOMAIN r : i \in Nat)
  BY <1>2
<1> QED BY <1>2, <1>3, <1>4, <1>5

\* Two queues, one after the other: a message that is put, that goes from the
\* second to the first, and that leaves the first.
LEMMA ConcatPut ==
    ASSUME NEW S, NEW p \in Seq(S), NEW q \in Seq(S), NEW e \in S
    PROVE  p \o Append(q, e) = Append(p \o q, e)
<1>1. p \o q \in Seq(S) /\ <<e>> \in Seq(S)
  BY ConcatProperties
<1>2. Append(q, e) = q \o <<e>> /\ Append(p \o q, e) = (p \o q) \o <<e>>
  BY <1>1, AppendIsConcat
<1>3. (p \o q) \o <<e>> = p \o (q \o <<e>>)
  BY <1>1, ConcatAssociative
<1> QED BY <1>2, <1>3

LEMMA ConcatTake ==
    ASSUME NEW S, NEW p \in Seq(S), NEW q \in Seq(S), q # <<>>
    PROVE  Append(p, Head(q)) \o Tail(q) = p \o q
<1>1. PICK e \in S, t \in Seq(S) : /\ e = Head(q) /\ t = Tail(q) /\ Len(t) = Len(q) - 1
                                   /\ e = q[1] /\ \A i \in 1..Len(t) : t[i] = q[i + 1]
  <2>1. /\ Head(q) \in S /\ Tail(q) \in Seq(S) /\ Len(Tail(q)) = Len(q) - 1 /\ Head(q) = q[1]
        /\ \A i \in 1..Len(Tail(q)) : Tail(q)[i] = q[i + 1]
    BY HeadTailProperties
  <2> QED BY <2>1
<1>2. <<e>> \in Seq(S) /\ Append(p, e) = p \o <<e>>
  BY AppendIsConcat
<1>3. (p \o <<e>>) \o t = p \o (<<e>> \o t)
  BY <1>2, ConcatAssociative
<1>4. <<e>> \o t = q
  <2>1. Len(q) \in Nat \ {0} /\ Len(t) \in Nat /\ Len(<<e>>) = 1 /\ <<e>>[1] = e
    BY EmptySeq, LenProperties
  <2>2. /\ <<e>> \o t \in Seq(S) /\ Len(<<e>> \o t) = 1 + Len(t)
        /\ (<<e>> \o t)[1] = e
        /\ \A i \in 1..Len(t) : (<<e>> \o t)[1 + i] = t[i]
    <3>1. 1 \in 1..Len(<<e>>)
      BY <2>1
    <3> QED BY <1>2, <2>1, <3>1, ConcatShape
  <2>3. ASSUME NEW i \in 1..Len(q) PROVE (<<e>> \o t)[i] = q[i]
    <3>1. CASE i = 1
      BY <1>1, <2>2, <3>1
    <3>2. CASE i # 1
      <4>1. i - 1 \in 1..Len(t) /\ 1 + (i - 1) = i /\ (i - 1) + 1 = i
        BY <1>1, <2>1, <3>2
      <4> QED BY <1>1, <2>2, <4>1
    <3> QED BY <3>1, <3>2
  <2>4. Len(<<e>> \o t) = Len(q)
    BY <1>1, <2>1, <2>2
  <2>5. PICK x \in Seq(S) : x = <<e>> \o t
    BY <2>2
  <2>6. Len(x) = Len(q) /\ \A i \in 1..Len(x) : x[i] = q[i]
    BY <2>3, <2>4, <2>5
  <2>7. x = q
    BY <2>6, SeqEqual
  <2> QED BY <2>5, <2>7
<1> QED BY <1>1, <1>2, <1>3, <1>4

LEMMA ConcatLess ==
    ASSUME NEW S, NEW p \in Seq(S), NEW q \in Seq(S), NEW k \in DOMAIN p
    PROVE  /\ Less(RemoveAt(p, k) \o q, p \o q, k)
           /\ RemoveAt(p, k) \in Seq(S) /\ RemoveAt(p, k) \o q \in Seq(S)
           /\ \A j \in 1..k : j \in DOMAIN p /\ (p \o q)[j] = p[j]
<1>1. PICK r \in Seq(S), n \in Nat, l \in Nat :
          /\ r = RemoveAt(p, k) /\ n = Len(p) /\ l = Len(q)
          /\ k \in 1..n /\ DOMAIN p = 1..n /\ DOMAIN r = 1..(n - 1)
          /\ \A i \in 1..(k - 1) : r[i] = p[i]
          /\ \A i \in k..(n - 1) : r[i] = p[i + 1]
  <2>1. /\ RemoveAt(p, k) \in Seq(S) /\ Len(p) \in Nat /\ DOMAIN p = 1..Len(p) /\ k \in 1..Len(p)
        /\ DOMAIN RemoveAt(p, k) = 1..(Len(p) - 1)
        /\ \A i \in 1..(k - 1) : RemoveAt(p, k)[i] = p[i]
        /\ \A i \in k..(Len(p) - 1) : RemoveAt(p, k)[i] = p[i + 1]
    BY RemoveShape
  <2>2. Len(q) \in Nat
    BY LenProperties
  <2> QED BY <2>1, <2>2
<1>2. Len(r) = n - 1
  <2>1. Len(r) \in Nat /\ DOMAIN r = 1..Len(r) /\ n - 1 \in Nat
    BY <1>1, LenProperties
  <2> QED BY <1>1, <2>1
<1>3. PICK w \in Seq(S) : /\ w = p \o q /\ Len(w) = n + l /\ DOMAIN w = 1..(n + l)
                          /\ \A i \in 1..n : w[i] = p[i]
                          /\ \A i \in 1..l : w[n + i] = q[i]
  <2>1. /\ p \o q \in Seq(S) /\ Len(p \o q) = n + l /\ DOMAIN (p \o q) = 1..(n + l)
        /\ \A i \in 1..n : (p \o q)[i] = p[i]
        /\ \A i \in 1..l : (p \o q)[n + i] = q[i]
    BY <1>1, ConcatShape
  <2> QED BY <2>1
<1>4. PICK v \in Seq(S) : /\ v = r \o q /\ DOMAIN v = 1..((n - 1) + l)
                          /\ \A i \in 1..(n - 1) : v[i] = r[i]
                          /\ \A i \in 1..l : v[(n - 1) + i] = q[i]
  <2>1. /\ r \o q \in Seq(S) /\ DOMAIN (r \o q) = 1..((n - 1) + l)
        /\ \A i \in 1..(n - 1) : (r \o q)[i] = r[i]
        /\ \A i \in 1..l : (r \o q)[(n - 1) + i] = q[i]
    <3>1. /\ r \o q \in Seq(S) /\ DOMAIN (r \o q) = 1..(Len(r) + Len(q))
          /\ \A i \in 1..Len(r) : (r \o q)[i] = r[i]
          /\ \A i \in 1..Len(q) : (r \o q)[Len(r) + i] = q[i]
      BY ConcatShape
    <3> QED BY <1>1, <1>2, <3>1
  <2> QED BY <2>1
<1>5. (n - 1) + l = (n + l) - 1 /\ k \in 1..(n + l)
  BY <1>1
<1>6. ASSUME NEW i \in 1..(k - 1) PROVE v[i] = w[i]
  <2>1. i \in 1..(n - 1) /\ i \in 1..n
    BY <1>1
  <2> QED BY <1>1, <1>3, <1>4, <2>1
<1>7. ASSUME NEW i \in k..((n + l) - 1) PROVE v[i] = w[i + 1]
  <2>1. CASE i <= n - 1
    <3>1. i \in 1..(n - 1) /\ i \in k..(n - 1) /\ i + 1 \in 1..n
      BY <1>1, <2>1
    <3> QED BY <1>1, <1>3, <1>4, <3>1
  <2>2. CASE ~ i <= n - 1
    <3>1. PICK j \in 1..l : i = (n - 1) + j /\ i + 1 = n + j
      <4>1. i - (n - 1) \in 1..l /\ i = (n - 1) + (i - (n - 1)) /\ i + 1 = n + (i - (n - 1))
        BY <1>1, <2>2
      <4> QED BY <4>1
    <3> QED BY <1>3, <1>4, <3>1
  <2> QED BY <2>1, <2>2
<1>8. Less(v, w, k)
  BY <1>1, <1>3, <1>4, <1>5, <1>6, <1>7 DEF Less
<1>9. \A j \in 1..k : j \in DOMAIN p /\ w[j] = p[j]
  BY <1>1, <1>3
<1> QED BY <1>1, <1>3, <1>4, <1>8, <1>9

\* A message that arrives when no older one tells the same client of the same
\* other one: what it tells is learned first.
LEMMA AfterLess ==
    ASSUME NEW q \in Seq(Message), NEW r \in Seq(Message), NEW k, Less(r, q, k),
           NEW m, m = q[k], NEW c, NEW d \in Clients, NEW K, NEW L,
           Mentions(m, c, d) => /\ \A j \in DOMAIN q : Mentions(q[j], c, d) => k <= j
                                /\ d \in L <=> m.kind # "ply_leave",
           ~ Mentions(m, c, d) => (d \in L <=> d \in K)
    PROVE  d \in After(q, c, K) <=> d \in After(r, c, L)
<1>1. /\ k \in DOMAIN q /\ \A i \in DOMAIN q : i \in Nat
      /\ \A i \in DOMAIN r : /\ i \in Nat
                             /\ i < k => i \in DOMAIN q /\ r[i] = q[i]
                             /\ k <= i => i + 1 \in DOMAIN q /\ r[i] = q[i + 1]
      /\ \A i \in DOMAIN q : /\ i < k => i \in DOMAIN r /\ r[i] = q[i]
                             /\ k < i => i - 1 \in DOMAIN r /\ r[i - 1] = q[i]
  BY LessShape
<1>2. \/ /\ \A l \in DOMAIN r : ~ Mentions(r[l], c, d)
         /\ d \in After(r, c, L) <=> d \in L
      \/ \E l \in DOMAIN r : /\ Mentions(r[l], c, d)
                             /\ \A j \in DOMAIN r : Mentions(r[j], c, d) => j <= l
                             /\ d \in After(r, c, L) <=> r[l].kind # "ply_leave"
  BY AfterCases
<1>3. \/ /\ \A l \in DOMAIN q : ~ Mentions(q[l], c, d)
         /\ d \in After(q, c, K) <=> d \in K
      \/ \E l \in DOMAIN q : /\ Mentions(q[l], c, d)
                             /\ \A j \in DOMAIN q : Mentions(q[j], c, d) => j <= l
                             /\ d \in After(q, c, K) <=> q[l].kind # "ply_leave"
  BY AfterCases
<1>4. CASE \A l \in DOMAIN r : ~ Mentions(r[l], c, d)
  <2>1. d \in After(r, c, L) <=> d \in L
    BY <1>2, <1>4
  <2>2. ASSUME NEW l \in DOMAIN q, Mentions(q[l], c, d) PROVE l = k
    <3>1. ~ l < k /\ ~ k < l /\ l \in Nat /\ k \in Nat
      BY <1>1, <1>4, <2>2
    <3> QED BY <3>1
  <2>3. CASE Mentions(m, c, d)
    BY <1>1, <1>3, <2>1, <2>2, <2>3
  <2>4. CASE ~ Mentions(m, c, d)
    BY <1>1, <1>3, <2>1, <2>2, <2>4
  <2> QED BY <2>3, <2>4
<1>5. ASSUME NEW i \in DOMAIN r, Mentions(r[i], c, d)
      PROVE  d \in After(q, c, K) <=> d \in After(r, c, L)
  <2>1. PICK l \in DOMAIN r : /\ Mentions(r[l], c, d)
                              /\ \A j \in DOMAIN r : Mentions(r[j], c, d) => j <= l
                              /\ d \in After(r, c, L) <=> r[l].kind # "ply_leave"
    BY <1>2, <1>5
  <2>2. PICK g \in DOMAIN q : q[g] = r[l] /\ (l < k => g = l) /\ (k <= l => g = l + 1)
    <3>1. l \in Nat /\ k \in Nat
      BY <1>1
    <3>2. CASE l < k
      <4>1. l \in DOMAIN q /\ r[l] = q[l] /\ ~ k <= l
        BY <1>1, <3>1, <3>2
      <4> QED BY <4>1
    <3>3. CASE k <= l
      <4>1. l + 1 \in DOMAIN q /\ r[l] = q[l + 1] /\ ~ l < k
        BY <1>1, <3>1, <3>3
      <4> QED BY <4>1
    <3> QED BY <3>1, <3>2, <3>3
  <2>3. PICK h \in DOMAIN q : /\ Mentions(q[h], c, d)
                              /\ \A j \in DOMAIN q : Mentions(q[j], c, d) => j <= h
                              /\ d \in After(q, c, K) <=> q[h].kind # "ply_leave"
    BY <1>3, <2>1, <2>2
  <2>4. g <= h /\ g \in Nat /\ h \in Nat /\ k \in Nat /\ l \in Nat
    BY <1>1, <2>1, <2>2, <2>3
  <2>5. CASE h < k
    <3>1. h \in DOMAIN r /\ r[h] = q[h]
      BY <1>1, <2>5
    <3>2. h <= l
      BY <2>1, <2>3, <3>1
    <3>3. h = l
      BY <2>2, <2>4, <2>5, <3>2
    <3> QED BY <2>1, <2>3, <3>1, <3>3
  <2>6. CASE k < h
    <3>1. h - 1 \in DOMAIN r /\ r[h - 1] = q[h]
      BY <1>1, <2>6
    <3>2. h - 1 <= l
      BY <2>1, <2>3, <3>1
    <3>3. h - 1 = l
      BY <2>2, <2>4, <2>6, <3>2
    <3> QED BY <2>1, <2>3, <3>1, <3>3
  <2>7. h # k
    <3> SUFFICES ASSUME h = k PROVE FALSE
      OBVIOUS
    <3>1. Mentions(m, c, d) /\ Mentions(q[g], c, d)
      BY <2>1, <2>2, <2>3
    <3>2. k <= g /\ g <= k
      BY <2>4, <3>1
    <3> QED BY <2>2, <2>4, <3>2
  <2> QED BY <2>4, <2>5, <2>6, <2>7
<1> QED BY <1>4, <1>5

\* The oldest message is learned first.
LEMMA AfterTail ==
    ASSUME NEW q \in Seq(Message), q # <<>>, NEW c, NEW d \in Clients, NEW K, NEW L,
           Mentions(Head(q), c, d) => (d \in L <=> Head(q).kind # "ply_leave"),
           ~ Mentions(Head(q), c, d) => (d \in L <=> d \in K)
    PROVE  d \in After(q, c, K) <=> d \in After(Tail(q), c, L)
<1>1. PICK r, m : r = Tail(q) /\ m = Head(q)
  OBVIOUS
<1>2. /\ r \in Seq(Message) /\ m = q[1]
      /\ Len(q) \in Nat \ {0} /\ DOMAIN q = 1..Len(q) /\ DOMAIN r = 1..(Len(q) - 1)
      /\ \A i \in DOMAIN r : r[i] = q[i + 1]
  BY <1>1, TailShape
<1>3. Less(r, q, 1) /\ \A j \in DOMAIN q : 1 <= j
  BY <1>2 DEF Less
<1>4. /\ Mentions(m, c, d) => /\ \A j \in DOMAIN q : Mentions(q[j], c, d) => 1 <= j
                              /\ d \in L <=> m.kind # "ply_leave"
      /\ ~ Mentions(m, c, d) => (d \in L <=> d \in K)
  BY <1>1, <1>3
<1>5. d \in After(q, c, K) <=> d \in After(r, c, L)
  BY <1>2, <1>3, <1>4, AfterLess
<1> QED BY <1>1, <1>5

\* It only depends on the clients that were known before.
LEMMA AfterOf ==
    ASSUME NEW q, NEW c, NEW d \in Clients, NEW K, NEW L, d \in K <=> d \in L
    PROVE  d \in After(q, c, K) <=> d \in After(q, c, L)
BY DEF After
-----------------------------------------------------------------------------
(* The list of players                                                     *)

\* A message for each of some players.
LEMMA ToEachShape ==
    ASSUME NEW ps \in Seq(PlayerType), NEW kind, NEW what,
           \A c \in Clients : Msg(c, kind, what) \in Message
    PROVE  /\ ToEach(ps, kind, what) \in Seq(Message)
           /\ DOMAIN ToEach(ps, kind, what) = DOMAIN ps
           /\ \A k \in DOMAIN ps : /\ ToEach(ps, kind, what)[k].to = ps[k].link
                                   /\ ToEach(ps, kind, what)[k].kind = kind
                                   /\ ToEach(ps, kind, what)[k].what = what
<1> DEFINE q == ToEach(ps, kind, what)
<1>0. \A k \in DOMAIN ps : ps[k] \in PlayerType
  OBVIOUS
<1>1. Len(ps) \in Nat /\ DOMAIN ps = 1..Len(ps) /\ \A k \in DOMAIN ps : ps[k].link \in Clients
  BY <1>0 DEF PlayerType
<1>2. q = [k \in 1..Len(ps) |-> Msg(ps[k].link, kind, what)]
  BY <1>1 DEF ToEach
<1>3. \A k \in 1..Len(ps) : Msg(ps[k].link, kind, what) \in Message
  BY <1>1
<1>4. q \in Seq(Message)
  BY <1>1, <1>2, <1>3, IsASeq
<1>5. \A k \in DOMAIN ps : q[k] = Msg(ps[k].link, kind, what)
  BY <1>1, <1>2
<1> QED BY <1>1, <1>2, <1>4, <1>5 DEF Msg

\* All but one of them.
LEMMA OthersShape ==
    ASSUME Types, \A j, k \in DOMAIN players : players[j].link = players[k].link => j = k, NEW c
    PROVE  /\ Others(c) \in Seq(PlayerType)
           /\ \A j \in DOMAIN Others(c) : \E k \in DOMAIN players :
                 players[k] = Others(c)[j] /\ players[k].link # c
           /\ \A k \in DOMAIN players : players[k].link # c =>
                 \E j \in DOMAIN Others(c) : Others(c)[j] = players[k]
           /\ \A i, j \in DOMAIN Others(c) : Others(c)[i].link = Others(c)[j].link => i = j
<1> DEFINE I == {k \in 1..Len(players) : players[k].link = c}
           i0 == IF I # {} THEN Min(I) ELSE 0
<1>0. players \in Seq(PlayerType) /\ Len(players) \in Nat /\ DOMAIN players = 1..Len(players)
  BY DEF Types
<1>1. Others(c) = IF i0 = 0 THEN players ELSE RemoveAt(players, i0)
  BY DEF Others, SelectInSeq
<1>2. CASE I = {}
  <2>1. Others(c) = players /\ \A k \in DOMAIN players : players[k].link # c
    BY <1>0, <1>1, <1>2
  <2> QED BY <2>1 DEF Types
<1>3. CASE I # {}
  <2>1. PICK a \in DOMAIN players : players[a].link = c
    BY <1>0, <1>3
  <2>2. \A x \in I : x = a
    BY <1>0, <2>1
  <2>3. I = {a}
    BY <1>0, <2>1, <2>2
  <2>4. i0 = a /\ a # 0
    BY <1>0, <2>1, <2>3 DEF Min
  <2> HIDE DEF i0, I
  <2>5. Others(c) = RemoveAt(players, a)
    BY <1>1, <2>4
  <2>6. /\ RemoveAt(players, a) \in Seq(PlayerType)
        /\ DOMAIN RemoveAt(players, a) = 1..(Len(players) - 1)
        /\ \A i \in 1..(a - 1) : RemoveAt(players, a)[i] = players[i]
        /\ \A i \in a..(Len(players) - 1) : RemoveAt(players, a)[i] = players[i + 1]
    BY <1>0, <2>1, RemoveShape
  <2>7. PICK r \in Seq(PlayerType), ps \in Seq(PlayerType), n \in Nat :
                /\ r = Others(c) /\ ps = players /\ n = Len(players)
                /\ DOMAIN ps = 1..n /\ DOMAIN r = 1..(n - 1)
                /\ \A i \in 1..(a - 1) : r[i] = ps[i]
                /\ \A i \in a..(n - 1) : r[i] = ps[i + 1]
    <3>1. Others(c) \in Seq(PlayerType) /\ DOMAIN Others(c) = 1..(Len(players) - 1)
      BY <2>5, <2>6
    <3>2. /\ \A i \in 1..(a - 1) : Others(c)[i] = players[i]
          /\ \A i \in a..(Len(players) - 1) : Others(c)[i] = players[i + 1]
      BY <2>5, <2>6
    <3> HIDE DEF Others
    <3> QED BY <1>0, <3>1, <3>2
  <2>8. a \in 1..n /\ \A k \in 1..n : ps[k].link = c => k = a
    BY <2>1, <2>7
  <2>11. \A j \in DOMAIN r : \E k \in 1..n : k # a /\ r[j] = ps[k] /\ (k = j \/ k = j + 1) /\ (k = j <=> j < a)
    <3> SUFFICES ASSUME NEW j \in DOMAIN r
                 PROVE  \E k \in 1..n : k # a /\ r[j] = ps[k] /\ (k = j \/ k = j + 1) /\ (k = j <=> j < a)
      OBVIOUS
    <3>1. j \in 1..(n - 1) /\ (j \in 1..(a - 1) \/ j \in a..(n - 1))
      BY <2>7, <2>8
    <3>2. CASE j \in 1..(a - 1)
      <4>1. j \in 1..n /\ j # a /\ j < a /\ r[j] = ps[j]
        BY <2>7, <2>8, <3>1, <3>2
      <4> QED BY <4>1
    <3>3. CASE j \in a..(n - 1)
      <4>1. j + 1 \in 1..n /\ j + 1 # a /\ ~ j < a /\ j + 1 # j /\ r[j] = ps[j + 1]
        BY <2>7, <2>8, <3>1, <3>3
      <4> QED BY <4>1
    <3> QED BY <3>1, <3>2, <3>3
  <2>12. \A j \in DOMAIN r : \E k \in DOMAIN players : players[k] = r[j] /\ players[k].link # c
    BY <2>7, <2>8, <2>11
  <2>13. \A k \in DOMAIN players : players[k].link # c => \E j \in DOMAIN r : r[j] = players[k]
    <3> SUFFICES ASSUME NEW k \in 1..n, k # a PROVE \E j \in DOMAIN r : r[j] = ps[k]
      BY <2>1, <2>7
    <3>1. CASE k < a
      BY <2>7, <2>8, <3>1
    <3>2. CASE ~ k < a
      <4>1. k - 1 \in a..(n - 1) /\ (k - 1) + 1 = k
        BY <2>7, <2>8, <3>2
      <4> QED BY <2>7, <4>1
    <3> QED BY <3>1, <3>2
  <2>14. ASSUME NEW i \in DOMAIN r, NEW j \in DOMAIN r, r[i].link = r[j].link PROVE i = j
    <3>1. PICK k \in 1..n : r[i] = ps[k] /\ (k = i \/ k = i + 1) /\ (k = i <=> i < a)
      BY <2>11
    <3>2. PICK l \in 1..n : r[j] = ps[l] /\ (l = j \/ l = j + 1) /\ (l = j <=> j < a)
      BY <2>11
    <3>3. k = l
      BY <2>7, <2>14, <3>1, <3>2, SMTT(30)
    <3>4. i \in Nat /\ j \in Nat
      BY <2>7
    <3> QED BY <2>8, <3>1, <3>2, <3>3, <3>4
  <2> QED BY <2>7, <2>12, <2>13, <2>14
<1> QED BY <1>2, <1>3

LEMMA PlayerIs ==
    ASSUME Types, \A j, k \in DOMAIN players : players[j].link = players[k].link => j = k
    PROVE  /\ \A k \in DOMAIN players : /\ players[k] \in PlayerType /\ IsPlayer(players[k].link)
                                        /\ Player(players[k].link) = players[k]
           /\ \A c : IsPlayer(c) =>
                /\ \E k \in DOMAIN players : players[k].link = c /\ Player(c) = players[k]
                /\ c \in Clients
<1>1. \A k \in DOMAIN players : players[k] \in PlayerType
  BY DEF Types
<1>2. ASSUME NEW k \in DOMAIN players
      PROVE  Player(players[k].link) = players[k]
  <2>1. players[k] \in Range(players)
    BY DEF Range
  <2>2. \A p \in Range(players) : p.link = players[k].link => p = players[k]
    BY DEF Range
  <2> QED BY <2>1, <2>2 DEF Player
<1>3. ASSUME NEW c, IsPlayer(c)
      PROVE  c \in Clients /\ \E k \in DOMAIN players : players[k].link = c /\ Player(c) = players[k]
  <2>1. PICK k \in DOMAIN players : players[k].link = c
    BY <1>3 DEF IsPlayer
  <2> QED BY <1>1, <1>2, <2>1 DEF PlayerType
<1> QED BY <1>1, <1>2, <1>3 DEF IsPlayer

LEMMA MsgIs ==
    ASSUME NEW c \in Clients,
           NEW kind \in {"link_connected", "client_list", "new_user_online",
                         "ply_leave", "transform", "global"},
           NEW what \in SUBSET (Clients \union {NoSeat} \union (Clients \X Positions))
    PROVE  /\ Msg(c, kind, what) \in Message
           /\ Msg(c, kind, what).to = c /\ Msg(c, kind, what).kind = kind /\ Msg(c, kind, what).what = what
BY DEF Msg, Message

\* A handler goes on to its next place.
LEMMA GoesShape ==
    ASSUME Types, NEW t \in Threads, NEW at, NEW who, NEW ms, Goes(t, at, who, ms)
    PROVE  /\ todo[t] = <<>> /\ todo'[t] = ms
           /\ pc'[t] = [at |-> at, who |-> who] /\ pc'[t].at = at /\ pc'[t].who = who
           /\ \A s \in Threads : s # t => todo'[s] = todo[s] /\ pc'[s] = pc[s]
           /\ ms \in Seq(Message) => todo' \in [Threads -> Seq(Message)]
           /\ [at |-> at, who |-> who] \in Place => pc' \in [Threads -> Place]
<1>1. /\ todo[t] = <<>> /\ pc' = [pc EXCEPT ![t] = [at |-> at, who |-> who]]
      /\ todo' = [todo EXCEPT ![t] = ms]
  BY DEF Goes
<1>2. pc \in [Threads -> Place] /\ todo \in [Threads -> Seq(Message)]
  BY DEF Types
<1>3. /\ todo'[t] = ms /\ pc'[t] = [at |-> at, who |-> who]
      /\ \A s \in Threads : s # t => todo'[s] = todo[s] /\ pc'[s] = pc[s]
  BY <1>1, <1>2
<1>4. ms \in Seq(Message) => todo' \in [Threads -> Seq(Message)]
  BY <1>1, <1>2
<1>5. [at |-> at, who |-> who] \in Place => pc' \in [Threads -> Place]
  BY <1>1, <1>2
<1> QED BY <1>1, <1>3, <1>4, <1>5

LEMMA ReturnsShape ==
    ASSUME Types, NEW t \in Threads, NEW ms, Returns(t, ms)
    PROVE  Goes(t, "idle", NoSeat, ms) /\ pc'[t] = Idle
BY GoesShape DEF Returns, Idle

\* An event is handled.
LEMMA HandlesShape ==
    ASSUME Types, NEW kind, Handles(kind)
    PROVE  /\ pc["app"] = Idle /\ pc["app"].at = "idle" /\ events # <<>>
           /\ 1 \in DOMAIN events /\ First = events[1] /\ First \in EventType
           /\ First.kind = kind /\ First.who \in Clients /\ First.pos \in Positions
           /\ events' \in Seq(EventType)
           /\ \A k \in DOMAIN events' : k + 1 \in DOMAIN events /\ events'[k] = events[k + 1]
           /\ \A k \in DOMAIN events : k = 1 \/ (k - 1 \in DOMAIN events' /\ events'[k - 1] = events[k])
<1>1. pc["app"] = Idle /\ events # <<>> /\ First.kind = kind /\ events' = Tail(events)
  BY DEF Handles
<1>2. events \in Seq(EventType)
  BY DEF Types
<1>3. /\ 1 \in DOMAIN events /\ First = events[1] /\ First \in EventType
      /\ events' \in Seq(EventType)
      /\ \A k \in DOMAIN events' : k + 1 \in DOMAIN events /\ events'[k] = events[k + 1]
      /\ \A k \in DOMAIN events : k = 1 \/ (k - 1 \in DOMAIN events' /\ events'[k - 1] = events[k])
  BY <1>1, <1>2, TailShape DEF First
<1>4. First.who \in Clients /\ First.pos \in Positions
  BY <1>3 DEF EventType
<1> QED BY <1>1, <1>3, <1>4 DEF Idle

\* What a put does to the queue and to those who wait.
LEMMA NotifyTypes ==
    ASSUME Types
    PROVE  \A p \in Q!NotifyOne(putPc) : p \in [Threads -> {"out", "wait", "woken"}]
BY DEF Types, Q!NotifyOne, Q!In

LEMMA WayShape == Types => Way \in Seq(Message)
BY ConcatProperties DEF Types, Way

LEMMA SendShape ==
    ASSUME Types, NEW t \in Threads, Send(t)
    PROVE  /\ todo[t] # <<>> /\ Head(todo[t]) \in Message
           /\ putPc' \in [Threads -> {"out", "wait", "woken"}] /\ m_queue' \in Seq(Message)
           /\ UNCHANGED <<clientVars, events, players, m_Mutex, pc, buffer, taken, overtaken,
                          centerVars>>
           /\ \/ UNCHANGED <<Way, todo>>
              \/ /\ Way' = Append(Way, Head(todo[t]))
                 /\ todo'[t] = Tail(todo[t])
                 /\ \A s \in Threads : s # t => todo'[s] = todo[s]
                 /\ todo' \in [Threads -> Seq(Message)]
<1>1. /\ todo[t] # <<>> /\ Q!Put(t, Head(todo[t]))
      /\ todo' = IF putPc'[t] = "wait" THEN todo ELSE [todo EXCEPT ![t] = Tail(@)]
      /\ UNCHANGED <<clientVars, events, players, m_Mutex, pc, buffer, taken, overtaken, centerVars>>
  BY DEF Send
<1>2. /\ todo \in [Threads -> Seq(Message)] /\ putPc \in [Threads -> {"out", "wait", "woken"}]
      /\ m_queue \in Seq(Message) /\ taken \in Seq(Message)
  BY DEF Types
<1>3. Head(todo[t]) \in Message /\ Tail(todo[t]) \in Seq(Message)
  BY <1>1, <1>2, TailShape
<1>4. \/ putPc' = [putPc EXCEPT ![t] = "wait"] /\ UNCHANGED m_queue
      \/ putPc' = [putPc EXCEPT ![t] = "out"] /\ m_queue' = Append(m_queue, Head(todo[t]))
  BY <1>1 DEF Q!Put
<1>5. CASE putPc' = [putPc EXCEPT ![t] = "wait"] /\ UNCHANGED m_queue
  <2>1. putPc'[t] = "wait" /\ putPc' \in [Threads -> {"out", "wait", "woken"}]
    BY <1>2, <1>5
  <2>2. UNCHANGED Way
    BY <1>1, <1>5 DEF Way
  <2> QED BY <1>1, <1>2, <1>3, <1>5, <2>1, <2>2
<1>6. CASE putPc' = [putPc EXCEPT ![t] = "out"] /\ m_queue' = Append(m_queue, Head(todo[t]))
  <2>1. putPc'[t] = "out" /\ putPc' \in [Threads -> {"out", "wait", "woken"}]
    BY <1>2, <1>6
  <2>2. todo' = [todo EXCEPT ![t] = Tail(todo[t])]
    BY <1>1, <2>1
  <2>3. /\ todo'[t] = Tail(todo[t]) /\ todo' \in [Threads -> Seq(Message)]
        /\ \A s \in Threads : s # t => todo'[s] = todo[s]
    BY <1>2, <1>3, <2>2
  <2>4. m_queue' \in Seq(Message)
    BY <1>2, <1>3, <1>6, AppendProperties
  <2>5. Way' = Append(Way, Head(todo[t]))
    <3>1. taken \o Append(m_queue, Head(todo[t])) = Append(taken \o m_queue, Head(todo[t]))
      BY <1>2, <1>3, ConcatPut
    <3> QED BY <1>1, <1>6, <3>1 DEF Way
  <2> QED BY <1>1, <1>3, <2>1, <2>3, <2>4, <2>5
<1> QED BY <1>4, <1>5, <1>6

\* A sender takes the oldest message of the queue: it stays on its way.
LEMMA TakeShape ==
    ASSUME Types, TakeMessage
    PROVE  /\ m_queue' \in Seq(Message) /\ taken' \in Seq(Message)
           /\ putPc' \in [Threads -> {"out", "wait", "woken"}]
           /\ UNCHANGED <<Way, clientVars, events, appVars, buffer, overtaken, centerVars>>
<1>1. /\ m_queue # <<>> /\ Q!Poll(Len(taken) + 1) /\ taken' = Append(taken, Head(m_queue))
      /\ UNCHANGED <<clientVars, events, appVars, buffer, overtaken, centerVars>>
  BY DEF TakeMessage
<1>2. m_queue' = Tail(m_queue) /\ putPc' \in Q!NotifyOne(putPc)
  BY <1>1 DEF Q!Poll, Q!_isEmpty
<1>3. m_queue \in Seq(Message) /\ taken \in Seq(Message)
  BY DEF Types
<1>4. Head(m_queue) \in Message /\ Tail(m_queue) \in Seq(Message)
  BY <1>1, <1>3, TailShape
<1>5. Append(taken, Head(m_queue)) \in Seq(Message)
  BY <1>3, <1>4, AppendProperties
<1>6. Way' = Way
  <2>1. Append(taken, Head(m_queue)) \o Tail(m_queue) = taken \o m_queue
    BY <1>1, <1>3, ConcatTake
  <2> QED BY <1>1, <1>2, <2>1 DEF Way
<1> QED BY <1>1, <1>2, <1>4, <1>5, <1>6, NotifyTypes

\* A sender sends what it took: that is no longer on its way.  If an older
\* message tells the same client of the same other one, that is noted.
LEMMA DoSendShape ==
    ASSUME Types, NEW k, DoSend(k)
    PROVE  /\ k \in DOMAIN Way /\ Way[k] \in Message /\ Way[k].to \in Clients
           /\ Less(Way', Way, k) /\ Way' \in Seq(Message) /\ taken' \in Seq(Message)
           /\ \A i \in DOMAIN Way' : \E j \in DOMAIN Way : Way'[i] = Way[j]
           /\ overtaken \subseteq overtaken' /\ overtaken' \subseteq Clients \X Clients
           /\ \A c, d \in Clients :
                 c # d /\ <<c, d>> \notin overtaken' /\ Mentions(Way[k], c, d) =>
                    \A j \in DOMAIN Way : Mentions(Way[j], c, d) => k <= j
           /\ IF Here(Way[k].to) THEN Receive(Way[k]) ELSE UNCHANGED <<life, known, seen, events>>
           /\ UNCHANGED <<moves, acts, appVars, buffer, m_queue, putPc, centerVars>>
<1>1. taken \in Seq(Message) /\ m_queue \in Seq(Message) /\ k \in DOMAIN taken
  BY DEF Types, DoSend
<1>2. /\ k \in 1..Len(taken) /\ k \in 1..k
      /\ Less(RemoveAt(taken, k) \o m_queue, taken \o m_queue, k)
      /\ RemoveAt(taken, k) \in Seq(Message) /\ RemoveAt(taken, k) \o m_queue \in Seq(Message)
      /\ \A j \in 1..k : j \in DOMAIN taken /\ (taken \o m_queue)[j] = taken[j]
  BY <1>1, ConcatLess
<1>3. PICK m \in Message : m = taken[k] /\ m = Way[k] /\ m.to \in Clients
  <2>1. taken[k] \in Message /\ Way[k] = taken[k]
    BY <1>1, <1>2 DEF Way
  <2> QED BY <2>1 DEF Message
<1>4. /\ taken' = RemoveAt(taken, k)
      /\ overtaken' = overtaken \union
              {<<m.to, d>> : d \in {d \in Clients \ {m.to} :
                  Mentions(m, m.to, d)
                  /\ \E o \in {taken[j] : j \in 1 .. k - 1} : Mentions(o, m.to, d)}}
      /\ IF Here(m.to) THEN Receive(m) ELSE UNCHANGED <<life, known, seen, events>>
      /\ UNCHANGED <<moves, acts, appVars, buffer, m_queue, putPc, centerVars>>
  BY <1>3 DEF DoSend
<1>5. Less(Way', Way, k) /\ Way' \in Seq(Message)
  <2>1. Way' = RemoveAt(taken, k) \o m_queue
    BY <1>4 DEF Way
  <2> QED BY <1>2, <2>1 DEF Way
<1>6. /\ k \in DOMAIN Way /\ \A i \in DOMAIN Way : i \in Nat
      /\ \A i \in DOMAIN Way' : \E j \in DOMAIN Way : Way'[i] = Way[j]
  <2>1. /\ k \in DOMAIN Way /\ \A i \in DOMAIN Way : i \in Nat
        /\ \A i \in DOMAIN Way' : /\ i \in Nat
                                  /\ i < k => i \in DOMAIN Way /\ Way'[i] = Way[i]
                                  /\ k <= i => i + 1 \in DOMAIN Way /\ Way'[i] = Way[i + 1]
    BY <1>5, LessShape
  <2>2. k \in Nat
    BY <2>1
  <2>3. \A i \in DOMAIN Way' : i < k \/ k <= i
    BY <2>1, <2>2
  <2> QED BY <2>1, <2>3
<1>7. overtaken \subseteq overtaken' /\ overtaken' \subseteq Clients \X Clients
  BY <1>3, <1>4 DEF Types
<1>8. ASSUME NEW c \in Clients, NEW d \in Clients, c # d, <<c, d>> \notin overtaken',
             Mentions(m, c, d), NEW j \in DOMAIN Way, Mentions(Way[j], c, d)
      PROVE  k <= j
  <2>1. m.to = c
    BY <1>8 DEF Mentions
  <2>2. ASSUME j < k PROVE FALSE
    <3>1. j \in 1 .. k - 1 /\ j \in 1 .. k
      BY <1>2, <1>6, <2>2 DEF Less, Way
    <3>2. Way[j] = taken[j]
      BY <1>2, <3>1 DEF Way
    <3>3. d \in {e \in Clients \ {m.to} :
                  Mentions(m, m.to, e)
                  /\ \E o \in {taken[i] : i \in 1 .. k - 1} : Mentions(o, m.to, e)}
      BY <1>8, <2>1, <3>1, <3>2
    <3>4. <<c, d>> \in overtaken'
      BY <1>4, <2>1, <3>3
    <3> QED BY <1>8, <3>4
  <2>3. j \in Nat /\ k \in Nat
    BY <1>6
  <2> QED BY <2>2, <2>3
<1> QED BY <1>2, <1>3, <1>4, <1>5, <1>6, <1>7, <1>8

LEMMA SpuriousShape ==
    ASSUME Types, SpuriousWakeup
    PROVE  /\ putPc' \in [Threads -> {"out", "wait", "woken"}]
           /\ UNCHANGED <<Way, m_queue, taken, overtaken, clientVars, events, appVars, buffer,
                          centerVars>>
<1>1. Q!In(<<>>, "wait") = {}
  BY DEF Q!In
<1>2. \E t \in Q!In(putPc, "wait") : putPc' = [putPc EXCEPT ![t] = "woken"] /\ UNCHANGED m_queue
  BY <1>1 DEF SpuriousWakeup, Q!SpuriousWakeup
<1> QED BY <1>2 DEF Types, SpuriousWakeup, Way

\* What a client makes of a message.
LEMMA ReceiveShape ==
    ASSUME Types, NEW m \in Message, Receive(m)
    PROVE  /\ m.to \in Clients
           /\ known' \in [Clients -> SUBSET (Clients \union {NoSeat} \union (Clients \X Positions))]
           /\ \A c \in Clients : c # m.to => known'[c] = known[c] /\ life'[c] = life[c]
           /\ known'[m.to] = IF m.kind \in {"client_list", "new_user_online"}
                             THEN known[m.to] \union m.what
                             ELSE IF m.kind = "ply_leave" THEN known[m.to] \ m.what
                             ELSE known[m.to]
           /\ life' \in [Clients -> {"new", "up", "in", "gone"}]
           /\ life'[m.to] = IF m.kind = "link_connected" THEN "in" ELSE life[m.to]
           /\ events' = IF m.kind = "link_connected"
                        THEN Append(events, [kind |-> "user_info", who |-> m.to, pos |-> 0])
                        ELSE events
<1>1. /\ m.to \in Clients
      /\ m.what \in SUBSET (Clients \union {NoSeat} \union (Clients \X Positions))
  BY DEF Message
<1>2. /\ known' = [known EXCEPT ![m.to] =
                        IF m.kind \in {"client_list", "new_user_online"} THEN known[m.to] \union m.what
                        ELSE IF m.kind = "ply_leave" THEN known[m.to] \ m.what
                        ELSE known[m.to]]
      /\ life' = IF m.kind = "link_connected" THEN [life EXCEPT ![m.to] = "in"] ELSE life
      /\ events' = IF m.kind = "link_connected"
                   THEN Append(events, [kind |-> "user_info", who |-> m.to, pos |-> 0])
                   ELSE events
  BY DEF Receive
<1>3. /\ known \in [Clients -> SUBSET (Clients \union {NoSeat} \union (Clients \X Positions))]
      /\ life \in [Clients -> {"new", "up", "in", "gone"}]
  BY DEF Types
<1>4. PICK K \in SUBSET (Clients \union {NoSeat} \union (Clients \X Positions)) :
            K = IF m.kind \in {"client_list", "new_user_online"} THEN known[m.to] \union m.what
                ELSE IF m.kind = "ply_leave" THEN known[m.to] \ m.what
                ELSE known[m.to]
  <2>1. known[m.to] \in SUBSET (Clients \union {NoSeat} \union (Clients \X Positions))
    BY <1>1, <1>3
  <2> QED BY <1>1, <2>1
<1>5. known' = [known EXCEPT ![m.to] = K]
  BY <1>2, <1>4
<1>6. /\ known' \in [Clients -> SUBSET (Clients \union {NoSeat} \union (Clients \X Positions))]
      /\ known'[m.to] = K /\ \A c \in Clients : c # m.to => known'[c] = known[c]
  BY <1>1, <1>3, <1>5
<1>7. /\ life' \in [Clients -> {"new", "up", "in", "gone"}]
      /\ life'[m.to] = IF m.kind = "link_connected" THEN "in" ELSE life[m.to]
      /\ \A c \in Clients : c # m.to => life'[c] = life[c]
  BY <1>1, <1>2, <1>3
<1> QED BY <1>1, <1>2, <1>4, <1>6, <1>7

\* What a client does.
LEMMA ClientShape ==
    ASSUME Types, NEW c \in Clients, ClientActs(c)
    PROVE  /\ UNCHANGED <<known, appVars, buffer, sendVars>>
           /\ \E kind \in {"link_connected", "link_disconnected", "transform",
                           "seen_external", "stop_seen_external", "global_transform"} :
                \E n \in Positions :
                  /\ events' = Append(events, [kind |-> kind, who |-> c, pos |-> n])
                  /\ kind = "link_connected" => life[c] = "new" /\ life'[c] = "up"
                  /\ kind = "link_disconnected" => life[c] \in {"up", "in"} /\ life'[c] = "gone"
                  /\ kind \notin {"link_connected", "link_disconnected"} =>
                        life[c] = "in" /\ life'[c] = "in"
                  /\ kind = "seen_external" => c \in External
           /\ \A d \in Clients : d # c => life'[d] = life[d]
           /\ life' \in [Clients -> {"new", "up", "in", "gone"}]
           /\ acts' \in Positions /\ moves' \in [Clients -> Positions]
           /\ \A d \in Clients : moves'[d] <= acts'
<1>0. /\ life \in [Clients -> {"new", "up", "in", "gone"}]
      /\ acts \in Positions /\ moves \in [Clients -> Positions] /\ \A d \in Clients : moves[d] <= acts
      /\ MaxActs \in Nat /\ 0 \in Positions
  BY SceneAssumption DEF Types, Positions
<1>1. CASE Connect(c)
  <2>1. /\ life[c] = "new" /\ life' = [life EXCEPT ![c] = "up"] /\ UNCHANGED <<moves, acts>>
        /\ events' = Append(events, [kind |-> "link_connected", who |-> c, pos |-> 0])
        /\ UNCHANGED <<known, appVars, buffer, sendVars>>
    BY <1>1 DEF Connect, Tells, ClientRest
  <2> QED BY <1>0, <2>1
<1>2. CASE HangUp(c)
  <2>1. /\ life[c] \in {"up", "in"} /\ life' = [life EXCEPT ![c] = "gone"] /\ moves' = moves
        /\ acts < MaxActs /\ acts' = acts + 1
        /\ events' = Append(events, [kind |-> "link_disconnected", who |-> c, pos |-> 0])
        /\ UNCHANGED <<known, appVars, buffer, sendVars>>
    BY <1>2 DEF HangUp, Acts, Here, Tells, ClientRest
  <2>2. acts' \in Positions /\ \A d \in Clients : moves[d] <= acts'
    BY <1>0, <2>1 DEF Positions
  <2> QED BY <1>0, <2>1, <2>2
<1>3. CASE Move(c)
  <2>1. /\ life[c] = "in" /\ life' = life /\ acts < MaxActs /\ acts' = acts + 1
        /\ moves' = [moves EXCEPT ![c] = moves[c] + 1]
        /\ events' = Append(events, [kind |-> "transform", who |-> c, pos |-> moves[c] + 1])
        /\ UNCHANGED <<known, appVars, buffer, sendVars>>
    BY <1>3 DEF Move, Acts, Tells, ClientRest
  <2>2. moves[c] \in Nat /\ moves[c] <= acts /\ acts \in Nat
    BY <1>0 DEF Positions
  <2>3. moves[c] + 1 \in Positions /\ acts' \in Positions /\ moves[c] + 1 <= acts'
    BY <1>0, <2>1, <2>2 DEF Positions
  <2>4. moves' \in [Clients -> Positions] /\ \A d \in Clients : moves'[d] <= acts'
    <3>1. moves' \in [Clients -> Positions] /\ moves'[c] = moves[c] + 1
          /\ \A d \in Clients : d # c => moves'[d] = moves[d]
      BY <1>0, <2>1, <2>3
    <3>2. \A d \in Clients : moves[d] \in Nat /\ moves[d] <= acts'
      BY <1>0, <2>1, <2>2 DEF Positions
    <3> QED BY <2>3, <3>1, <3>2
  <2> QED BY <1>0, <2>1, <2>3, <2>4
<1>4. ASSUME NEW kind \in {"seen_external", "stop_seen_external", "global_transform"}, Ask(c, kind)
      PROVE  /\ life[c] = "in" /\ life' = life /\ moves' = moves
             /\ acts' \in Positions /\ \A d \in Clients : moves'[d] <= acts'
             /\ kind = "seen_external" => c \in External
             /\ events' = Append(events, [kind |-> kind, who |-> c, pos |-> 0])
             /\ UNCHANGED <<known, appVars, buffer, sendVars>>
  <2>1. /\ life[c] = "in" /\ life' = life /\ moves' = moves /\ acts < MaxActs /\ acts' = acts + 1
        /\ kind # "global_transform" => c \in External
        /\ events' = Append(events, [kind |-> kind, who |-> c, pos |-> 0])
        /\ UNCHANGED <<known, appVars, buffer, sendVars>>
    BY <1>4 DEF Ask, Acts, Tells, ClientRest
  <2>2. acts' \in Positions /\ \A d \in Clients : moves[d] <= acts'
    BY <1>0, <2>1 DEF Positions
  <2> QED BY <2>1, <2>2
<1> QED BY <1>0, <1>1, <1>2, <1>3, <1>4 DEF ClientActs

LEMMA InitInv == Init => Inv
<1> SUFFICES ASSUME Init PROVE Inv
  OBVIOUS
<1>0. /\ \A S : <<>> \in Seq(S) /\ DOMAIN <<>> = {} /\ Range(<<>>) = {}
      /\ 0 \in Positions /\ MaxActs \in Nat
  BY SceneAssumption DEF Positions, Range
<1>1. Types
  <2>1. Idle \in Place
    BY DEF Idle, Place, Seats
  <2>2. m_queue = <<>> /\ taken = <<>> /\ overtaken = {} /\ putPc = [t \in Threads |-> "out"]
    BY DEF Init, Q!Init
  <2>3. pc \in [Threads -> Place] /\ todo \in [Threads -> Seq(Message)]
    BY <1>0, <2>1 DEF Init
  <2>4. events \in Seq(EventType) /\ players \in Seq(PlayerType)
        /\ m_queue \in Seq(Message) /\ taken \in Seq(Message)
    BY <1>0, <2>2 DEF Init
  <2>5. /\ acts \in Positions /\ moves \in [Clients -> Positions] /\ \A c \in Clients : moves[c] <= acts
        /\ life \in [Clients -> {"new", "up", "in", "gone"}]
    BY <1>0 DEF Init
  <2>6. known \in [Clients -> SUBSET (Clients \union {NoSeat} \union (Clients \X Positions))]
    BY DEF Init
  <2>7. buffer \subseteq Clients \X Positions /\ putPc \in [Threads -> {"out", "wait", "woken"}]
    BY <2>2 DEF Init
  <2> QED BY <2>2, <2>3, <2>4, <2>5, <2>6, <2>7 DEF Types
<1>7. Way = <<>>
  <2>1. taken = <<>> /\ m_queue = <<>> /\ <<>> \o <<>> = <<>>
    BY DEF Init, Q!Init
  <2> QED BY <2>1 DEF Way
<1>2. Held
  BY <1>0 DEF Init, Held, Threads, Idle
<1>3. BatchIsCurrent
  BY <1>0 DEF Init, BatchIsCurrent, Threads
<1>4. Alive
  BY <1>0, <1>7 DEF Init, Alive, Threads
<1>5. Listed
  <2>1. \A c \in Clients : ~ IsPlayer(c) /\ ~ Greeting(c) /\ ~ Leaving(c)
    BY <1>0 DEF Init, IsPlayer, Greeting, Leaving, Idle, Threads
  <2> QED BY <1>0, <1>7, <2>1 DEF Init, Listed, Threads
<1>6. Presence
  <2>1. \A c \in Clients : Will(c) = {} /\ ~ IsPlayer(c)
    BY <1>0, <1>7 DEF Init, Will, After, IsPlayer, Threads
  <2> QED BY <2>1 DEF Presence, Knows
<1> QED BY <1>1, <1>2, <1>3, <1>4, <1>5, <1>6 DEF Inv
-----------------------------------------------------------------------------
(* The handlers                                                            *)

Distinct == \A j, k \in DOMAIN players : players[j].link = players[k].link => j = k

\* What a handler never does.
Aside ==
    /\ UNCHANGED <<clientVars, buffer, sendVars>>
    /\ todo'["timer"] = todo["timer"] /\ pc'["timer"] = pc["timer"]
    /\ todo["app"] = <<>>
    /\ todo' \in [Threads -> Seq(Message)] /\ pc' \in [Threads -> Place]

\* The same players, perhaps changed.
Same(ps) ==
    /\ ps \in Seq(PlayerType) /\ DOMAIN ps = DOMAIN players
    /\ \A k \in DOMAIN players : ps[k].link = players[k].link
SameSeats(ps) == Same(ps) /\ \A k \in DOMAIN players : ps[k].seat = players[k].seat

LEMMA AppGoes ==
    ASSUME Types, NEW at, NEW who, NEW ms \in Seq(Message), Goes("app", at, who, ms), Rest,
           [at |-> at, who |-> who] \in Place
    PROVE  Aside /\ todo'["app"] = ms /\ pc'["app"].at = at /\ pc'["app"].who = who
<1>1. "app" \in Threads /\ "timer" \in Threads /\ "timer" # "app"
  BY DEF Threads
<1> QED BY <1>1, GoesShape DEF Aside, Rest

LEMMA ConnectedShape ==
    ASSUME Types, HandleConnected
    PROVE  /\ Handles("link_connected") /\ Aside /\ m_Mutex = "free" /\ m_Mutex' = "free"
           /\ NewPlayer(First.who) \in PlayerType /\ players' = Append(players, NewPlayer(First.who))
           /\ pc'["app"].at = "greeting" /\ pc'["app"].who = First.who
           /\ \E m \in Message : /\ todo'["app"] = <<m>> /\ m.to = First.who
                                 /\ m.kind = "link_connected" /\ m.what = {}
<1>1. First.who \in Clients
  BY HandlesShape DEF HandleConnected
<1>2. PICK m \in Message : /\ m = Msg(First.who, "link_connected", {}) /\ m.to = First.who
                           /\ m.kind = "link_connected" /\ m.what = {}
  BY <1>1, MsgIs
<1>3. <<m>> \in Seq(Message) /\ [at |-> "greeting", who |-> First.who] \in Place
  BY <1>1 DEF Place, Seats
<1>4. /\ Goes("app", "greeting", First.who, <<m>>) /\ Rest /\ Handles("link_connected")
      /\ m_Mutex = "free" /\ m_Mutex' = "free" /\ players' = Append(players, NewPlayer(First.who))
  BY <1>2 DEF HandleConnected, Locked
<1>5. NewPlayer(First.who) \in PlayerType
  BY <1>1, SceneAssumption DEF NewPlayer, PlayerType, Seats, Positions
<1> QED BY <1>2, <1>3, <1>4, <1>5, AppGoes

LEMMA UserInfoListShape ==
    ASSUME Types, Held, SendUserInfoList
    PROVE  /\ Aside /\ m_Mutex = "free" /\ m_Mutex' = "app"
           /\ players' = players /\ events' = events
           /\ pc["app"].at = "greeting" /\ pc'["app"].at = "sending"
           /\ pc["app"].who \in Clients /\ pc'["app"].who = pc["app"].who
           /\ \/ /\ todo'["app"] = <<>>
                 /\ \A k \in DOMAIN players : players[k].link = pc["app"].who \/ players[k].type # "VIP"
              \/ \E m \in Message :
                  /\ todo'["app"] = <<m>> /\ m.to = pc["app"].who /\ m.kind = "client_list"
                  /\ \A s \in m.what : \E k \in DOMAIN players : s = players[k].seat
                  /\ \A k \in DOMAIN players : players[k].type = "VIP" /\ players[k].link # m.to =>
                        players[k].seat \in m.what
<1> DEFINE c == pc["app"].who
           vips == {p \in Range(players) : p.type = "VIP" /\ p.link # c}
           ms == IF vips = {} THEN <<>> ELSE <<Msg(c, "client_list", {p.seat : p \in vips})>>
<1>1. /\ pc["app"].at = "greeting" /\ m_Mutex = "free" /\ m_Mutex' = "app"
      /\ players' = players /\ events' = events /\ Rest /\ Goes("app", "sending", c, ms)
  BY DEF SendUserInfoList
<1>2. c \in Clients
  BY <1>1 DEF Held
<1>3. \A p \in Range(players) : p \in PlayerType /\ p.seat \in Seats
  <2>1. \A k \in DOMAIN players : players[k] \in PlayerType
    BY DEF Types
  <2>2. \A p \in Range(players) : p \in PlayerType
    BY <2>1 DEF Range
  <2> QED BY <2>2 DEF PlayerType
<1>4. PICK w \in SUBSET (Clients \union {NoSeat} \union (Clients \X Positions)) :
            w = {p.seat : p \in vips}
  BY <1>3 DEF Seats
<1>5. PICK m \in Message : /\ m = Msg(c, "client_list", {p.seat : p \in vips})
                           /\ m.to = c /\ m.kind = "client_list" /\ m.what = {p.seat : p \in vips}
  <2>1. /\ Msg(c, "client_list", w) \in Message /\ Msg(c, "client_list", w).to = c
        /\ Msg(c, "client_list", w).kind = "client_list" /\ Msg(c, "client_list", w).what = w
    BY <1>2, MsgIs
  <2> HIDE DEF vips
  <2> QED BY <1>4, <2>1
<1>6. /\ ms = IF vips = {} THEN <<>> ELSE <<m>>
      /\ <<>> \in Seq(Message) /\ <<m>> \in Seq(Message) /\ [at |-> "sending", who |-> c] \in Place
  BY <1>2, <1>5 DEF Place, Seats
<1>7. \A k \in DOMAIN players : players[k] \in Range(players)
  BY DEF Range
<1>8. \A s \in m.what : \E k \in DOMAIN players : s = players[k].seat
  BY <1>5 DEF Range
<1>9. \A k \in DOMAIN players : players[k].type = "VIP" /\ players[k].link # c =>
          players[k].seat \in m.what /\ vips # {}
  BY <1>5, <1>7
<1>10. Aside /\ todo'["app"] = ms /\ pc'["app"].at = "sending" /\ pc'["app"].who = c
  <2>1. ms \in Seq(Message)
    BY <1>6
  <2> HIDE DEF ms
  <2> QED BY <1>1, <1>6, <2>1, AppGoes
<1> QED BY <1>1, <1>2, <1>5, <1>6, <1>8, <1>9, <1>10

LEMMA UnlockShape ==
    ASSUME Types, Unlock
    PROVE  /\ Aside /\ m_Mutex' = "free" /\ players' = players /\ events' = events
           /\ pc["app"].at = "sending" /\ pc'["app"].at = "idle"
           /\ todo'["app"] = <<>>
<1>1. <<>> \in Seq(Message) /\ [at |-> "idle", who |-> NoSeat] \in Place
  BY DEF Place, Seats
<1> QED BY <1>1, AppGoes DEF Unlock, Returns

LEMMA DisconnectedShape ==
    ASSUME Types, Distinct, HandleDisconnected
    PROVE  /\ Handles("link_disconnected") /\ Aside /\ players' = players /\ m_Mutex' = m_Mutex
           /\ \/ ~ IsPlayer(First.who) /\ pc'["app"].at = "idle" /\ todo'["app"] = <<>>
              \/ \E i \in DOMAIN players :
                   LET q == todo'["app"]
                   IN  /\ players[i].link = First.who
                       /\ pc'["app"].at = "leaving" /\ pc'["app"].who = First.who
                       /\ DOMAIN q = DOMAIN players
                       /\ \A k \in DOMAIN players :
                             /\ q[k].to = players[k].link /\ q[k].kind = "ply_leave"
                             /\ q[k].what = {players[i].seat}
<1>1. /\ Handles("link_disconnected") /\ Rest /\ UNCHANGED <<players, m_Mutex>>
      /\ First.who \in Clients
  BY HandlesShape DEF HandleDisconnected
<1>2. CASE ~ IsPlayer(First.who)
  <2>1. Goes("app", "idle", NoSeat, <<>>)
    BY <1>2 DEF HandleDisconnected, Returns
  <2>2. <<>> \in Seq(Message) /\ [at |-> "idle", who |-> NoSeat] \in Place
    BY DEF Place, Seats
  <2> QED BY <1>1, <1>2, <2>1, <2>2, AppGoes
<1>3. CASE IsPlayer(First.who)
  <2>1. PICK i \in DOMAIN players : players[i].link = First.who /\ Player(First.who) = players[i]
    BY <1>3, PlayerIs DEF Distinct
  <2>2. players[i].seat \in Seats
    <3>1. players[i] \in PlayerType
      BY <2>1 DEF Types
    <3> QED BY <3>1 DEF PlayerType
  <2>3. PICK w \in SUBSET (Clients \union {NoSeat} \union (Clients \X Positions)) : w = {players[i].seat}
    BY <2>2 DEF Seats
  <2>4. PICK q : q = ToEach(players, "ply_leave", w)
    OBVIOUS
  <2>5. /\ q \in Seq(Message) /\ DOMAIN q = DOMAIN players
        /\ \A k \in DOMAIN players : /\ q[k].to = players[k].link /\ q[k].kind = "ply_leave"
                                     /\ q[k].what = {players[i].seat}
    <3>1. \A c \in Clients : Msg(c, "ply_leave", w) \in Message
      BY MsgIs
    <3>2. players \in Seq(PlayerType)
      BY DEF Types
    <3>3. /\ ToEach(players, "ply_leave", w) \in Seq(Message)
          /\ DOMAIN ToEach(players, "ply_leave", w) = DOMAIN players
          /\ \A k \in DOMAIN players :
                /\ ToEach(players, "ply_leave", w)[k].to = players[k].link
                /\ ToEach(players, "ply_leave", w)[k].kind = "ply_leave"
                /\ ToEach(players, "ply_leave", w)[k].what = w
      BY <3>1, <3>2, ToEachShape
    <3> QED BY <2>3, <2>4, <3>3
  <2>6. Goes("app", "leaving", First.who, q)
    BY <1>3, <2>1, <2>3, <2>4 DEF HandleDisconnected
  <2>7. [at |-> "leaving", who |-> First.who] \in Place
    BY <1>1 DEF Place, Seats
  <2>8. Aside /\ todo'["app"] = q /\ pc'["app"].at = "leaving" /\ pc'["app"].who = First.who
    BY <1>1, <2>5, <2>6, <2>7, AppGoes
  <2> QED BY <1>1, <2>1, <2>5, <2>8
<1> QED BY <1>2, <1>3

LEMMA DeleteShape ==
    ASSUME Types, DeletePlayer
    PROVE  /\ Aside /\ m_Mutex = "free" /\ m_Mutex' = "free" /\ events' = events
           /\ pc["app"].at = "leaving" /\ pc'["app"].at = "idle"
           /\ todo'["app"] = <<>> /\ players' = Others(pc["app"].who)
<1>1. <<>> \in Seq(Message) /\ [at |-> "idle", who |-> NoSeat] \in Place
  BY DEF Place, Seats
<1> QED BY <1>1, AppGoes DEF DeletePlayer, Returns, Locked

\* UpdateUserInfo, and the news of the user to all others.
LEMMA UserInfoShape ==
    ASSUME Types, Distinct, HandleUserInfo
    PROVE  /\ Handles("user_info") /\ Aside /\ m_Mutex = "free" /\ m_Mutex' = "free"
           /\ Same(players') /\ pc'["app"].at = "idle"
           /\ \A k \in DOMAIN players : /\ players'[k].type = players[k].type
                                        /\ players[k].link = First.who => players'[k].seat = First.who
                                        /\ players[k].link # First.who => players'[k].seat = players[k].seat
           /\ \A j \in DOMAIN todo'["app"] : LET m == todo'["app"][j] IN
                /\ m.kind = "new_user_online" /\ m.what = {First.who} /\ IsPlayer(First.who)
                /\ m.to # First.who /\ \E k \in DOMAIN players : players[k].link = m.to
           /\ \A i, k \in DOMAIN players :
                players[i].link = First.who /\ players[i].type = "VIP" /\ players[k].link # First.who =>
                    \E j \in DOMAIN todo'["app"] : todo'["app"][j].to = players[k].link
<1> DEFINE c == First.who
           told(p) == [p EXCEPT !.seat = c]
           news == IF IsPlayer(c) THEN BroadcastNewUserOnline(told(Player(c))) ELSE <<>>
<1>1. /\ Handles("user_info") /\ m_Mutex = "free" /\ m_Mutex' = "free" /\ Rest
      /\ players' = [k \in DOMAIN players |-> IF players[k].link = c THEN told(players[k]) ELSE players[k]]
      /\ Goes("app", "idle", NoSeat, news)
  BY DEF HandleUserInfo, Locked, Returns, Changed
<1>2. c \in Clients
  BY <1>1, HandlesShape
<1>3. players \in Seq(PlayerType) /\ \A k \in DOMAIN players : players[k] \in PlayerType
  BY DEF Types
<1>4. \A p \in PlayerType : /\ told(p) \in PlayerType /\ told(p).link = p.link
                            /\ told(p).type = p.type /\ told(p).seat = c
  BY <1>2 DEF PlayerType, Seats
<1>5. Same(players') /\ \A k \in DOMAIN players :
        /\ players'[k].type = players[k].type
        /\ players[k].link = c => players'[k].seat = c
        /\ players[k].link # c => players'[k].seat = players[k].seat
  <2>1. /\ DOMAIN players' = DOMAIN players
        /\ \A k \in DOMAIN players : players'[k] = IF players[k].link = c THEN told(players[k]) ELSE players[k]
    BY <1>1
  <2>2. \A k \in DOMAIN players : players'[k] \in PlayerType
    BY <1>3, <1>4, <2>1
  <2>3. players' \in Seq(PlayerType)
    <3>1. Len(players) \in Nat /\ DOMAIN players = 1..Len(players)
      BY <1>3
    <3>2. players' = [k \in 1..Len(players) |-> players'[k]]
      BY <1>1, <3>1
    <3> QED BY <2>1, <2>2, <3>1, <3>2, IsASeq
  <2> HIDE DEF c, told
  <2> QED BY <1>3, <1>4, <2>1, <2>3 DEF Same
<1>6. [at |-> "idle", who |-> NoSeat] \in Place /\ <<>> \in Seq(Message) /\ DOMAIN <<>> = {}
  BY DEF Place, Seats
<1>7. CASE news = <<>>
  <2>1. Aside /\ todo'["app"] = <<>> /\ pc'["app"].at = "idle"
    BY <1>1, <1>6, <1>7, AppGoes
  <2>2. ASSUME NEW i \in DOMAIN players, players[i].link = c, players[i].type = "VIP",
               NEW k \in DOMAIN players, players[k].link # c
        PROVE  FALSE
    <3>1. IsPlayer(c) /\ Player(c) = players[i]
      BY <2>2, PlayerIs DEF Distinct
    <3>2. told(Player(c)).type = "VIP" /\ told(Player(c)).link = c /\ told(Player(c)).seat = c
      BY <1>3, <1>4, <2>2, <3>1
    <3>3. news = ToEach(Others(c), "new_user_online", {c})
      BY <3>1, <3>2 DEF BroadcastNewUserOnline
    <3>4. PICK j \in DOMAIN Others(c) : Others(c)[j] = players[k]
      BY <2>2, OthersShape DEF Distinct
    <3>5. DOMAIN ToEach(Others(c), "new_user_online", {c}) = DOMAIN Others(c)
      BY DEF ToEach
    <3> QED BY <1>6, <1>7, <3>3, <3>4, <3>5
  <2> QED BY <1>1, <1>5, <1>6, <2>1, <2>2
<1>8. CASE news # <<>>
  <2>1. IsPlayer(c)
    BY <1>8
  <2>2. PICK i \in DOMAIN players : players[i].link = c /\ Player(c) = players[i]
    BY <2>1, PlayerIs DEF Distinct
  <2>3. told(Player(c)).link = c /\ told(Player(c)).seat = c
    BY <1>3, <1>4, <2>2
  <2>4. PICK w \in SUBSET (Clients \union {NoSeat} \union (Clients \X Positions)) : w = {c}
    BY <1>2
  <2>5. PICK q : q = ToEach(Others(c), "new_user_online", w)
    OBVIOUS
  <2>6. news = q
    BY <1>8, <2>1, <2>3, <2>4, <2>5 DEF BroadcastNewUserOnline
  <2>7. PICK os \in Seq(PlayerType) : os = Others(c)
    BY OthersShape DEF Distinct
  <2>8. /\ q \in Seq(Message) /\ DOMAIN q = DOMAIN os
        /\ \A j \in DOMAIN os : q[j].to = os[j].link /\ q[j].kind = "new_user_online" /\ q[j].what = w
    <3>1. \A d \in Clients : Msg(d, "new_user_online", w) \in Message
      BY MsgIs
    <3>2. /\ ToEach(os, "new_user_online", w) \in Seq(Message)
          /\ DOMAIN ToEach(os, "new_user_online", w) = DOMAIN os
          /\ \A j \in DOMAIN os :
                /\ ToEach(os, "new_user_online", w)[j].to = os[j].link
                /\ ToEach(os, "new_user_online", w)[j].kind = "new_user_online"
                /\ ToEach(os, "new_user_online", w)[j].what = w
      BY <3>1, ToEachShape
    <3> QED BY <2>5, <2>7, <3>2
  <2>9. Aside /\ todo'["app"] = q /\ pc'["app"].at = "idle"
    BY <1>1, <1>6, <2>6, <2>8, AppGoes
  <2>10. \A j \in DOMAIN q : /\ q[j].kind = "new_user_online" /\ q[j].what = {c}
                             /\ q[j].to # c /\ \E k \in DOMAIN players : players[k].link = q[j].to
    <3>1. \A j \in DOMAIN os : \E k \in DOMAIN players : players[k] = os[j] /\ players[k].link # c
      BY <2>7, OthersShape DEF Distinct
    <3> HIDE DEF c
    <3> QED BY <2>4, <2>8, <3>1
  <2>11. \A k \in DOMAIN players : players[k].link # c => \E j \in DOMAIN q : q[j].to = players[k].link
    <3>1. \A k \in DOMAIN players : players[k].link # c => \E j \in DOMAIN os : os[j] = players[k]
      BY <2>7, OthersShape DEF Distinct
    <3> HIDE DEF c
    <3> QED BY <2>8, <3>1
  <2> QED BY <1>1, <1>5, <2>1, <2>9, <2>10, <2>11
<1> QED BY <1>7, <1>8

LEMMA TransformShape ==
    ASSUME Types, HandleTransform
    PROVE  /\ Handles("transform") /\ Aside /\ m_Mutex = "free" /\ m_Mutex' = "free"
           /\ SameSeats(players') /\ \A k \in DOMAIN players : players'[k].type = players[k].type
           /\ pc'["app"].at = "idle" /\ todo'["app"] = <<>>
<1> DEFINE moved(p) == [p EXCEPT !.pos = First.pos, !.update = TRUE]
<1>1. /\ Handles("transform") /\ m_Mutex = "free" /\ m_Mutex' = "free" /\ Rest
      /\ players' = [k \in DOMAIN players |-> IF players[k].link = First.who THEN moved(players[k]) ELSE players[k]]
      /\ Goes("app", "idle", NoSeat, <<>>)
  BY DEF HandleTransform, Locked, Returns, Changed
<1>2. First.pos \in Positions
  BY <1>1, HandlesShape
<1>3. players \in Seq(PlayerType) /\ \A k \in DOMAIN players : players[k] \in PlayerType
  BY DEF Types
<1>4. \A p \in PlayerType : /\ moved(p) \in PlayerType /\ moved(p).link = p.link
                            /\ moved(p).type = p.type /\ moved(p).seat = p.seat
  BY <1>2 DEF PlayerType
<1>5. /\ DOMAIN players' = DOMAIN players
      /\ \A k \in DOMAIN players : players'[k] = moved(players[k]) \/ players'[k] = players[k]
  BY <1>1
<1>6. \A k \in DOMAIN players : players'[k] \in PlayerType
  BY <1>3, <1>4, <1>5
<1>7. players' \in Seq(PlayerType)
  <2>1. Len(players) \in Nat /\ DOMAIN players = 1..Len(players)
    BY <1>3
  <2>2. players' = [k \in 1..Len(players) |-> players'[k]]
    BY <1>1, <2>1
  <2> QED BY <1>6, <2>1, <2>2, IsASeq
<1>8. SameSeats(players') /\ \A k \in DOMAIN players : players'[k].type = players[k].type
  <2> HIDE DEF moved
  <2> QED BY <1>3, <1>4, <1>5, <1>7 DEF SameSeats, Same
<1>9. <<>> \in Seq(Message) /\ [at |-> "idle", who |-> NoSeat] \in Place
  BY DEF Place, Seats
<1> QED BY <1>1, <1>8, <1>9, AppGoes

LEMMA SeenShape ==
    ASSUME Types, NEW kind \in {"seen_external", "stop_seen_external"},
           NEW type \in {"VIP", "ExternalVIP"}, HandleSeen(kind, type)
    PROVE  /\ Handles(kind) /\ Aside /\ m_Mutex = "free" /\ m_Mutex' = "free"
           /\ SameSeats(players')
           /\ \A k \in DOMAIN players : \/ players'[k].type = players[k].type
                                        \/ players[k].seat = First.who /\ players'[k].type = type
           /\ pc'["app"].at = "idle" /\ todo'["app"] = <<>>
<1> DEFINE become(p) == [p EXCEPT !.type = type]
<1>1. /\ Handles(kind) /\ m_Mutex = "free" /\ m_Mutex' = "free" /\ Rest
      /\ players' = [k \in DOMAIN players |-> IF players[k].seat = First.who THEN become(players[k]) ELSE players[k]]
      /\ Goes("app", "idle", NoSeat, <<>>)
  BY DEF HandleSeen, Locked, Returns, Changed
<1>3. players \in Seq(PlayerType) /\ \A k \in DOMAIN players : players[k] \in PlayerType
  BY DEF Types
<1>4. \A p \in PlayerType : /\ become(p) \in PlayerType /\ become(p).link = p.link
                            /\ become(p).type = type /\ become(p).seat = p.seat
  BY DEF PlayerType
<1>5. /\ DOMAIN players' = DOMAIN players
      /\ \A k \in DOMAIN players : \/ players'[k] = become(players[k]) /\ players[k].seat = First.who
                                   \/ players'[k] = players[k]
  BY <1>1
<1>6. \A k \in DOMAIN players : players'[k] \in PlayerType
  BY <1>3, <1>4, <1>5
<1>7. players' \in Seq(PlayerType)
  <2>1. Len(players) \in Nat /\ DOMAIN players = 1..Len(players)
    BY <1>3
  <2>2. players' = [k \in 1..Len(players) |-> players'[k]]
    BY <1>1, <2>1
  <2> QED BY <1>6, <2>1, <2>2, IsASeq
<1>8. /\ SameSeats(players')
      /\ \A k \in DOMAIN players : \/ players'[k].type = players[k].type
                                   \/ players[k].seat = First.who /\ players'[k].type = type
  <2> HIDE DEF become
  <2> QED BY <1>3, <1>4, <1>5, <1>7 DEF SameSeats, Same
<1>9. <<>> \in Seq(Message) /\ [at |-> "idle", who |-> NoSeat] \in Place
  BY DEF Place, Seats
<1> QED BY <1>1, <1>8, <1>9, AppGoes

LEMMA SendMsgShape ==
    ASSUME Types, SendMsg
    PROVE  /\ Aside /\ m_Mutex = "free" /\ m_Mutex' = "app" /\ players' = players
           /\ pc'["app"].at = "sending"
           /\ DOMAIN todo'["app"] = DOMAIN players
           /\ \A k \in DOMAIN players : /\ todo'["app"][k].to = players[k].link
                                        /\ todo'["app"][k].kind = "global"
<1>1. /\ m_Mutex = "free" /\ m_Mutex' = "app" /\ players' = players /\ Rest
      /\ Goes("app", "sending", NoSeat, ToEach(players, "global", {}))
  BY DEF SendMsg
<1>2. PICK q : q = ToEach(players, "global", {})
  OBVIOUS
<1>3. /\ q \in Seq(Message) /\ DOMAIN q = DOMAIN players
      /\ \A k \in DOMAIN players : q[k].to = players[k].link /\ q[k].kind = "global"
  <2>1. \A c \in Clients : Msg(c, "global", {}) \in Message
    BY MsgIs
  <2>2. players \in Seq(PlayerType)
    BY DEF Types
  <2>3. /\ ToEach(players, "global", {}) \in Seq(Message)
        /\ DOMAIN ToEach(players, "global", {}) = DOMAIN players
        /\ \A k \in DOMAIN players :
              /\ ToEach(players, "global", {})[k].to = players[k].link
              /\ ToEach(players, "global", {})[k].kind = "global"
    BY <2>1, <2>2, ToEachShape
  <2> QED BY <1>2, <2>3
<1>4. [at |-> "sending", who |-> NoSeat] \in Place
  BY DEF Place, Seats
<1>5. Aside /\ todo'["app"] = q /\ pc'["app"].at = "sending"
  BY <1>1, <1>2, <1>3, <1>4, AppGoes
<1> QED BY <1>1, <1>3, <1>5

\* The handler of the timer collects the transforms and goes on to send them.
LEMMA CollectShape ==
    ASSUME Types, NEW type \in {"VIP", "ExternalVIP"}, SendTransformDataByUserType(type)
    PROVE  /\ SameSeats(players')
           /\ \A k \in DOMAIN players : /\ players'[k].type = players[k].type
                                        /\ players'[k].pos = players[k].pos
           /\ buffer' \subseteq Clients \X Positions
           /\ \A b \in buffer' : \E k \in DOMAIN players :
                 players[k].link = b[1] /\ players[k].pos = b[2] /\ players[k].type = type
           /\ todo'["app"] = todo["app"] /\ pc'["app"] = pc["app"] /\ pc'["timer"].at = type
           /\ todo' \in [Threads -> Seq(Message)] /\ pc' \in [Threads -> Place]
           /\ \A j \in DOMAIN todo'["timer"] :
                 /\ todo'["timer"][j].kind = "transform"
                 /\ \E k \in DOMAIN players : players[k].link = todo'["timer"][j].to
<1>0. PICK due : due = Due(type)
  OBVIOUS
<1>1. /\ players' = [k \in DOMAIN players |-> IF players[k] \in due THEN Sent(players[k]) ELSE players[k]]
      /\ buffer' = Transforms(due)
      /\ Goes("timer", type, NoSeat,
              IF buffer' = {} THEN <<>> ELSE ToEach(players, "transform", buffer'))
  BY <1>0 DEF SendTransformDataByUserType, Changed
<1>2. players \in Seq(PlayerType) /\ \A k \in DOMAIN players : players[k] \in PlayerType
  BY DEF Types
<1>3. \A p \in due : \E k \in DOMAIN players : p = players[k] /\ p.type = type
  BY <1>0 DEF Due
<1>4. \A p \in PlayerType : /\ Sent(p) \in PlayerType /\ Sent(p).link = p.link /\ Sent(p).seat = p.seat
                            /\ Sent(p).type = p.type /\ Sent(p).pos = p.pos
                            /\ p.link \in Clients /\ p.pos \in Positions
  BY DEF PlayerType, Sent
<1>5. /\ DOMAIN players' = DOMAIN players
      /\ \A k \in DOMAIN players : players'[k] = Sent(players[k]) \/ players'[k] = players[k]
  BY <1>1
<1>6. \A k \in DOMAIN players : players'[k] \in PlayerType
  BY <1>2, <1>4, <1>5
<1>7. players' \in Seq(PlayerType)
  <2>1. Len(players) \in Nat /\ DOMAIN players = 1..Len(players)
    BY <1>2
  <2>2. players' = [k \in 1..Len(players) |-> players'[k]]
    BY <1>1, <2>1
  <2> QED BY <1>6, <2>1, <2>2, IsASeq
<1>8. /\ SameSeats(players')
      /\ \A k \in DOMAIN players : players'[k].type = players[k].type /\ players'[k].pos = players[k].pos
  BY <1>2, <1>4, <1>5, <1>7 DEF SameSeats, Same
<1>9. \A b \in buffer' : \E p \in due : b = <<p.link, p.pos>>
  BY <1>1 DEF Transforms
<1>10. \A b \in buffer' : \E k \in DOMAIN players :
           /\ b = <<players[k].link, players[k].pos>> /\ players[k].type = type
           /\ players[k].link \in Clients /\ players[k].pos \in Positions
  BY <1>2, <1>3, <1>4, <1>9
<1>11. /\ buffer' \subseteq Clients \X Positions
       /\ \A b \in buffer' : \E k \in DOMAIN players :
             players[k].link = b[1] /\ players[k].pos = b[2] /\ players[k].type = type
  <2>1. \A b \in buffer' : b \in Clients \X Positions
    BY <1>10
  <2> QED BY <1>10, <2>1
<1>12. PICK w \in SUBSET (Clients \union {NoSeat} \union (Clients \X Positions)) : w = buffer'
  BY <1>11
<1>13. PICK q \in Seq(Message) :
             /\ q = IF w = {} THEN <<>> ELSE ToEach(players, "transform", w)
             /\ \A j \in DOMAIN q : /\ q[j].kind = "transform"
                                    /\ \E k \in DOMAIN players : players[k].link = q[j].to
  <2>1. \A c \in Clients : Msg(c, "transform", w) \in Message
    BY MsgIs
  <2>2. /\ ToEach(players, "transform", w) \in Seq(Message)
        /\ DOMAIN ToEach(players, "transform", w) = DOMAIN players
        /\ \A k \in DOMAIN players :
              /\ ToEach(players, "transform", w)[k].to = players[k].link
              /\ ToEach(players, "transform", w)[k].kind = "transform"
    BY <1>2, <2>1, ToEachShape
  <2>3. <<>> \in Seq(Message) /\ DOMAIN <<>> = {}
    OBVIOUS
  <2>4. CASE w = {}
    BY <2>3, <2>4
  <2>5. CASE w # {}
    BY <2>2, <2>5
  <2> QED BY <2>4, <2>5
<1>14. Goes("timer", type, NoSeat, q)
  BY <1>1, <1>12, <1>13
<1>15. "app" \in Threads /\ "timer" \in Threads /\ "timer" # "app" /\ [at |-> type, who |-> NoSeat] \in Place
  BY DEF Threads, Place, Seats
<1>16. /\ todo'["timer"] = q /\ todo'["app"] = todo["app"] /\ pc'["app"] = pc["app"]
       /\ pc'["timer"].at = type
       /\ todo' \in [Threads -> Seq(Message)] /\ pc' \in [Threads -> Place]
  BY <1>14, <1>15, GoesShape
<1> QED BY <1>8, <1>11, <1>13, <1>16

LEMMA TimerShape ==
    ASSUME Types, Held, Timer
    PROVE  /\ UNCHANGED <<clientVars, events, sendVars>>
           /\ SameSeats(players') /\ \A k \in DOMAIN players : players'[k].type = players[k].type
           /\ buffer' \subseteq Clients \X Positions
           /\ todo'["app"] = todo["app"] /\ pc'["app"] = pc["app"]
           /\ todo' \in [Threads -> Seq(Message)] /\ pc' \in [Threads -> Place]
           /\ \A j \in DOMAIN todo'["timer"] :
                 /\ todo'["timer"][j].kind = "transform"
                 /\ \E k \in DOMAIN players : players[k].link = todo'["timer"][j].to
           /\ \/ /\ m_Mutex \in {"free", "timer"} /\ m_Mutex' = "timer"
                 /\ BatchIsCurrent'
              \/ /\ m_Mutex = "timer" /\ m_Mutex' = "free" /\ pc'["timer"] = Idle
                 /\ todo'["timer"] = <<>> /\ buffer' = {}
<1>1. ASSUME NEW type \in {"VIP", "ExternalVIP"}, SendTransformDataByUserType(type)
      PROVE  BatchIsCurrent'
  <2>1. \A k \in DOMAIN players : /\ k \in DOMAIN players' /\ players'[k].link = players[k].link
                                  /\ players'[k].type = players[k].type /\ players'[k].pos = players[k].pos
    BY <1>1, CollectShape DEF SameSeats, Same
  <2>2. \A m \in Range(todo'["timer"]) : IsPlayer(m.to)'
    <3>1. \A j \in DOMAIN todo'["timer"] : \E k \in DOMAIN players : players[k].link = todo'["timer"][j].to
      BY <1>1, CollectShape
    <3>2. \A j \in DOMAIN todo'["timer"] : \E k \in DOMAIN players' : players'[k].link = todo'["timer"][j].to
      BY <2>1, <3>1
    <3> QED BY <3>2 DEF Range, IsPlayer
  <2>3. \A b \in buffer' : \E p \in Range(players') :
            p.link = b[1] /\ p.pos = b[2] /\ p.type = pc'["timer"].at
    <3>1. pc'["timer"].at = type /\ \A b \in buffer' : \E k \in DOMAIN players :
             players[k].link = b[1] /\ players[k].pos = b[2] /\ players[k].type = type
      BY <1>1, CollectShape
    <3>2. \A b \in buffer' : \E k \in DOMAIN players' :
             players'[k].link = b[1] /\ players'[k].pos = b[2] /\ players'[k].type = type
      BY <2>1, <3>1
    <3> QED BY <3>1, <3>2 DEF Range
  <2> QED BY <2>2, <2>3 DEF BatchIsCurrent
<1>2. CASE TimerLocks
  <2>1. /\ m_Mutex = "free" /\ m_Mutex' = "timer" /\ SendTransformDataByUserType("VIP")
        /\ UNCHANGED <<clientVars, events, sendVars>>
    BY <1>2 DEF TimerLocks
  <2> QED BY <1>1, <2>1, CollectShape
<1>3. CASE TimerGoesOn
  <2>1. /\ pc["timer"].at = "VIP" /\ m_Mutex' = m_Mutex /\ SendTransformDataByUserType("ExternalVIP")
        /\ UNCHANGED <<clientVars, events, sendVars>>
    BY <1>3 DEF TimerGoesOn
  <2>2. m_Mutex = "timer"
    BY <2>1 DEF Held, Idle
  <2> QED BY <1>1, <2>1, <2>2, CollectShape
<1>4. CASE TimerUnlocks
  <2>1. /\ pc["timer"].at = "ExternalVIP" /\ m_Mutex' = "free" /\ buffer' = {} /\ players' = players
        /\ UNCHANGED <<clientVars, events, sendVars>> /\ Goes("timer", "idle", NoSeat, <<>>)
    BY <1>4 DEF TimerUnlocks, Returns
  <2>2. /\ <<>> \in Seq(Message) /\ [at |-> "idle", who |-> NoSeat] \in Place
        /\ "app" \in Threads /\ "timer" \in Threads /\ "timer" # "app" /\ DOMAIN <<>> = {}
    BY DEF Place, Seats, Threads
  <2>3. /\ todo'["timer"] = <<>> /\ todo'["app"] = todo["app"] /\ pc'["app"] = pc["app"]
        /\ pc'["timer"] = Idle
        /\ todo' \in [Threads -> Seq(Message)] /\ pc' \in [Threads -> Place]
    BY <2>1, <2>2, GoesShape, ZenonT(30) DEF Idle
  <2>4. SameSeats(players') /\ \A k \in DOMAIN players : players'[k].type = players[k].type
    BY <2>1 DEF Types, SameSeats, Same
  <2>5. m_Mutex = "timer"
    BY <2>1 DEF Held, Idle
  <2> QED BY <2>1, <2>2, <2>3, <2>4, <2>5
<1> QED BY <1>2, <1>3, <1>4 DEF Timer

\* What all handlers of the application have in common.
LEMMA AppShape ==
    ASSUME Inv, App
    PROVE  /\ Aside
           /\ players' \in Seq(PlayerType) /\ \A k \in DOMAIN players' : life[players'[k].link] # "new"
           /\ events' \in Seq(EventType)
           /\ \A k \in DOMAIN events' : \E j \in DOMAIN events : events'[k] = events[j]
           /\ \A k \in DOMAIN todo'["app"] : life[todo'["app"][k].to] # "new"
           /\ pc'["app"].at \in {"idle", "greeting", "sending", "leaving"}
           /\ pc'["app"].at \in {"greeting", "leaving"} => pc'["app"].who \in Clients
           /\ pc'["app"].at = "sending" => m_Mutex' = "app"
           /\ \/ players' = players /\ m_Mutex' = m_Mutex
              \/ m_Mutex # "timer" /\ m_Mutex' # "timer"
<1> USE DEF Inv
<1>1. Distinct
  BY DEF Listed, Distinct
<1>2. /\ \A k \in DOMAIN players : life[players[k].link] # "new"
      /\ \A k \in DOMAIN events : life[events[k].who] # "new"
      /\ players \in Seq(PlayerType) /\ events \in Seq(EventType)
  BY DEF Alive, Types
<1>3. \A kind : Handles(kind) => /\ events' \in Seq(EventType)
                                 /\ \A k \in DOMAIN events' : \E j \in DOMAIN events : events'[k] = events[j]
                                 /\ First.who \in Clients /\ life[First.who] # "new"
                                 /\ pc["app"].at = "idle"
  <2> SUFFICES ASSUME NEW kind, Handles(kind)
               PROVE  /\ events' \in Seq(EventType)
                      /\ \A k \in DOMAIN events' : \E j \in DOMAIN events : events'[k] = events[j]
                      /\ First.who \in Clients /\ life[First.who] # "new"
                      /\ pc["app"].at = "idle"
    OBVIOUS
  <2> QED BY <1>2, HandlesShape
<1>4. \A ps : Same(ps) => ps \in Seq(PlayerType) /\ \A k \in DOMAIN ps : life[ps[k].link] # "new"
  BY <1>2 DEF Same
<1>5. DOMAIN <<>> = {} /\ \A m : DOMAIN <<m>> = {1} /\ <<m>>[1] = m
  OBVIOUS
<1>6. CASE HandleConnected
  <2>1. /\ Handles("link_connected") /\ Aside /\ m_Mutex = "free" /\ m_Mutex' = "free"
        /\ NewPlayer(First.who) \in PlayerType /\ players' = Append(players, NewPlayer(First.who))
        /\ pc'["app"].at = "greeting" /\ pc'["app"].who = First.who
        /\ \E m \in Message : todo'["app"] = <<m>> /\ m.to = First.who
    BY <1>6, ConnectedShape
  <2>2. /\ players' \in Seq(PlayerType) /\ DOMAIN players' = 1..(Len(players) + 1)
        /\ DOMAIN players = 1..Len(players) /\ Len(players) \in Nat
        /\ \A k \in DOMAIN players : players'[k] = players[k]
        /\ players'[Len(players) + 1] = NewPlayer(First.who)
    BY <1>2, <2>1, AppendShape
  <2>3. NewPlayer(First.who).link = First.who
    BY DEF NewPlayer
  <2>4. \A k \in DOMAIN players' : life[players'[k].link] # "new"
    <3>1. \A k \in DOMAIN players' : k \in DOMAIN players \/ k = Len(players) + 1
      BY <2>2
    <3> QED BY <1>2, <1>3, <2>1, <2>2, <2>3, <3>1
  <2>5. \A k \in DOMAIN todo'["app"] : life[todo'["app"][k].to] # "new"
    BY <1>3, <1>5, <2>1
  <2> QED BY <1>3, <2>1, <2>2, <2>4, <2>5
<1>7. CASE SendUserInfoList
  <2>1. /\ Aside /\ m_Mutex = "free" /\ m_Mutex' = "app" /\ players' = players /\ events' = events
        /\ pc["app"].at = "greeting" /\ pc'["app"].at = "sending" /\ pc["app"].who \in Clients
        /\ \/ todo'["app"] = <<>>
           \/ \E m \in Message : todo'["app"] = <<m>> /\ m.to = pc["app"].who
    BY <1>7, UserInfoListShape
  <2>2. life[pc["app"].who] # "new"
    <3>1. IsPlayer(pc["app"].who)
      BY <2>1 DEF Listed, Greeting
    <3> QED BY <1>2, <3>1 DEF IsPlayer
  <2>3. \A k \in DOMAIN todo'["app"] : life[todo'["app"][k].to] # "new"
    BY <1>5, <2>1, <2>2
  <2> QED BY <1>2, <2>1, <2>3
<1>8. CASE Unlock
  <2>1. /\ Aside /\ m_Mutex' = "free" /\ players' = players /\ events' = events
        /\ pc["app"].at = "sending" /\ pc'["app"].at = "idle" /\ todo'["app"] = <<>>
    BY <1>8, UnlockShape
  <2>2. m_Mutex = "app"
    BY <2>1 DEF Held
  <2> QED BY <1>2, <1>5, <2>1, <2>2
<1>9. CASE HandleDisconnected
  <2>1. /\ Handles("link_disconnected") /\ Aside /\ players' = players /\ m_Mutex' = m_Mutex
        /\ \/ pc'["app"].at = "idle" /\ todo'["app"] = <<>>
           \/ /\ pc'["app"].at = "leaving" /\ pc'["app"].who = First.who
              /\ DOMAIN todo'["app"] = DOMAIN players
              /\ \A k \in DOMAIN players : todo'["app"][k].to = players[k].link
    BY <1>1, <1>9, DisconnectedShape
  <2>2. \A k \in DOMAIN todo'["app"] : life[todo'["app"][k].to] # "new"
    BY <1>2, <1>5, <2>1
  <2>3. First.who \in Clients /\ events' \in Seq(EventType)
        /\ \A k \in DOMAIN events' : \E j \in DOMAIN events : events'[k] = events[j]
    BY <1>3, <2>1
  <2> QED BY <1>2, <2>1, <2>2, <2>3
<1>10. CASE DeletePlayer
  <2>1. /\ Aside /\ m_Mutex = "free" /\ m_Mutex' = "free" /\ events' = events
        /\ pc'["app"].at = "idle" /\ todo'["app"] = <<>> /\ players' = Others(pc["app"].who)
    BY <1>10, DeleteShape
  <2>2. /\ players' \in Seq(PlayerType)
        /\ \A j \in DOMAIN players' : \E k \in DOMAIN players : players[k] = players'[j]
    <3>1. /\ Others(pc["app"].who) \in Seq(PlayerType)
          /\ \A j \in DOMAIN Others(pc["app"].who) : \E k \in DOMAIN players :
                players[k] = Others(pc["app"].who)[j]
      BY <1>1, OthersShape DEF Distinct
    <3> QED BY <2>1, <3>1
  <2> QED BY <1>2, <1>5, <2>1, <2>2
<1>11. CASE HandleUserInfo
  <2>1. /\ Handles("user_info") /\ Aside /\ m_Mutex = "free" /\ m_Mutex' = "free"
        /\ Same(players') /\ pc'["app"].at = "idle"
        /\ \A j \in DOMAIN todo'["app"] : \E k \in DOMAIN players : players[k].link = todo'["app"][j].to
    BY <1>1, <1>11, UserInfoShape
  <2> QED BY <1>2, <1>3, <1>4, <2>1
<1>12. CASE HandleTransform
  <2>1. /\ Handles("transform") /\ Aside /\ m_Mutex = "free" /\ m_Mutex' = "free"
        /\ Same(players') /\ pc'["app"].at = "idle" /\ todo'["app"] = <<>>
    BY <1>12, TransformShape DEF SameSeats
  <2> QED BY <1>3, <1>4, <1>5, <2>1
<1>13. ASSUME NEW kind \in {"seen_external", "stop_seen_external"},
              NEW type \in {"VIP", "ExternalVIP"}, HandleSeen(kind, type)
       PROVE  /\ Handles(kind) /\ Aside /\ m_Mutex = "free" /\ m_Mutex' = "free"
              /\ Same(players') /\ pc'["app"].at = "idle" /\ todo'["app"] = <<>>
  BY <1>13, SeenShape DEF SameSeats
<1>14. CASE HandleSeen("seen_external", "ExternalVIP") \/ HandleSeen("stop_seen_external", "VIP")
  BY <1>3, <1>4, <1>5, <1>13, <1>14
<1>15. CASE SendMsg /\ (Handles("global_transform") \/ events' = events)
  <2>1. /\ Aside /\ m_Mutex = "free" /\ m_Mutex' = "app" /\ players' = players
        /\ pc'["app"].at = "sending" /\ DOMAIN todo'["app"] = DOMAIN players
        /\ \A k \in DOMAIN players : todo'["app"][k].to = players[k].link
    BY <1>15, SendMsgShape
  <2> QED BY <1>2, <1>3, <1>15, <2>1
<1> QED BY <1>6, <1>7, <1>8, <1>9, <1>10, <1>11, <1>12, <1>14, <1>15
     DEF App, HandleGlobalTransform, HandleNetEventFromCenterSvr
-----------------------------------------------------------------------------
(* The types, the mutex and the batch                                      *)

LEMMA TypesStep == Inv /\ Next => Types'
<1> SUFFICES ASSUME Inv, Next PROVE Types'
  OBVIOUS
<1>0. Types /\ Held
  BY DEF Inv
<1>1. CASE App
  <2>1. Aside /\ players' \in Seq(PlayerType) /\ events' \in Seq(EventType)
    BY <1>1, AppShape
  <2> QED BY <1>0, <2>1 DEF Types, Aside, clientVars, sendVars
<1>2. CASE Timer
  <2>1. /\ UNCHANGED <<clientVars, events, sendVars>> /\ players' \in Seq(PlayerType)
        /\ buffer' \subseteq Clients \X Positions
        /\ todo' \in [Threads -> Seq(Message)] /\ pc' \in [Threads -> Place]
    BY <1>0, <1>2, TimerShape DEF SameSeats, Same
  <2> QED BY <1>0, <2>1 DEF Types, clientVars, sendVars
<1>3. ASSUME NEW t \in Threads, Send(t)
      PROVE  Types'
  <2>1. /\ putPc' \in [Threads -> {"out", "wait", "woken"}] /\ m_queue' \in Seq(Message)
        /\ UNCHANGED <<clientVars, events, players, pc, buffer, taken, overtaken>>
        /\ UNCHANGED todo \/ todo' \in [Threads -> Seq(Message)]
    BY <1>0, <1>3, SendShape
  <2>2. todo' \in [Threads -> Seq(Message)]
    BY <1>0, <2>1 DEF Types
  <2> QED BY <1>0, <2>1, <2>2 DEF Types, clientVars
<1>4. CASE SpuriousWakeup
  <2>1. /\ putPc' \in [Threads -> {"out", "wait", "woken"}]
        /\ UNCHANGED <<m_queue, taken, overtaken, clientVars, events, appVars, buffer>>
    BY <1>0, <1>4, SpuriousShape
  <2> QED BY <1>0, <2>1 DEF Types, clientVars, appVars
<1>8. CASE TakeMessage
  <2>1. /\ m_queue' \in Seq(Message) /\ taken' \in Seq(Message)
        /\ putPc' \in [Threads -> {"out", "wait", "woken"}]
        /\ UNCHANGED <<overtaken, clientVars, events, appVars, buffer>>
    BY <1>0, <1>8, TakeShape
  <2> QED BY <1>0, <2>1 DEF Types, clientVars, appVars
<1>5. ASSUME NEW g \in DOMAIN taken, DoSend(g)
      PROVE  Types'
  <2>1. /\ taken' \in Seq(Message) /\ overtaken' \subseteq Clients \X Clients
        /\ Way[g] \in Message
        /\ IF Here(Way[g].to) THEN Receive(Way[g]) ELSE UNCHANGED <<life, known, seen, events>>
        /\ UNCHANGED <<moves, acts, appVars, buffer, m_queue, putPc>>
    BY <1>0, <1>5, DoSendShape
  <2>2. /\ known' \in [Clients -> SUBSET (Clients \union {NoSeat} \union (Clients \X Positions))]
        /\ life' \in [Clients -> {"new", "up", "in", "gone"}] /\ events' \in Seq(EventType)
    <3>1. ASSUME NEW m \in Message, Receive(m)
          PROVE  /\ known' \in [Clients -> SUBSET (Clients \union {NoSeat} \union (Clients \X Positions))]
                 /\ life' \in [Clients -> {"new", "up", "in", "gone"}] /\ events' \in Seq(EventType)
      <4>1. /\ known' \in [Clients -> SUBSET (Clients \union {NoSeat} \union (Clients \X Positions))]
            /\ life' \in [Clients -> {"new", "up", "in", "gone"}] /\ m.to \in Clients
            /\ \/ events' = Append(events, [kind |-> "user_info", who |-> m.to, pos |-> 0])
               \/ events' = events
        BY <1>0, <3>1, ReceiveShape
      <4>2. [kind |-> "user_info", who |-> m.to, pos |-> 0] \in EventType
        BY <4>1, SceneAssumption DEF EventType, Positions
      <4>3. events \in Seq(EventType)
        BY <1>0 DEF Types
      <4> QED BY <4>1, <4>2, <4>3, AppendProperties
    <3>2. CASE UNCHANGED <<life, known, seen, events>>
      BY <1>0, <3>2 DEF Types
    <3> QED BY <2>1, <3>1, <3>2
  <2> QED BY <1>0, <2>1, <2>2 DEF Types, appVars
<1>6. ASSUME NEW c \in Clients, ClientActs(c)
      PROVE  Types'
  <2>1. UNCHANGED <<known, appVars, buffer, sendVars>>
    BY <1>0, <1>6, ClientShape
  <2>2. /\ life' \in [Clients -> {"new", "up", "in", "gone"}]
        /\ acts' \in Positions /\ moves' \in [Clients -> Positions]
        /\ \A d \in Clients : moves'[d] <= acts'
    BY <1>0, <1>6, ClientShape
  <2>3. PICK kind \in {"link_connected", "link_disconnected", "transform",
                       "seen_external", "stop_seen_external", "global_transform"}, n \in Positions :
              events' = Append(events, [kind |-> kind, who |-> c, pos |-> n])
    BY <1>0, <1>6, ClientShape
  <2>4. [kind |-> kind, who |-> c, pos |-> n] \in EventType
    BY DEF EventType
  <2>5. events' \in Seq(EventType)
    BY <1>0, <2>3, <2>4, AppendProperties DEF Types
  <2> QED BY <1>0, <2>1, <2>2, <2>5 DEF Types, appVars, sendVars
<1>7. CASE Center
  <2>1. UNCHANGED <<life, moves, known, events, appVars, buffer, sendVars>>
        /\ (acts' = acts \/ (acts < MaxActs /\ acts' = acts + 1))
    BY <1>7 DEF Center, CenterConnects, CenterCloses, CenterTakes, CenterSends, CenterRest,
                Acts, clientVars
  <2>2. acts' \in Positions /\ acts <= acts' /\ \A c \in Clients : moves[c] <= acts'
    <3>1. acts \in Positions /\ MaxActs \in Nat /\ \A c \in Clients : moves[c] \in Positions /\ moves[c] <= acts
      BY <1>0, SceneAssumption DEF Types
    <3> QED BY <2>1, <3>1 DEF Positions
  <2> QED BY <1>0, <2>1, <2>2 DEF Types, appVars, sendVars
<1> QED BY <1>1, <1>2, <1>3, <1>4, <1>5, <1>6, <1>7, <1>8 DEF Next

\* What is left of a queue was in it.
LEMMA TailIn ==
    ASSUME NEW S, NEW q \in Seq(S), q # <<>>
    PROVE  \A k \in DOMAIN Tail(q) : \E j \in DOMAIN q : Tail(q)[k] = q[j]
BY TailShape

LEMMA ThreadNames == "app" \in Threads /\ "timer" \in Threads /\ \A t \in Threads : t = "app" \/ t = "timer"
BY DEF Threads

\* What a send does to what its thread has to put.
LEMMA TodoShape ==
    ASSUME Types, NEW t \in Threads, Send(t)
    PROVE  \A s \in Threads : \A k \in DOMAIN todo'[s] : \E j \in DOMAIN todo[s] : todo'[s][k] = todo[s][j]
<1>1. todo[t] \in Seq(Message) /\ todo[t] # <<>>
  BY SendShape DEF Types
<1>2. CASE UNCHANGED todo
  BY <1>2
<1>3. CASE todo'[t] = Tail(todo[t]) /\ \A s \in Threads : s # t => todo'[s] = todo[s]
  <2>1. \A k \in DOMAIN todo'[t] : \E j \in DOMAIN todo[t] : todo'[t][k] = todo[t][j]
    BY <1>1, <1>3, TailIn
  <2> QED BY <1>3, <2>1
<1> QED BY <1>2, <1>3, SendShape

LEMMA HeldStep == Inv /\ Next => Held'
<1> SUFFICES ASSUME Inv, Next PROVE Held'
  OBVIOUS
<1>0. Types /\ Held
  BY DEF Inv
<1>1. CASE App
  BY <1>0, <1>1, AppShape DEF Held, Aside
<1>2. CASE Timer
  <2>1. /\ pc'["app"] = pc["app"]
        /\ \A j \in DOMAIN todo'["timer"] : todo'["timer"][j].kind = "transform"
        /\ \/ m_Mutex \in {"free", "timer"} /\ m_Mutex' = "timer"
           \/ m_Mutex = "timer" /\ pc'["timer"] = Idle /\ todo'["timer"] = <<>> /\ buffer' = {}
    BY <1>0, <1>2, TimerShape
  <2> QED BY <1>0, <2>1 DEF Held
<1>3. ASSUME NEW t \in Threads, Send(t)
      PROVE  Held'
  <2>1. UNCHANGED <<m_Mutex, pc, buffer>> /\ todo[t] # <<>>
        /\ \A s \in Threads : s # t => todo'[s] = todo[s]
    BY <1>0, <1>3, SendShape
  <2>2. m_Mutex # "timer" => todo'["timer"] = <<>>
    BY <1>0, <2>1, ThreadNames DEF Held
  <2>3. \A k \in DOMAIN todo'["timer"] : todo'["timer"][k].kind = "transform"
    BY <1>0, <1>3, TodoShape, ThreadNames DEF Held
  <2> QED BY <1>0, <2>1, <2>2, <2>3 DEF Held
<1>4. CASE SpuriousWakeup
  BY <1>0, <1>4 DEF Held, SpuriousWakeup, appVars
<1>8. CASE TakeMessage
  BY <1>0, <1>8 DEF Held, TakeMessage, appVars
<1>5. ASSUME NEW g \in DOMAIN taken, DoSend(g)
      PROVE  Held'
  <2>1. UNCHANGED <<appVars, buffer>>
    BY <1>0, <1>5, DoSendShape
  <2> QED BY <1>0, <2>1 DEF Held, appVars
<1>6. ASSUME NEW c \in Clients, ClientActs(c)
      PROVE  Held'
  <2>1. UNCHANGED <<appVars, buffer>>
    BY <1>0, <1>6, ClientShape
  <2> QED BY <1>0, <2>1 DEF Held, appVars
<1>7. CASE Center
  <2>1. UNCHANGED <<appVars, buffer>>
    BY <1>7 DEF Center, CenterConnects, CenterCloses, CenterTakes, CenterSends, CenterRest
  <2> QED BY <1>0, <2>1 DEF Held, appVars
<1> QED BY <1>1, <1>2, <1>3, <1>4, <1>5, <1>6, <1>7, <1>8 DEF Next

LEMMA BatchStep == Inv /\ Next => BatchIsCurrent'
<1> SUFFICES ASSUME Inv, Next PROVE BatchIsCurrent'
  OBVIOUS
<1>0. Types /\ Held /\ BatchIsCurrent
  BY DEF Inv
<1>1. Held'
  BY HeldStep
<1>2. m_Mutex' # "timer" => BatchIsCurrent'
  <2>1. ASSUME todo'["timer"] = <<>>, buffer' = {} PROVE BatchIsCurrent'
    <3>1. Range(<<>>) = {}
      BY DEF Range
    <3> QED BY <2>1, <3>1 DEF BatchIsCurrent
  <2> QED BY <1>1, <2>1 DEF Held
<1>3. ASSUME UNCHANGED <<players, buffer, pc>>,
             \A k \in DOMAIN todo'["timer"] : \E j \in DOMAIN todo["timer"] :
                todo'["timer"][k] = todo["timer"][j]
      PROVE  BatchIsCurrent'
  <2>1. \A m \in Range(todo'["timer"]) : m \in Range(todo["timer"])
    BY <1>3 DEF Range
  <2>2. \A m \in Range(todo'["timer"]) : IsPlayer(m.to)'
    BY <1>0, <1>3, <2>1 DEF BatchIsCurrent, IsPlayer
  <2>3. \A b \in buffer' : \E p \in Range(players') :
            p.link = b[1] /\ p.pos = b[2] /\ p.type = pc'["timer"].at
    BY <1>0, <1>3 DEF BatchIsCurrent
  <2> QED BY <2>2, <2>3 DEF BatchIsCurrent
<1>4. CASE App
  <2>1. CASE m_Mutex' = "timer"
    <3>1. players' = players /\ todo'["timer"] = todo["timer"] /\ pc'["timer"] = pc["timer"] /\ buffer' = buffer
      BY <1>4, <2>1, AppShape DEF Aside
    <3>2. \A m \in Range(todo'["timer"]) : IsPlayer(m.to)'
      BY <1>0, <3>1 DEF BatchIsCurrent, IsPlayer
    <3>3. \A b \in buffer' : \E p \in Range(players') :
              p.link = b[1] /\ p.pos = b[2] /\ p.type = pc'["timer"].at
      BY <1>0, <3>1 DEF BatchIsCurrent
    <3> QED BY <3>2, <3>3 DEF BatchIsCurrent
  <2> QED BY <1>2, <2>1
<1>5. CASE Timer
  BY <1>0, <1>2, <1>5, TimerShape
<1>6. ASSUME NEW t \in Threads, Send(t)
      PROVE  BatchIsCurrent'
  BY <1>0, <1>3, <1>6, SendShape, TodoShape, ThreadNames
<1>7. CASE SpuriousWakeup
  BY <1>3, <1>7 DEF SpuriousWakeup, appVars
<1>8. CASE TakeMessage
  BY <1>3, <1>8 DEF TakeMessage, appVars
<1>11. ASSUME NEW g \in DOMAIN taken, DoSend(g)
       PROVE  BatchIsCurrent'
  <2>1. UNCHANGED <<appVars, buffer>>
    BY <1>0, <1>11, DoSendShape
  <2> QED BY <1>3, <2>1 DEF appVars
<1>9. ASSUME NEW c \in Clients, ClientActs(c)
      PROVE  BatchIsCurrent'
  <2>1. UNCHANGED <<appVars, buffer>>
    BY <1>0, <1>9, ClientShape
  <2> QED BY <1>3, <2>1 DEF appVars
<1>10. CASE Center
  <2>1. UNCHANGED <<appVars, buffer>>
    BY <1>10 DEF Center, CenterConnects, CenterCloses, CenterTakes, CenterSends, CenterRest
  <2> QED BY <1>3, <2>1 DEF appVars
<1> QED BY <1>4, <1>5, <1>6, <1>7, <1>8, <1>9, <1>10, <1>11 DEF Next
-----------------------------------------------------------------------------
(* Who has not connected yet                                               *)

LEMMA LifeStep ==
    ASSUME Inv, Next
    PROVE  \A c \in Clients : life[c] # "new" => life'[c] # "new"
<1>0. Types
  BY DEF Inv
<1>1. CASE UNCHANGED life
  BY <1>1
<1>2. ASSUME NEW g \in DOMAIN taken, DoSend(g)
      PROVE  \A c \in Clients : life[c] # "new" => life'[c] # "new"
  <2>1. Way[g] \in Message
        /\ IF Here(Way[g].to) THEN Receive(Way[g]) ELSE UNCHANGED <<life, known, seen, events>>
    BY <1>0, <1>2, DoSendShape
  <2>2. ASSUME NEW m \in Message, Receive(m)
        PROVE  \A c \in Clients : life[c] # "new" => life'[c] # "new"
    <3>1. /\ \A c \in Clients : c # m.to => life'[c] = life[c]
          /\ life'[m.to] = IF m.kind = "link_connected" THEN "in" ELSE life[m.to]
      BY <1>0, <2>2, ReceiveShape
    <3> QED BY <3>1
  <2> QED BY <1>1, <2>1, <2>2
<1>3. ASSUME NEW c \in Clients, ClientActs(c)
      PROVE  \A d \in Clients : life[d] # "new" => life'[d] # "new"
  <2>1. life'[c] # "new" /\ \A d \in Clients : d # c => life'[d] = life[d]
    BY <1>0, <1>3, ClientShape
  <2> QED BY <2>1
<1>4. ASSUME \/ App \/ Timer \/ (\E t \in Threads : Send(t)) \/ SpuriousWakeup
             \/ TakeMessage \/ Center
      PROVE  UNCHANGED life
  <2>1. Held
    BY DEF Inv
  <2>2. App => UNCHANGED life
    BY AppShape DEF Aside, clientVars
  <2>3. Timer => UNCHANGED life
    BY <1>0, <2>1, TimerShape DEF clientVars
  <2>4. \A t \in Threads : Send(t) => UNCHANGED life
    BY DEF Send, clientVars
  <2>5. SpuriousWakeup => UNCHANGED life
    BY DEF SpuriousWakeup, clientVars
  <2>7. TakeMessage => UNCHANGED life
    BY DEF TakeMessage, clientVars
  <2>6. Center => UNCHANGED life
    BY DEF Center, CenterConnects, CenterCloses, CenterTakes, CenterSends, CenterRest, clientVars
  <2> QED BY <1>4, <2>2, <2>3, <2>4, <2>5, <2>6, <2>7
<1> QED BY <1>1, <1>2, <1>3, <1>4 DEF Next

LEMMA AliveStep == Inv /\ Next => Alive'
<1> SUFFICES ASSUME Inv, Next PROVE Alive'
  OBVIOUS
<1>0. Types /\ Held /\ Alive
  BY DEF Inv
<1>1. /\ \A k \in DOMAIN players : players[k].link \in Clients
      /\ \A k \in DOMAIN events : events[k].who \in Clients
      /\ \A k \in DOMAIN Way : Way[k].to \in Clients
      /\ \A t \in Threads : \A k \in DOMAIN todo[t] : todo[t][k].to \in Clients
  <2>1. \A t \in Threads : \A k \in DOMAIN todo[t] : todo[t][k] \in Message
    BY <1>0 DEF Types
  <2>2. /\ \A k \in DOMAIN players : players[k] \in PlayerType
        /\ \A k \in DOMAIN events : events[k] \in EventType
        /\ \A k \in DOMAIN Way : Way[k] \in Message
    BY <1>0, WayShape DEF Types
  <2> QED BY <2>1, <2>2 DEF PlayerType, EventType, Message
<1>2. \A c \in Clients : life[c] # "new" => life'[c] # "new"
  BY LifeStep
<1>3. ASSUME UNCHANGED <<players, todo>>
      PROVE  /\ \A k \in DOMAIN players' : life'[players'[k].link] # "new"
             /\ \A t \in Threads : \A k \in DOMAIN todo'[t] : life'[todo'[t][k].to] # "new"
  BY <1>0, <1>1, <1>2, <1>3 DEF Alive
<1>4. UNCHANGED events => \A k \in DOMAIN events' : life'[events'[k].who] # "new"
  BY <1>0, <1>1, <1>2 DEF Alive
<1>5. UNCHANGED Way => \A k \in DOMAIN Way' : life'[Way'[k].to] # "new"
  BY <1>0, <1>1, <1>2 DEF Alive
<1>6. UNCHANGED <<life, known>> => \A c \in Clients : life'[c] = "new" => known'[c] = {}
  BY <1>0 DEF Alive
<1>7. CASE App
  <2>1. /\ UNCHANGED <<life, known, Way>> /\ todo'["timer"] = todo["timer"]
        /\ \A k \in DOMAIN players' : life[players'[k].link] # "new"
        /\ \A k \in DOMAIN events' : \E j \in DOMAIN events : events'[k] = events[j]
        /\ \A k \in DOMAIN todo'["app"] : life[todo'["app"][k].to] # "new"
    BY <1>7, AppShape DEF Aside, clientVars, sendVars, Way
  <2>2. \A k \in DOMAIN events' : life[events'[k].who] # "new"
    BY <1>0, <2>1 DEF Alive
  <2>3. \A t \in Threads : \A k \in DOMAIN todo'[t] : life[todo'[t][k].to] # "new"
    BY <1>0, <2>1, ThreadNames DEF Alive
  <2> QED BY <1>5, <1>6, <2>1, <2>2, <2>3 DEF Alive
<1>8. CASE Timer
  <2>1. /\ UNCHANGED <<life, known, events, Way>> /\ todo'["app"] = todo["app"]
        /\ DOMAIN players' = DOMAIN players
        /\ \A k \in DOMAIN players : players'[k].link = players[k].link
        /\ \A j \in DOMAIN todo'["timer"] : \E k \in DOMAIN players : players[k].link = todo'["timer"][j].to
    BY <1>0, <1>8, TimerShape DEF SameSeats, Same, clientVars, sendVars, Way
  <2>2. \A k \in DOMAIN players' : life[players'[k].link] # "new"
    BY <1>0, <2>1 DEF Alive
  <2>3. \A t \in Threads : \A k \in DOMAIN todo'[t] : life[todo'[t][k].to] # "new"
    BY <1>0, <2>1, ThreadNames DEF Alive
  <2> QED BY <1>4, <1>5, <1>6, <2>1, <2>2, <2>3 DEF Alive
<1>9. ASSUME NEW t \in Threads, Send(t)
      PROVE  Alive'
  <2>1. /\ UNCHANGED <<life, known, events, players>> /\ todo[t] # <<>>
        /\ \/ UNCHANGED Way
           \/ Way' = Append(Way, Head(todo[t]))
    BY <1>0, <1>9, SendShape DEF clientVars
  <2>2. \A s \in Threads : \A k \in DOMAIN todo'[s] : life[todo'[s][k].to] # "new"
    BY <1>0, <1>9, TodoShape DEF Alive
  <2>3. \A k \in DOMAIN players' : life'[players'[k].link] # "new"
    BY <1>0, <2>1 DEF Alive
  <2>4. todo[t] \in Seq(Message) /\ Way \in Seq(Message)
    BY <1>0, WayShape DEF Types
  <2>5. 1 \in DOMAIN todo[t] /\ Head(todo[t]) = todo[t][1] /\ Head(todo[t]) \in Message
    BY <2>1, <2>4, TailShape
  <2>6. life[Head(todo[t]).to] # "new"
    BY <1>0, <2>5 DEF Alive
  <2>7. ASSUME Way' = Append(Way, Head(todo[t]))
        PROVE  \A k \in DOMAIN Way' : life[Way'[k].to] # "new"
    <3>1. /\ Len(Way) \in Nat /\ DOMAIN Way = 1..Len(Way)
          /\ DOMAIN Way' = 1..(Len(Way) + 1)
          /\ \A k \in DOMAIN Way : Way'[k] = Way[k]
          /\ Way'[Len(Way) + 1] = Head(todo[t])
      BY <2>4, <2>5, <2>7, AppendShape
    <3>2. \A k \in DOMAIN Way' : k \in DOMAIN Way \/ k = Len(Way) + 1
      BY <3>1
    <3> QED BY <1>0, <2>6, <3>1, <3>2 DEF Alive
  <2> QED BY <1>4, <1>5, <1>6, <2>1, <2>2, <2>3, <2>7 DEF Alive
<1>10. CASE SpuriousWakeup
  <2>1. UNCHANGED <<life, known, events, players, todo, Way>>
    BY <1>0, <1>10, SpuriousShape DEF clientVars, appVars
  <2> QED BY <1>3, <1>4, <1>5, <1>6, <2>1 DEF Alive
<1>14. CASE TakeMessage
  <2>1. UNCHANGED <<life, known, events, players, todo, Way>>
    BY <1>0, <1>14, TakeShape DEF clientVars, appVars
  <2> QED BY <1>3, <1>4, <1>5, <1>6, <2>1 DEF Alive
<1>11. ASSUME NEW g \in DOMAIN taken, DoSend(g)
       PROVE  Alive'
  <2>0. /\ Way[g] \in Message /\ UNCHANGED <<players, todo>>
        /\ IF Here(Way[g].to) THEN Receive(Way[g]) ELSE UNCHANGED <<life, known, seen, events>>
        /\ \A k \in DOMAIN Way' : \E j \in DOMAIN Way : Way'[k] = Way[j]
    BY <1>0, <1>11, DoSendShape DEF appVars
  <2>1. PICK m \in Message : m = Way[g]
    BY <2>0
  <2>3. \A k \in DOMAIN Way' : life'[Way'[k].to] # "new"
    BY <1>0, <1>1, <1>2, <2>0 DEF Alive
  <2>4. CASE UNCHANGED <<life, known, seen, events>>
    BY <1>3, <1>4, <1>6, <2>0, <2>3, <2>4 DEF Alive
  <2>5. CASE Here(m.to) /\ Receive(m)
    <3>1. /\ m.to \in Clients
          /\ \A c \in Clients : c # m.to => known'[c] = known[c] /\ life'[c] = life[c]
          /\ \/ events' = Append(events, [kind |-> "user_info", who |-> m.to, pos |-> 0])
             \/ events' = events
      BY <1>0, <2>5, ReceiveShape
    <3>2. life'[m.to] # "new"
      BY <1>2, <2>5, <3>1 DEF Here
    <3>3. \A c \in Clients : life'[c] = "new" => known'[c] = {}
      BY <1>0, <3>1, <3>2 DEF Alive
    <3>4. ASSUME NEW e \in EventType, e.who = m.to, events' = Append(events, e)
          PROVE  \A k \in DOMAIN events' : life'[events'[k].who] # "new"
      <4>1. /\ Len(events) \in Nat /\ DOMAIN events = 1..Len(events)
            /\ DOMAIN events' = 1..(Len(events) + 1)
            /\ \A k \in DOMAIN events : events'[k] = events[k]
            /\ events'[Len(events) + 1] = e
        BY <1>0, <3>4, AppendShape DEF Types
      <4>2. \A k \in DOMAIN events' : k \in DOMAIN events \/ k = Len(events) + 1
        BY <4>1
      <4> QED BY <1>0, <1>1, <1>2, <3>2, <3>4, <4>1, <4>2 DEF Alive
    <3>5. [kind |-> "user_info", who |-> m.to, pos |-> 0] \in EventType
      BY <3>1, SceneAssumption DEF EventType, Positions
    <3>6. \A k \in DOMAIN events' : life'[events'[k].who] # "new"
      BY <1>4, <3>1, <3>4, <3>5
    <3> QED BY <1>3, <2>0, <2>3, <3>3, <3>6 DEF Alive
  <2> QED BY <2>0, <2>1, <2>4, <2>5
<1>12. ASSUME NEW c \in Clients, ClientActs(c)
       PROVE  Alive'
  <2>1. /\ UNCHANGED <<known, players, todo, Way>>
        /\ life'[c] # "new" /\ \A d \in Clients : d # c => life'[d] = life[d]
    BY <1>0, <1>12, ClientShape DEF appVars, sendVars, Way
  <2>2. PICK kind \in {"link_connected", "link_disconnected", "transform",
                       "seen_external", "stop_seen_external", "global_transform"}, n \in Positions :
              events' = Append(events, [kind |-> kind, who |-> c, pos |-> n])
    BY <1>0, <1>12, ClientShape
  <2>3. PICK e \in EventType : e = [kind |-> kind, who |-> c, pos |-> n] /\ e.who = c
    <3>1. [kind |-> kind, who |-> c, pos |-> n] \in EventType
      BY DEF EventType
    <3> QED BY <3>1
  <2>4. /\ Len(events) \in Nat /\ DOMAIN events = 1..Len(events)
        /\ DOMAIN events' = 1..(Len(events) + 1)
        /\ \A k \in DOMAIN events : events'[k] = events[k]
        /\ events'[Len(events) + 1] = e
    BY <1>0, <2>2, <2>3, AppendShape DEF Types
  <2>5. \A k \in DOMAIN events' : k \in DOMAIN events \/ k = Len(events) + 1
    BY <2>4
  <2>6. \A k \in DOMAIN events' : life'[events'[k].who] # "new"
    BY <1>0, <1>1, <1>2, <2>1, <2>3, <2>4, <2>5 DEF Alive
  <2>7. \A d \in Clients : life'[d] = "new" => known'[d] = {}
    BY <1>0, <2>1 DEF Alive
  <2> QED BY <1>3, <1>5, <2>1, <2>6, <2>7 DEF Alive
<1>13. CASE Center
  <2>1. UNCHANGED <<life, known, events, players, todo, Way>>
    BY <1>13 DEF Center, CenterConnects, CenterCloses, CenterTakes, CenterSends, CenterRest,
                 appVars, sendVars, Way, clientVars
  <2> QED BY <1>3, <1>4, <1>5, <1>6, <2>1 DEF Alive
<1> QED BY <1>7, <1>8, <1>9, <1>10, <1>11, <1>12, <1>13, <1>14 DEF Next
-----------------------------------------------------------------------------
(* The list and the clients                                                *)

\* A new event leaves the others where they are.
LEMMA EventAppended ==
    ASSUME Types, NEW e \in EventType, events' = Append(events, e)
    PROVE  /\ Len(events) \in Nat /\ DOMAIN events = 1..Len(events) /\ Len(events) + 1 \in DOMAIN events'
           /\ \A k \in DOMAIN events : k \in DOMAIN events' /\ events'[k] = events[k]
           /\ events'[Len(events) + 1] = e
           /\ \A k \in DOMAIN events' : k \in DOMAIN events \/ k = Len(events) + 1
           /\ \A k \in DOMAIN events : k <= Len(events) + 1
           /\ \A kind, c : Pending(kind, c) \/ (e.kind = kind /\ e.who = c) => Pending(kind, c)'
<1>1. /\ Len(events) \in Nat /\ DOMAIN events = 1..Len(events)
      /\ DOMAIN events' = 1..(Len(events) + 1)
      /\ \A k \in DOMAIN events : k \in DOMAIN events' /\ events'[k] = events[k]
      /\ events'[Len(events) + 1] = e
  BY AppendShape DEF Types
<1>2. /\ Len(events) + 1 \in DOMAIN events' /\ \A k \in DOMAIN events : k <= Len(events) + 1
      /\ \A k \in DOMAIN events' : k \in DOMAIN events \/ k = Len(events) + 1
  BY <1>1
<1>3. ASSUME NEW kind, NEW c, Pending(kind, c) \/ (e.kind = kind /\ e.who = c)
      PROVE  \E k \in DOMAIN events' : events'[k].kind = kind /\ events'[k].who = c
  BY <1>1, <1>2, <1>3 DEF Pending
<1> QED BY <1>1, <1>2, <1>3 DEF Pending

\* Whatever happens to a client, the events still fit, and so does the new one.
LEMMA EventsFitAppended ==
    ASSUME Types, Listed, NEW e \in EventType, events' = Append(events, e),
           \A c : IsPlayer(c)' <=> IsPlayer(c),
           \A c \in Clients : life'[c] # life[c] => c = e.who,
           life[e.who] # "gone",
           \* before, nobody waited for a client to come back
           e.kind = "link_connected" =>
                ~ IsPlayer(e.who) /\ life'[e.who] # "gone" /\ \A k \in DOMAIN events : events[k].who # e.who,
           e.kind = "link_disconnected" <=> life'[e.who] = "gone",
           life[e.who] = "in" => life'[e.who] \in {"in", "gone"},
           e.kind = "user_info" => life'[e.who] = "in",
           e.kind = "seen_external" => e.who \in External
    PROVE  (\A k \in DOMAIN events : EventFits(k))'
<1>0. /\ Len(events) \in Nat /\ DOMAIN events = 1..Len(events) /\ Len(events) + 1 \in DOMAIN events'
      /\ \A k \in DOMAIN events : k \in DOMAIN events' /\ events'[k] = events[k]
      /\ events'[Len(events) + 1] = e
      /\ \A k \in DOMAIN events' : k \in DOMAIN events \/ k = Len(events) + 1
      /\ \A k \in DOMAIN events : k <= Len(events) + 1
      /\ \A kind, c : Pending(kind, c) \/ (e.kind = kind /\ e.who = c) => Pending(kind, c)'
  BY EventAppended
<1>1. \A k \in DOMAIN events : events[k].who \in Clients
  <2>1. \A k \in DOMAIN events : events[k] \in EventType
    BY DEF Types
  <2> QED BY <2>1 DEF EventType
<1>2. ASSUME NEW k \in DOMAIN events'
      PROVE  EventFits(k)'
  <2>1. CASE k \in DOMAIN events
    <3>0. EventFits(k) /\ events'[k] = events[k] /\ events[k].who \in Clients
      BY <1>0, <1>1, <2>1 DEF Listed
    <3>1. ASSUME events[k].kind = "link_connected"
          PROVE  /\ ~ IsPlayer(events[k].who)'
                 /\ \A j \in DOMAIN events' : events'[j].who = events[k].who => k <= j
                 /\ life'[events[k].who] = "gone" => Pending("link_disconnected", events[k].who)'
      <4>1. ~ IsPlayer(events[k].who)' /\ \A j \in DOMAIN events : events[j].who = events[k].who => k <= j
        BY <3>0, <3>1 DEF EventFits
      <4>2. ASSUME NEW j \in DOMAIN events', events'[j].who = events[k].who
            PROVE  k <= j
        BY <1>0, <2>1, <4>1, <4>2
      <4>3. life'[events[k].who] = "gone" => Pending("link_disconnected", events[k].who)'
        <5>1. CASE events[k].who = e.who
          BY <1>0, <5>1
        <5>2. CASE events[k].who # e.who
          BY <1>0, <3>0, <3>1, <5>2 DEF EventFits
        <5> QED BY <5>1, <5>2
      <4> QED BY <4>1, <4>2, <4>3
    <3>2. events[k].kind = "link_disconnected" => life'[events[k].who] = "gone"
      BY <3>0 DEF EventFits
    <3>3. events[k].kind = "user_info" => life'[events[k].who] \in {"in", "gone"}
      BY <3>0 DEF EventFits
    <3>4. events[k].kind = "seen_external" => events[k].who \in External
      BY <3>0 DEF EventFits
    <3> QED BY <3>0, <3>1, <3>2, <3>3, <3>4 DEF EventFits
  <2>2. CASE k = Len(events) + 1
    <3>1. ASSUME e.kind = "link_connected"
          PROVE  \A j \in DOMAIN events' : events'[j].who = e.who => k <= j
      BY <1>0, <2>2, <3>1
    <3>2. events'[k] = e
      BY <1>0, <2>2
    <3> QED BY <3>1, <3>2 DEF EventFits
  <2> QED BY <1>0, <2>1, <2>2
<1> QED BY <1>2

\* Handling an event leaves the others where they are.
LEMMA PendingKept ==
    ASSUME Types, NEW kind, Handles(kind), NEW other, NEW c, Pending(other, c),
           other # kind \/ c # First.who
    PROVE  Pending(other, c)'
<1>1. /\ First = events[1] /\ First.kind = kind
      /\ \A k \in DOMAIN events : k = 1 \/ (k - 1 \in DOMAIN events' /\ events'[k - 1] = events[k])
  BY HandlesShape
<1>2. PICK k \in DOMAIN events : events[k].kind = other /\ events[k].who = c
  BY DEF Pending
<1>3. k - 1 \in DOMAIN events' /\ events'[k - 1] = events[k]
  BY <1>1, <1>2
<1> QED BY <1>2, <1>3 DEF Pending

LEMMA EventsFitHandled ==
    ASSUME Types, Listed, NEW kind, Handles(kind), UNCHANGED life,
           \A c : IsPlayer(c)' => IsPlayer(c) \/ (kind = "link_connected" /\ c = First.who)
    PROVE  (\A k \in DOMAIN events : EventFits(k))'
<1>0. /\ 1 \in DOMAIN events /\ First = events[1] /\ First.kind = kind
      /\ \A k \in DOMAIN events' : k + 1 \in DOMAIN events /\ events'[k] = events[k + 1]
      /\ events \in Seq(EventType) /\ events' \in Seq(EventType)
  BY HandlesShape DEF Types
<1>1. \A k \in DOMAIN events' : k \in Nat /\ 1 <= k
  BY <1>0
<1>2. ASSUME NEW k \in DOMAIN events'
      PROVE  EventFits(k)'
  <2>0. PICK c : c = events[k + 1].who
    OBVIOUS
  <2>1. EventFits(k + 1) /\ events'[k] = events[k + 1] /\ k + 1 \in DOMAIN events
        /\ events'[k].who = c
    BY <1>0, <1>2, <2>0 DEF Listed
  <2>2. ASSUME events[k + 1].kind = "link_connected"
        PROVE  /\ ~ IsPlayer(c)'
               /\ \A j \in DOMAIN events' : events'[j].who = c => k <= j
               /\ life'[c] = "gone" => Pending("link_disconnected", c)'
    <3>1. /\ ~ IsPlayer(c)
          /\ \A j \in DOMAIN events : events[j].who = c => k + 1 <= j
          /\ life[c] = "gone" => Pending("link_disconnected", c)
      BY <2>0, <2>1, <2>2 DEF EventFits
    <3>2. First.who # c
      BY <1>0, <1>1, <3>1
    <3>3. ~ IsPlayer(c)'
      BY <3>1, <3>2
    <3>4. ASSUME NEW j \in DOMAIN events', events'[j].who = c
          PROVE  k <= j
      <4>1. k + 1 <= j + 1 /\ j \in Nat
        BY <1>0, <1>1, <3>1, <3>4
      <4> QED BY <1>1, <4>1
    <3>5. Pending("link_disconnected", c) => Pending("link_disconnected", c)'
      BY <3>2, PendingKept
    <3> QED BY <3>1, <3>3, <3>4, <3>5
  <2>3. /\ events[k + 1].kind = "link_disconnected" => life'[c] = "gone"
        /\ events[k + 1].kind = "user_info" => life'[c] \in {"in", "gone"}
        /\ events[k + 1].kind = "seen_external" => c \in External
    BY <2>0, <2>1 DEF EventFits
  <2> QED BY <2>1, <2>2, <2>3 DEF EventFits
<1> QED BY <1>2

LEMMA SamePlayers ==
    ASSUME Types, Same(players')
    PROVE  \A c : IsPlayer(c)' <=> IsPlayer(c)
BY DEF Same, IsPlayer

\* A handler that neither adds a player nor removes one.
LEMMA ListedSame ==
    ASSUME Inv, Aside, Same(players'), NEW kind, events' = events \/ Handles(kind),
           \A k \in DOMAIN players :
              \/ players'[k].seat = players[k].seat
              \/ players'[k].seat = players[k].link /\ life[players[k].link] \in {"in", "gone"},
           \A k \in DOMAIN players :
              players'[k].type = players[k].type \/ players'[k].type = "VIP"
                \/ players[k].link \in External,
           kind = "user_info" => \A k \in DOMAIN players :
              players[k].link = First.who => players'[k].seat # NoSeat,
           kind = "link_disconnected" /\ IsPlayer(First.who) =>
              pc'["app"].at = "leaving" /\ pc'["app"].who = First.who,
           \A c : ~ Leaving(c) /\ ~ Greeting(c)', \A c : Leaving(c)' => life[c] = "gone",
           \A k \in DOMAIN todo'["app"] : todo'["app"][k].kind # "link_connected"
    PROVE  Listed'
<1>0. Types /\ Listed
  BY DEF Inv
<1>1. \A c : IsPlayer(c)' <=> IsPlayer(c)
  BY <1>0, SamePlayers
<1>2. UNCHANGED <<life, Way>>
  BY DEF Aside, clientVars, sendVars, Way
<1>3. /\ players' \in Seq(PlayerType) /\ DOMAIN players' = DOMAIN players
      /\ \A k \in DOMAIN players : players'[k].link = players[k].link /\ players[k].link \in Clients
  <2>1. \A k \in DOMAIN players : players[k] \in PlayerType
    BY <1>0 DEF Types
  <2> QED BY <2>1 DEF Same, PlayerType
<1>4. (\A j, k \in DOMAIN players : players[j].link = players[k].link => j = k)'
  BY <1>0, <1>3 DEF Listed
<1>5. (\A k \in DOMAIN events : EventFits(k))'
  <2>1. CASE events' = events
    <3>1. \A other, c : Pending(other, c)' <=> Pending(other, c)
      BY <2>1 DEF Pending
    <3>2. ASSUME NEW k \in DOMAIN events, EventFits(k) PROVE EventFits(k)'
      <4>1. PICK c : c = events[k].who
        OBVIOUS
      <4>2. /\ events[k].kind = "link_connected" =>
                  /\ ~ IsPlayer(c) /\ \A j \in DOMAIN events : events[j].who = c => k <= j
                  /\ life[c] = "gone" => Pending("link_disconnected", c)
            /\ events[k].kind = "link_disconnected" => life[c] = "gone"
            /\ events[k].kind = "user_info" => life[c] \in {"in", "gone"}
            /\ events[k].kind = "seen_external" => c \in External
        BY <3>2, <4>1 DEF EventFits
      <4> QED BY <1>1, <1>2, <2>1, <3>1, <4>1, <4>2 DEF EventFits
    <3> QED BY <1>0, <2>1, <3>2 DEF Listed
  <2>2. CASE Handles(kind)
    BY <1>0, <1>1, <1>2, <2>2, EventsFitHandled
  <2> QED BY <2>1, <2>2
<1>6. (\A k \in DOMAIN players : PlayerFits(players[k]))'
  <2> SUFFICES ASSUME NEW k \in DOMAIN players' PROVE PlayerFits(players[k])'
    OBVIOUS
  <2>1. PICK c \in Clients : c = players[k].link /\ k \in DOMAIN players /\ c = players'[k].link
    BY <1>3
  <2>2. /\ players[k].seat \in {NoSeat, c}
        /\ players[k].seat = c => life[c] \in {"in", "gone"}
        /\ players[k].type = "ExternalVIP" => c \in External
        /\ life[c] = "gone" => Pending("link_disconnected", c) \/ Leaving(c)
        /\ life[c] = "in" /\ players[k].seat = NoSeat => Pending("user_info", c)
    BY <1>0, <2>1, ZenonT(30) DEF Listed, PlayerFits
  <2>3. /\ players'[k].seat \in {NoSeat, c}
        /\ players'[k].seat = c => life'[c] \in {"in", "gone"}
        /\ players'[k].type = "ExternalVIP" => c \in External
    BY <1>2, <2>1, <2>2
  <2>4. life'[c] = "gone" => Pending("link_disconnected", c)' \/ Leaving(c)'
    <3> SUFFICES ASSUME life'[c] = "gone" PROVE Pending("link_disconnected", c)' \/ Leaving(c)'
      OBVIOUS
    <3>1. Pending("link_disconnected", c)
      BY <1>2, <2>2
    <3>2. CASE events' = events
      BY <3>1, <3>2 DEF Pending
    <3>3. CASE Handles(kind)
      <4>1. CASE kind = "link_disconnected" /\ c = First.who
        <5>1. IsPlayer(c)
          BY <2>1 DEF IsPlayer
        <5>2. pc'["app"].at = "leaving" /\ pc'["app"].who = c
          BY <4>1, <5>1
        <5> QED BY <5>2 DEF Leaving
      <4>2. CASE ~ (kind = "link_disconnected" /\ c = First.who)
        <5>1. "link_disconnected" # kind \/ c # First.who
          BY <4>2
        <5> QED BY <1>0, <3>1, <3>3, <5>1, PendingKept
      <4> QED BY <4>1, <4>2
    <3> QED BY <3>2, <3>3
  <2>5. life'[c] = "in" /\ players'[k].seat = NoSeat => Pending("user_info", c)'
    <3> SUFFICES ASSUME life'[c] = "in", players'[k].seat = NoSeat PROVE Pending("user_info", c)'
      OBVIOUS
    <3>1. players[k].seat = NoSeat
      BY <1>2, <2>1, <2>2, SceneAssumption
    <3>2. Pending("user_info", c)
      BY <1>2, <2>2, <3>1
    <3>3. CASE events' = events
      BY <3>2, <3>3 DEF Pending
    <3>4. CASE Handles(kind)
      <4>1. "user_info" # kind \/ c # First.who
        BY <2>1
      <4> QED BY <1>0, <3>2, <3>4, <4>1, PendingKept
    <3> QED BY <3>3, <3>4
  <2> QED BY <2>1, <2>3, <2>4, <2>5 DEF PlayerFits
<1>7. \A c \in Clients : life'[c] = "in" => IsPlayer(c)'
  BY <1>0, <1>1, <1>2 DEF Listed
<1>8. (\A k \in DOMAIN todo["app"] : Greets(todo["app"][k]))'
  BY DEF Greets
<1>9. (\A k \in DOMAIN Way : Greets(Way[k]))'
  <2>1. ASSUME NEW k \in DOMAIN Way, Greets(Way[k]) PROVE Greets(Way[k])'
    <3>1. PICK c : c = Way[k].to
      OBVIOUS
    <3> QED BY <1>1, <1>2, <2>1, <3>1 DEF Greets
  <2> QED BY <1>0, <1>2, <2>1 DEF Listed
<1> QED BY <1>2, <1>4, <1>5, <1>6, <1>7, <1>8, <1>9 DEF Listed

\* A new player is added.
LEMMA ListedAdded ==
    ASSUME Inv, HandleConnected
    PROVE  Listed'
<1>0. Types /\ Listed /\ Alive
  BY DEF Inv
<1>1. /\ Handles("link_connected") /\ Aside
      /\ NewPlayer(First.who) \in PlayerType /\ players' = Append(players, NewPlayer(First.who))
      /\ pc'["app"].at = "greeting" /\ pc'["app"].who = First.who
      /\ \E m \in Message : todo'["app"] = <<m>> /\ m.to = First.who
  BY <1>0, ConnectedShape
<1>2. UNCHANGED <<life, Way>>
  BY <1>1 DEF Aside, clientVars, sendVars, Way
<1>3. PICK c \in Clients : c = First.who
  BY <1>0, <1>1, HandlesShape
<1>4. /\ 1 \in DOMAIN events /\ First = events[1] /\ First.kind = "link_connected"
      /\ pc["app"].at = "idle"
  BY <1>0, <1>1, HandlesShape
<1>5. /\ ~ IsPlayer(c) /\ \A j \in DOMAIN events : events[j].who = c => 1 <= j
      /\ life[c] = "gone" => Pending("link_disconnected", c)
  BY <1>0, <1>3, <1>4 DEF Listed, EventFits
<1>6. PICK n \in Nat :
        /\ DOMAIN players = 1..n /\ DOMAIN players' = 1..(n + 1)
        /\ \A k \in DOMAIN players : k \in DOMAIN players' /\ players'[k] = players[k]
        /\ players'[n + 1] = NewPlayer(c)
        /\ \A k \in DOMAIN players' : k \in DOMAIN players \/ k = n + 1
  <2>1. /\ Len(players) \in Nat /\ DOMAIN players = 1..Len(players)
        /\ DOMAIN players' = 1..(Len(players) + 1)
        /\ \A k \in DOMAIN players : k \in DOMAIN players' /\ players'[k] = players[k]
        /\ players'[Len(players) + 1] = NewPlayer(c)
    BY <1>0, <1>1, <1>3, AppendShape DEF Types
  <2>2. \A k \in DOMAIN players' : k \in DOMAIN players \/ k = Len(players) + 1
    BY <2>1
  <2> QED BY <2>1, <2>2
<1>7. /\ NewPlayer(c).link = c /\ NewPlayer(c).seat = NoSeat /\ NewPlayer(c).type = "VIP"
      /\ n + 1 \in DOMAIN players'
  BY <1>6 DEF NewPlayer
<1>8. \A d : IsPlayer(d)' <=> IsPlayer(d) \/ d = c
  <2>1. \A d : (\E k \in DOMAIN players' : players'[k].link = d) <=>
               (\E k \in DOMAIN players : players[k].link = d) \/ d = c
    BY <1>6, <1>7
  <2> QED BY <2>1 DEF IsPlayer
<1>9. (\A j, k \in DOMAIN players : players[j].link = players[k].link => j = k)'
  <2>1. \A k \in DOMAIN players : players[k].link # c
    BY <1>5 DEF IsPlayer
  <2>2. \A j, k \in DOMAIN players : players[j].link = players[k].link => j = k
    BY <1>0 DEF Listed
  <2> QED BY <1>6, <1>7, <2>1, <2>2
<1>10. (\A k \in DOMAIN events : EventFits(k))'
  BY <1>0, <1>1, <1>2, <1>3, <1>8, EventsFitHandled
<1>11. (\A k \in DOMAIN players : PlayerFits(players[k]))'
  <2> SUFFICES ASSUME NEW k \in DOMAIN players' PROVE PlayerFits(players[k])'
    OBVIOUS
  <2>1. CASE k \in DOMAIN players
    <3>1. PICK d : d = players[k].link /\ d = players'[k].link /\ players'[k] = players[k]
      BY <1>6, <2>1
    <3>2. /\ players[k].seat \in {NoSeat, d}
          /\ players[k].seat = d => life[d] \in {"in", "gone"}
          /\ players[k].type = "ExternalVIP" => d \in External
          /\ life[d] = "gone" => Pending("link_disconnected", d) \/ Leaving(d)
          /\ life[d] = "in" /\ players[k].seat = NoSeat => Pending("user_info", d)
      BY <1>0, <2>1, <3>1 DEF Listed, PlayerFits
    <3>3. ~ Leaving(d)
      BY <1>4 DEF Leaving
    <3>4. Pending("link_disconnected", d) => Pending("link_disconnected", d)'
      BY <1>0, <1>1, PendingKept
    <3>5. Pending("user_info", d) => Pending("user_info", d)'
      BY <1>0, <1>1, PendingKept
    <3> QED BY <1>2, <3>1, <3>2, <3>3, <3>4, <3>5 DEF PlayerFits
  <2>2. CASE k = n + 1
    <3>1. players'[k].link = c /\ players'[k].seat = NoSeat /\ players'[k].type = "VIP" /\ NoSeat # c
      BY <1>6, <1>7, <2>2, SceneAssumption
    <3>2. life[c] # "in"
      BY <1>0, <1>5 DEF Listed
    <3>3. life[c] = "gone" => Pending("link_disconnected", c)'
      BY <1>0, <1>1, <1>5, PendingKept
    <3> QED BY <1>2, <3>1, <3>2, <3>3 DEF PlayerFits
  <2> QED BY <1>6, <2>1, <2>2
<1>12. (\A d \in Clients : Greeting(d) => IsPlayer(d))' /\ (\A d \in Clients : Leaving(d) => life[d] = "gone")'
  BY <1>1, <1>3, <1>8 DEF Greeting, Leaving
<1>13. \A d \in Clients : life'[d] = "in" => IsPlayer(d)'
  BY <1>0, <1>2, <1>8 DEF Listed
<1>14. (\A k \in DOMAIN todo["app"] : Greets(todo["app"][k]))'
  <2>1. PICK m \in Message : todo'["app"] = <<m>> /\ m.to = c
    BY <1>1, <1>3
  <2>2. \A k \in DOMAIN todo'["app"] : todo'["app"][k].to = c
    BY <2>1
  <2> QED BY <1>8, <2>2 DEF Greets
<1>15. (\A k \in DOMAIN Way : Greets(Way[k]))'
  <2>1. ASSUME NEW k \in DOMAIN Way, Greets(Way[k]) PROVE Greets(Way[k])'
    <3>1. PICK d : d = Way[k].to
      OBVIOUS
    <3> QED BY <1>2, <1>8, <2>1, <3>1 DEF Greets
  <2> QED BY <1>0, <1>2, <2>1 DEF Listed
<1> QED BY <1>9, <1>10, <1>11, <1>12, <1>13, <1>14, <1>15 DEF Listed

\* A player who has left is removed.
LEMMA ListedRemoved ==
    ASSUME Inv, DeletePlayer
    PROVE  /\ Listed'
           /\ \E d \in Clients :
                /\ Leaving(d) /\ life[d] = "gone"
                /\ \A c : IsPlayer(c)' <=> IsPlayer(c) /\ c # d
                /\ \A c : Seated(c)' <=> Seated(c) /\ c # d
<1>0. Types /\ Listed /\ Held
  BY DEF Inv
<1>1. /\ Aside /\ events' = events /\ pc["app"].at = "leaving" /\ pc'["app"].at = "idle"
      /\ todo'["app"] = <<>> /\ players' = Others(pc["app"].who)
  BY <1>0, DeleteShape
<1>2. UNCHANGED <<life, Way>>
  BY <1>1 DEF Aside, clientVars, sendVars, Way
<1>3. PICK d \in Clients : d = pc["app"].who /\ Leaving(d) /\ life[d] = "gone"
  BY <1>0, <1>1 DEF Held, Leaving, Listed
<1>4. /\ \A j \in DOMAIN players' : \E k \in DOMAIN players : players[k] = players'[j] /\ players[k].link # d
      /\ \A k \in DOMAIN players : players[k].link # d => \E j \in DOMAIN players' : players'[j] = players[k]
      /\ \A i, j \in DOMAIN players' : players'[i].link = players'[j].link => i = j
  <2>1. \A j, k \in DOMAIN players : players[j].link = players[k].link => j = k
    BY <1>0 DEF Listed
  <2>2. /\ \A j \in DOMAIN Others(d) : \E k \in DOMAIN players : players[k] = Others(d)[j] /\ players[k].link # d
        /\ \A k \in DOMAIN players : players[k].link # d => \E j \in DOMAIN Others(d) : Others(d)[j] = players[k]
        /\ \A i, j \in DOMAIN Others(d) : Others(d)[i].link = Others(d)[j].link => i = j
    BY <1>0, <2>1, OthersShape
  <2>3. players' = Others(d)
    BY <1>1, <1>3
  <2> HIDE DEF Others
  <2> QED BY <2>2, <2>3
<1>5. \A c : IsPlayer(c)' <=> IsPlayer(c) /\ c # d
  <2>1. \A c : (\E j \in DOMAIN players' : players'[j].link = c) <=>
               (\E k \in DOMAIN players : players[k].link = c) /\ c # d
    BY <1>4
  <2> QED BY <2>1 DEF IsPlayer
<1>6. \A c : Seated(c)' <=> Seated(c) /\ c # d
  <2>1. \A c : (\E j \in DOMAIN players' : players'[j].link = c /\ players'[j].seat = c) <=>
               (\E k \in DOMAIN players : players[k].link = c /\ players[k].seat = c) /\ c # d
    BY <1>4
  <2> QED BY <2>1 DEF Seated
<1>7. (\A k \in DOMAIN events : EventFits(k))'
  <2>1. \A other, c : Pending(other, c)' <=> Pending(other, c)
    BY <1>1 DEF Pending
  <2>2. ASSUME NEW k \in DOMAIN events, EventFits(k) PROVE EventFits(k)'
    <3>1. PICK c : c = events[k].who
      OBVIOUS
    <3>2. /\ events[k].kind = "link_connected" =>
                /\ ~ IsPlayer(c) /\ \A j \in DOMAIN events : events[j].who = c => k <= j
                /\ life[c] = "gone" => Pending("link_disconnected", c)
          /\ events[k].kind = "link_disconnected" => life[c] = "gone"
          /\ events[k].kind = "user_info" => life[c] \in {"in", "gone"}
          /\ events[k].kind = "seen_external" => c \in External
      BY <2>2, <3>1 DEF EventFits
    <3> QED BY <1>1, <1>2, <1>5, <2>1, <3>1, <3>2 DEF EventFits
  <2> QED BY <1>0, <1>1, <2>2 DEF Listed
<1>8. (\A k \in DOMAIN players : PlayerFits(players[k]))'
  <2> SUFFICES ASSUME NEW j \in DOMAIN players' PROVE PlayerFits(players[j])'
    OBVIOUS
  <2>1. PICK k \in DOMAIN players : players[k] = players'[j] /\ players[k].link # d
    BY <1>4
  <2>2. PICK c : c = players[k].link /\ c = players'[j].link /\ c # d
    BY <2>1
  <2>3. /\ players[k].seat \in {NoSeat, c}
        /\ players[k].seat = c => life[c] \in {"in", "gone"}
        /\ players[k].type = "ExternalVIP" => c \in External
        /\ life[c] = "gone" => Pending("link_disconnected", c) \/ Leaving(c)
        /\ life[c] = "in" /\ players[k].seat = NoSeat => Pending("user_info", c)
    BY <1>0, <2>1, <2>2 DEF Listed, PlayerFits
  <2>4. ~ Leaving(c) /\ \A other : Pending(other, c)' <=> Pending(other, c)
    BY <1>1, <1>3, <2>2 DEF Leaving, Pending
  <2> QED BY <1>2, <2>1, <2>2, <2>3, <2>4 DEF PlayerFits
<1>9. (\A c \in Clients : Greeting(c) => IsPlayer(c))' /\ (\A c \in Clients : Leaving(c) => life[c] = "gone")'
  BY <1>1 DEF Greeting, Leaving
<1>10. \A c \in Clients : life'[c] = "in" => IsPlayer(c)'
  BY <1>0, <1>2, <1>3, <1>5 DEF Listed
<1>11. (\A k \in DOMAIN todo["app"] : Greets(todo["app"][k]))'
  <2>1. DOMAIN todo'["app"] = {}
    BY <1>1
  <2> QED BY <2>1
<1>12. (\A k \in DOMAIN Way : Greets(Way[k]))'
  <2>1. ASSUME NEW k \in DOMAIN Way, Greets(Way[k]) PROVE Greets(Way[k])'
    <3>1. PICK c : c = Way[k].to
      OBVIOUS
    <3> QED BY <1>2, <1>3, <1>5, <2>1, <3>1 DEF Greets
  <2> QED BY <1>0, <1>2, <2>1 DEF Listed
<1>13. (\A j, k \in DOMAIN players : players[j].link = players[k].link => j = k)'
  BY <1>4
<1>14. Listed'
  BY <1>7, <1>8, <1>9, <1>10, <1>11, <1>12, <1>13 DEF Listed
<1> QED BY <1>3, <1>5, <1>6, <1>14

\* A handler that leaves the list as it is.
LEMMA ListedStill ==
    ASSUME Inv, Aside, players' = players,
           NEW kind, kind \notin {"user_info", "link_disconnected"},
           events' = events \/ Handles(kind),
           \A c : ~ Leaving(c) /\ ~ Greeting(c)' /\ ~ Leaving(c)',
           \A k \in DOMAIN todo'["app"] : todo'["app"][k].kind # "link_connected"
    PROVE  Listed'
<1>1. Same(players')
  BY DEF Inv, Types, Same
<1>2. \A k \in DOMAIN players :
         \/ players'[k].seat = players[k].seat
         \/ players'[k].seat = players[k].link /\ life[players[k].link] \in {"in", "gone"}
  OBVIOUS
<1>3. \A k \in DOMAIN players :
         players'[k].type = players[k].type \/ players'[k].type = "VIP"
           \/ players[k].link \in External
  OBVIOUS
<1>4. /\ kind = "user_info" => \A k \in DOMAIN players :
              players[k].link = First.who => players'[k].seat # NoSeat
      /\ kind = "link_disconnected" /\ IsPlayer(First.who) =>
              pc'["app"].at = "leaving" /\ pc'["app"].who = First.who
  OBVIOUS
<1>5. (\A c : ~ Leaving(c) /\ ~ Greeting(c)') /\ (\A c : Leaving(c)' => life[c] = "gone")
  OBVIOUS
<1> QED BY <1>1, <1>2, <1>3, <1>4, <1>5, ListedSame

LEMMA ListedApp ==
    ASSUME Inv, App
    PROVE  Listed'
<1>0. Types /\ Listed /\ Held /\ Distinct
  BY DEF Inv, Listed, Distinct
<1>1. Same(players)
  BY <1>0 DEF Types, Same
<1>2. pc["app"].at \in {"idle", "greeting", "sending"} => \A c : ~ Leaving(c)
  BY DEF Leaving
<1>3. pc'["app"].at \in {"idle", "sending"} => \A c : ~ Leaving(c)' /\ ~ Greeting(c)'
  BY DEF Leaving, Greeting
<1>4. \A kind : Handles(kind) => pc["app"].at = "idle" /\ First.who \in Clients
  <2> SUFFICES ASSUME NEW kind, Handles(kind) PROVE pc["app"].at = "idle" /\ First.who \in Clients
    OBVIOUS
  <2> QED BY <1>0, HandlesShape
<1>5. CASE HandleConnected
  BY <1>5, ListedAdded
<1>6. CASE SendUserInfoList
  <2>1. /\ Aside /\ players' = players /\ events' = events
        /\ pc["app"].at = "greeting" /\ pc'["app"].at = "sending"
        /\ \/ todo'["app"] = <<>>
           \/ \E m \in Message : todo'["app"] = <<m>> /\ m.kind = "client_list"
    BY <1>0, <1>6, UserInfoListShape
  <2>2. \A k \in DOMAIN todo'["app"] : todo'["app"][k].kind # "link_connected"
    BY <2>1
  <2>3. \A c : ~ Leaving(c) /\ ~ Greeting(c)' /\ ~ Leaving(c)'
    BY <1>2, <1>3, <2>1
  <2>4. PICK kind : kind = "none"
    OBVIOUS
  <2> QED BY <2>1, <2>2, <2>3, <2>4, ListedStill
<1>7. CASE Unlock
  <2>1. /\ Aside /\ players' = players /\ events' = events
        /\ pc["app"].at = "sending" /\ pc'["app"].at = "idle" /\ todo'["app"] = <<>>
    BY <1>0, <1>7, UnlockShape
  <2>2. \A c : ~ Leaving(c) /\ ~ Greeting(c)' /\ ~ Leaving(c)'
    BY <1>2, <1>3, <2>1
  <2>3. PICK kind : kind = "none"
    OBVIOUS
  <2>4. \A k \in DOMAIN todo'["app"] : todo'["app"][k].kind # "link_connected"
    BY <2>1
  <2> QED BY <2>1, <2>2, <2>3, <2>4, ListedStill
<1>8. CASE HandleDisconnected
  <2>1. /\ Handles("link_disconnected") /\ Aside /\ players' = players
        /\ \/ ~ IsPlayer(First.who) /\ pc'["app"].at = "idle" /\ todo'["app"] = <<>>
           \/ /\ pc'["app"].at = "leaving" /\ pc'["app"].who = First.who
              /\ DOMAIN todo'["app"] = DOMAIN players
              /\ \A k \in DOMAIN players : todo'["app"][k].kind = "ply_leave"
    BY <1>0, <1>8, DisconnectedShape
  <2>2. /\ Same(players')
        /\ \A k \in DOMAIN players : players'[k].seat = players[k].seat
        /\ \A k \in DOMAIN players : players'[k].type = players[k].type
    BY <1>1, <2>1
  <2>3. life[First.who] = "gone"
    <3>1. 1 \in DOMAIN events /\ First = events[1] /\ First.kind = "link_disconnected"
      BY <1>0, <2>1, HandlesShape
    <3> QED BY <1>0, <3>1 DEF Listed, EventFits
  <2>4. \A c : ~ Leaving(c) /\ ~ Greeting(c)'
    BY <1>2, <1>4, <2>1 DEF Greeting
  <2>5. \A c : Leaving(c)' => life[c] = "gone"
    BY <2>1, <2>3 DEF Leaving
  <2>6. \A k \in DOMAIN todo'["app"] : todo'["app"][k].kind # "link_connected"
    BY <2>1
  <2> QED BY <2>1, <2>2, <2>4, <2>5, <2>6, ListedSame
<1>9. CASE DeletePlayer
  BY <1>9, ListedRemoved
<1>10. CASE HandleUserInfo
  <2>1. /\ Handles("user_info") /\ Aside /\ Same(players') /\ pc'["app"].at = "idle"
        /\ \A k \in DOMAIN players : /\ players'[k].type = players[k].type
                                     /\ players[k].link = First.who => players'[k].seat = First.who
                                     /\ players[k].link # First.who => players'[k].seat = players[k].seat
        /\ \A j \in DOMAIN todo'["app"] : todo'["app"][j].kind = "new_user_online"
    BY <1>0, <1>10, UserInfoShape
  <2>2. life[First.who] \in {"in", "gone"}
    <3>1. 1 \in DOMAIN events /\ First = events[1] /\ First.kind = "user_info"
      BY <1>0, <2>1, HandlesShape
    <3> QED BY <1>0, <3>1 DEF Listed, EventFits
  <2>3. First.who # NoSeat
    BY <1>4, <2>1, SceneAssumption
  <2>4. \A c : ~ Leaving(c) /\ ~ Greeting(c)' /\ ~ Leaving(c)'
    BY <1>2, <1>3, <1>4, <2>1
  <2>5. \A k \in DOMAIN players :
            \/ players'[k].seat = players[k].seat
            \/ players'[k].seat = players[k].link /\ life[players[k].link] \in {"in", "gone"}
    BY <2>1, <2>2
  <2>6. \A k \in DOMAIN players : players[k].link = First.who => players'[k].seat # NoSeat
    BY <2>1, <2>3
  <2>7. \A k \in DOMAIN todo'["app"] : todo'["app"][k].kind # "link_connected"
    BY <2>1
  <2>8. \A k \in DOMAIN players : players'[k].type = players[k].type
    BY <2>1
  <2> QED BY <2>1, <2>4, <2>5, <2>6, <2>7, <2>8, ListedSame
<1>11. CASE HandleTransform
  <2>1. /\ Handles("transform") /\ Aside /\ Same(players')
        /\ \A k \in DOMAIN players : players'[k].seat = players[k].seat
        /\ \A k \in DOMAIN players : players'[k].type = players[k].type
        /\ pc'["app"].at = "idle" /\ todo'["app"] = <<>>
    BY <1>0, <1>11, TransformShape DEF SameSeats
  <2>2. \A c : ~ Leaving(c) /\ ~ Greeting(c)' /\ ~ Leaving(c)'
    BY <1>2, <1>3, <1>4, <2>1
  <2> QED BY <2>1, <2>2, ListedSame
<1>12. ASSUME NEW kind \in {"seen_external", "stop_seen_external"},
              NEW type \in {"VIP", "ExternalVIP"}, HandleSeen(kind, type),
              type = "VIP" \/ kind = "seen_external"
       PROVE  Listed'
  <2>1. /\ Handles(kind) /\ Aside /\ Same(players')
        /\ \A k \in DOMAIN players : players'[k].seat = players[k].seat
        /\ \A k \in DOMAIN players : \/ players'[k].type = players[k].type
                                     \/ players[k].seat = First.who /\ players'[k].type = type
        /\ pc'["app"].at = "idle" /\ todo'["app"] = <<>>
    BY <1>0, <1>12, SeenShape DEF SameSeats
  <2>2. \A c : ~ Leaving(c) /\ ~ Greeting(c)' /\ ~ Leaving(c)'
    BY <1>2, <1>3, <1>4, <2>1
  <2>3. 1 \in DOMAIN events /\ First = events[1] /\ First.kind = kind /\ First.who \in Clients
    BY <1>0, <2>1, HandlesShape
  <2>4. kind = "seen_external" => First.who \in External
    BY <1>0, <2>3 DEF Listed, EventFits
  <2>5. \A k \in DOMAIN players : players'[k].type = players[k].type \/ players'[k].type = "VIP"
                                    \/ players[k].link \in External
    <3>1. \A k \in DOMAIN players : players[k].seat \in {NoSeat, players[k].link}
      BY <1>0 DEF Listed, PlayerFits
    <3>2. \A k \in DOMAIN players : players[k].seat = First.who => players[k].link = First.who
      BY <2>3, <3>1, SceneAssumption
    <3> QED BY <1>12, <2>1, <2>4, <3>2
  <2> QED BY <2>1, <2>2, <2>5, ListedSame
<1>13. ASSUME NEW kind, SendMsg,
              \/ Handles("global_transform") /\ kind = "global_transform"
              \/ events' = events /\ kind = "none" /\ pc["app"] = Idle
       PROVE  Listed'
  <2>1. /\ Aside /\ players' = players /\ pc'["app"].at = "sending"
        /\ DOMAIN todo'["app"] = DOMAIN players
        /\ \A k \in DOMAIN players : todo'["app"][k].kind = "global"
    BY <1>0, <1>13, SendMsgShape
  <2>2. \A c : ~ Leaving(c) /\ ~ Greeting(c)' /\ ~ Leaving(c)'
    BY <1>2, <1>3, <1>4, <1>13, <2>1 DEF Idle
  <2>3. \A k \in DOMAIN todo'["app"] : todo'["app"][k].kind # "link_connected"
    BY <2>1
  <2>4. Aside /\ players' = players
    BY <2>1
  <2>5. kind \notin {"user_info", "link_disconnected"}
    BY <1>13
  <2>6. CASE events' = events
    BY <2>2, <2>3, <2>4, <2>5, <2>6, ListedStill
  <2>7. CASE Handles(kind)
    BY <2>2, <2>3, <2>4, <2>5, <2>7, ListedStill
  <2> QED BY <1>13, <2>6, <2>7
<1>14. CASE HandleSeen("seen_external", "ExternalVIP") \/ HandleSeen("stop_seen_external", "VIP")
  BY <1>12, <1>14
<1>15. CASE HandleGlobalTransform
  <2>1. PICK kind : kind = "global_transform"
    OBVIOUS
  <2>2. SendMsg /\ Handles("global_transform")
    BY <1>15 DEF HandleGlobalTransform
  <2>3. \/ Handles("global_transform") /\ kind = "global_transform"
        \/ events' = events /\ kind = "none" /\ pc["app"] = Idle
    BY <2>1, <2>2
  <2> QED BY <1>13, <2>2, <2>3
<1>16. CASE HandleNetEventFromCenterSvr
  <2>1. PICK kind : kind = "none"
    OBVIOUS
  <2>2. SendMsg /\ events' = events /\ pc["app"] = Idle
    BY <1>16 DEF HandleNetEventFromCenterSvr
  <2> QED BY <1>13, <2>1, <2>2
<1> QED BY <1>5, <1>6, <1>7, <1>8, <1>9, <1>10, <1>11, <1>14, <1>15, <1>16 DEF App

\* The list as a client's moves, a send, the timer and the center server leave it.
LEMMA ListedStep == Inv /\ Next => Listed'
<1> SUFFICES ASSUME Inv, Next PROVE Listed'
  OBVIOUS
<1>0. Types /\ Listed /\ Held /\ Alive
  BY DEF Inv
<1>1. CASE App
  BY <1>1, ListedApp
\* What does not change the clients, nor what the list says of them.
<1>2. ASSUME UNCHANGED <<life, events>>, pc'["app"] = pc["app"], SameSeats(players'),
             \A k \in DOMAIN players : players'[k].type = players[k].type,
             (\A k \in DOMAIN todo["app"] : Greets(todo["app"][k]))',
             (\A k \in DOMAIN Way : Greets(Way[k]))'
      PROVE  Listed'
  <2>1. \A c : IsPlayer(c)' <=> IsPlayer(c)
    BY <1>0, <1>2, SamePlayers DEF SameSeats
  <2>2. /\ \A other, c : Pending(other, c)' <=> Pending(other, c)
        /\ \A c : (Leaving(c)' <=> Leaving(c)) /\ (Greeting(c)' <=> Greeting(c))
    BY <1>2 DEF Pending, Leaving, Greeting
  <2>3. /\ DOMAIN players' = DOMAIN players
        /\ \A k \in DOMAIN players : players'[k].link = players[k].link /\ players'[k].seat = players[k].seat
    BY <1>2 DEF SameSeats, Same
  <2>4. (\A j, k \in DOMAIN players : players[j].link = players[k].link => j = k)'
    BY <1>0, <2>3 DEF Listed
  <2>5. (\A k \in DOMAIN events : EventFits(k))'
    <3>1. ASSUME NEW k \in DOMAIN events, EventFits(k) PROVE EventFits(k)'
      <4>1. PICK c : c = events[k].who
        OBVIOUS
      <4>2. /\ events[k].kind = "link_connected" =>
                  /\ ~ IsPlayer(c) /\ \A j \in DOMAIN events : events[j].who = c => k <= j
                  /\ life[c] = "gone" => Pending("link_disconnected", c)
            /\ events[k].kind = "link_disconnected" => life[c] = "gone"
            /\ events[k].kind = "user_info" => life[c] \in {"in", "gone"}
            /\ events[k].kind = "seen_external" => c \in External
        BY <3>1, <4>1 DEF EventFits
      <4> QED BY <1>2, <2>1, <2>2, <4>1, <4>2 DEF EventFits
    <3> QED BY <1>0, <1>2, <3>1 DEF Listed
  <2>6. (\A k \in DOMAIN players : PlayerFits(players[k]))'
    <3> SUFFICES ASSUME NEW k \in DOMAIN players' PROVE PlayerFits(players[k])'
      OBVIOUS
    <3>1. PICK c : c = players[k].link /\ c = players'[k].link /\ k \in DOMAIN players
      BY <2>3
    <3>2. /\ players[k].seat \in {NoSeat, c}
          /\ players[k].seat = c => life[c] \in {"in", "gone"}
          /\ players[k].type = "ExternalVIP" => c \in External
          /\ life[c] = "gone" => Pending("link_disconnected", c) \/ Leaving(c)
          /\ life[c] = "in" /\ players[k].seat = NoSeat => Pending("user_info", c)
      BY <1>0, <3>1 DEF Listed, PlayerFits
    <3> QED BY <1>2, <2>2, <2>3, <3>1, <3>2 DEF PlayerFits
  <2>7. /\ \A c \in Clients : Greeting(c)' => IsPlayer(c)'
        /\ \A c \in Clients : Leaving(c)' => life'[c] = "gone"
        /\ \A c \in Clients : life'[c] = "in" => IsPlayer(c)'
    BY <1>0, <1>2, <2>1, <2>2 DEF Listed
  <2> QED BY <1>2, <2>4, <2>5, <2>6, <2>7 DEF Listed
<1>3. ASSUME UNCHANGED <<life, Way>>, todo'["app"] = todo["app"], \A c : IsPlayer(c)' <=> IsPlayer(c)
      PROVE  /\ (\A k \in DOMAIN todo["app"] : Greets(todo["app"][k]))'
             /\ (\A k \in DOMAIN Way : Greets(Way[k]))'
  <2>1. ASSUME NEW m, Greets(m)
        PROVE  m.kind = "link_connected" => IsPlayer(m.to)' \/ life'[m.to] = "gone"
    <3>1. PICK c : c = m.to
      OBVIOUS
    <3> QED BY <1>3, <2>1, <3>1 DEF Greets
  <2>2. /\ \A k \in DOMAIN todo["app"] : Greets(todo["app"][k])
        /\ \A k \in DOMAIN Way : Greets(Way[k])
    BY <1>0 DEF Listed
  <2>3. /\ \A k \in DOMAIN todo["app"] : todo["app"][k].kind = "link_connected" =>
                IsPlayer(todo["app"][k].to) \/ life[todo["app"][k].to] = "gone"
        /\ \A k \in DOMAIN Way : Way[k].kind = "link_connected" =>
                IsPlayer(Way[k].to) \/ life[Way[k].to] = "gone"
    BY <2>2 DEF Greets
  <2>4. ASSUME NEW k \in DOMAIN todo["app"] PROVE Greets(todo["app"][k])'
    <3>1. PICK c : c = todo["app"][k].to
      OBVIOUS
    <3> QED BY <1>3, <2>3, <2>4, <3>1 DEF Greets
  <2>5. ASSUME NEW k \in DOMAIN Way PROVE Greets(Way[k])'
    <3>1. PICK c : c = Way[k].to
      OBVIOUS
    <3> QED BY <1>3, <2>3, <2>5, <3>1 DEF Greets
  <2> QED BY <1>3, <2>4, <2>5
<1>4. CASE Timer
  <2>1. /\ UNCHANGED <<life, events, Way>> /\ SameSeats(players')
        /\ \A k \in DOMAIN players : players'[k].type = players[k].type
        /\ todo'["app"] = todo["app"] /\ pc'["app"] = pc["app"]
    BY <1>0, <1>4, TimerShape DEF clientVars, sendVars, Way
  <2>2. \A c : IsPlayer(c)' <=> IsPlayer(c)
    BY <1>0, <2>1, SamePlayers DEF SameSeats
  <2> QED BY <1>2, <1>3, <2>1, <2>2
<1>5. SameSeats(players)
  BY <1>0 DEF Types, SameSeats, Same
<1>6. CASE SpuriousWakeup \/ TakeMessage \/ Center
  <2>1. UNCHANGED <<life, events, Way, players, todo, pc>>
    <3>1. SpuriousWakeup => UNCHANGED <<life, events, Way, players, todo, pc>>
      BY <1>0, SpuriousShape DEF clientVars, appVars
    <3>3. TakeMessage => UNCHANGED <<life, events, Way, players, todo, pc>>
      BY <1>0, TakeShape DEF clientVars, appVars
    <3>2. Center => UNCHANGED <<life, events, Way, players, todo, pc>>
      BY DEF Center, CenterConnects, CenterCloses, CenterTakes, CenterSends, CenterRest,
             appVars, sendVars, Way, clientVars
    <3> QED BY <1>6, <3>1, <3>2, <3>3
  <2>2. SameSeats(players') /\ \A c : IsPlayer(c)' <=> IsPlayer(c)
    BY <1>5, <2>1 DEF IsPlayer
  <2> QED BY <1>2, <1>3, <2>1, <2>2
<1>7. ASSUME NEW t \in Threads, Send(t)
      PROVE  Listed'
  <2>1. /\ UNCHANGED <<life, events, players, pc>> /\ todo[t] # <<>> /\ Head(todo[t]) \in Message
        /\ \/ UNCHANGED Way
           \/ Way' = Append(Way, Head(todo[t]))
    BY <1>0, <1>7, SendShape DEF clientVars
  <2>2. SameSeats(players') /\ \A c : IsPlayer(c)' <=> IsPlayer(c)
    BY <1>5, <2>1 DEF IsPlayer
  <2>3. ASSUME NEW m, Greets(m)
        PROVE  m.kind = "link_connected" => \E c : c = m.to /\ (IsPlayer(c)' \/ life'[c] = "gone")
    BY <2>1, <2>2, <2>3 DEF Greets
  <2>4. (\A k \in DOMAIN todo["app"] : Greets(todo["app"][k]))'
    <3> SUFFICES ASSUME NEW k \in DOMAIN todo'["app"] PROVE Greets(todo["app"][k])'
      OBVIOUS
    <3>1. PICK j \in DOMAIN todo["app"] : todo'["app"][k] = todo["app"][j]
      BY <1>0, <1>7, TodoShape, ThreadNames
    <3>2. Greets(todo["app"][j])
      BY <1>0 DEF Listed
    <3>3. PICK m : m = todo["app"][j] /\ Greets(m) /\ m = todo'["app"][k]
      BY <3>1, <3>2
    <3> QED BY <2>3, <3>3 DEF Greets
  <2>5. Way' = Append(Way, Head(todo[t])) => (\A k \in DOMAIN Way : Greets(Way[k]))'
    <3> SUFFICES ASSUME Way' = Append(Way, Head(todo[t])), NEW k \in DOMAIN Way'
                 PROVE  Greets(Way[k])'
      OBVIOUS
    <3>1. \/ k \in DOMAIN Way /\ Way'[k] = Way[k]
          \/ Way'[k] = Head(todo[t])
      <4>1. /\ Len(Way) \in Nat /\ DOMAIN Way = 1..Len(Way)
            /\ DOMAIN Way' = 1..(Len(Way) + 1)
            /\ \A i \in DOMAIN Way : Way'[i] = Way[i]
            /\ Way'[Len(Way) + 1] = Head(todo[t])
        <5>1. Way \in Seq(Message)
          BY <1>0, WayShape
        <5> QED BY <2>1, <5>1, AppendShape
      <4> QED BY <4>1
    <3>2. Greets(Head(todo[t]))
      <4>1. todo[t] \in Seq(Message) /\ 1 \in DOMAIN todo[t] /\ Head(todo[t]) = todo[t][1]
        BY <1>0, <2>1, TailShape DEF Types
      <4>2. CASE t = "app"
        BY <1>0, <4>1, <4>2 DEF Listed
      <4>3. CASE t = "timer"
        <5>1. Head(todo[t]).kind = "transform"
          BY <1>0, <4>1, <4>3 DEF Held
        <5> QED BY <5>1 DEF Greets
      <4> QED BY <4>2, <4>3, ThreadNames
    <3>3. PICK m : m = Way'[k] /\ Greets(m)
      BY <1>0, <3>1, <3>2 DEF Listed
    <3> QED BY <2>3, <3>3 DEF Greets
  <2>6. UNCHANGED Way => (\A k \in DOMAIN Way : Greets(Way[k]))'
    <3> SUFFICES ASSUME UNCHANGED Way, NEW k \in DOMAIN Way' PROVE Greets(Way[k])'
      OBVIOUS
    <3>1. PICK m : m = Way'[k] /\ Greets(m)
      BY <1>0 DEF Listed
    <3> QED BY <2>3, <3>1 DEF Greets
  <2> QED BY <1>2, <2>1, <2>2, <2>4, <2>5, <2>6
\* A client reports something, or a user who is greeted tells its seat.
<1>8. ASSUME NEW e \in EventType, events' = Append(events, e),
             UNCHANGED <<players, pc, todo>>,
             \A c \in Clients : life'[c] # life[c] => c = e.who,
             life[e.who] # "gone",
             e.kind = "link_connected" =>
                ~ IsPlayer(e.who) /\ life'[e.who] # "gone" /\ \A k \in DOMAIN events : events[k].who # e.who,
             e.kind = "link_disconnected" <=> life'[e.who] = "gone",
             life'[e.who] = "in" => IsPlayer(e.who) /\ (life[e.who] = "in" \/ e.kind = "user_info"),
             life[e.who] = "in" => life'[e.who] \in {"in", "gone"},
             e.kind = "user_info" => life'[e.who] = "in",
             e.kind = "seen_external" => e.who \in External,
             \A k \in DOMAIN Way' : \E j \in DOMAIN Way : Way'[k] = Way[j]
      PROVE  Listed'
  <2>1. \A c : IsPlayer(c)' <=> IsPlayer(c)
    BY <1>8 DEF IsPlayer
  <2>2. \A c : (Leaving(c)' <=> Leaving(c)) /\ (Greeting(c)' <=> Greeting(c))
    BY <1>8 DEF Leaving, Greeting
  <2>3. \A kind, c : Pending(kind, c) \/ (e.kind = kind /\ e.who = c) => Pending(kind, c)'
    BY <1>0, <1>8, EventAppended
  <2>4. (\A k \in DOMAIN events : EventFits(k))'
    BY <1>0, <1>8, <2>1, EventsFitAppended
  <2>5. \A k \in DOMAIN players : players[k].link \in Clients
    <3>1. \A k \in DOMAIN players : players[k] \in PlayerType
      BY <1>0 DEF Types
    <3> QED BY <3>1 DEF PlayerType
  <2>6. (\A k \in DOMAIN players : PlayerFits(players[k]))'
    <3> SUFFICES ASSUME NEW k \in DOMAIN players' PROVE PlayerFits(players[k])'
      OBVIOUS
    <3>1. PICK c \in Clients : c = players[k].link /\ c = players'[k].link /\ k \in DOMAIN players
      BY <1>8, <2>5
    <3>2. /\ players[k].seat \in {NoSeat, c}
          /\ players[k].seat = c => life[c] \in {"in", "gone"}
          /\ players[k].type = "ExternalVIP" => c \in External
          /\ life[c] = "gone" => Pending("link_disconnected", c) \/ Leaving(c)
          /\ life[c] = "in" /\ players[k].seat = NoSeat => Pending("user_info", c)
      BY <1>0, <3>1 DEF Listed, PlayerFits
    <3>3. players'[k] = players[k]
      BY <1>8
    <3>4. CASE c = e.who
      <4>1. life'[c] = "gone" => Pending("link_disconnected", c)'
        BY <1>8, <2>3, <3>4
      <4>2. life'[c] = "in" /\ players[k].seat = NoSeat => Pending("user_info", c)'
        BY <1>8, <2>3, <3>2, <3>4
      <4>3. players[k].seat = c => life'[c] \in {"in", "gone"}
        BY <1>8, <3>2, <3>4
      <4> QED BY <3>1, <3>2, <3>3, <4>1, <4>2, <4>3 DEF PlayerFits
    <3>5. CASE c # e.who
      <4>1. life'[c] = life[c]
        BY <1>8, <3>5
      <4> QED BY <2>2, <2>3, <3>1, <3>2, <3>3, <4>1 DEF PlayerFits
    <3> QED BY <3>4, <3>5
  <2>7. \A c \in Clients : life'[c] = "in" => IsPlayer(c)'
    BY <1>0, <1>8, <2>1 DEF Listed
  <2>8. \A c \in Clients : life[c] = "gone" => life'[c] = "gone"
    BY <1>8
  <2>9. \A c \in Clients : (Greeting(c)' => IsPlayer(c)') /\ (Leaving(c)' => life'[c] = "gone")
    BY <1>0, <2>1, <2>2, <2>8 DEF Listed
  <2>10. ASSUME NEW m \in Message, Greets(m)
         PROVE  \E c : c = m.to /\ (m.kind = "link_connected" => IsPlayer(c)' \/ life'[c] = "gone")
    <3>1. m.to \in Clients
      BY DEF Message
    <3> QED BY <2>1, <2>8, <2>10, <3>1 DEF Greets
  <2>11. /\ \A k \in DOMAIN todo["app"] : todo["app"][k] \in Message
         /\ \A k \in DOMAIN Way : Way[k] \in Message
    BY <1>0, ThreadNames, WayShape DEF Types
  <2>12. ASSUME NEW k \in DOMAIN todo'["app"] PROVE Greets(todo["app"][k])'
    <3>1. k \in DOMAIN todo["app"] /\ todo'["app"][k] = todo["app"][k] /\ Greets(todo["app"][k])
      BY <1>0, <1>8 DEF Listed
    <3>2. PICK m \in Message : m = todo'["app"][k] /\ Greets(m)
      BY <2>11, <3>1
    <3> QED BY <2>10, <3>2 DEF Greets
  <2>13. ASSUME NEW k \in DOMAIN Way' PROVE Greets(Way[k])'
    <3>1. PICK j \in DOMAIN Way : Way'[k] = Way[j] /\ Greets(Way[j])
      BY <1>0, <1>8 DEF Listed
    <3>2. PICK m \in Message : m = Way'[k] /\ Greets(m)
      BY <2>11, <3>1
    <3> QED BY <2>10, <3>2 DEF Greets
  <2>14. (\A j, k \in DOMAIN players : players[j].link = players[k].link => j = k)'
    BY <1>0, <1>8 DEF Listed
  <2> QED BY <2>4, <2>6, <2>7, <2>9, <2>12, <2>13, <2>14 DEF Listed
<1>9. ASSUME NEW c \in Clients, ClientActs(c)
      PROVE  Listed'
  <2>1. /\ UNCHANGED <<players, pc, todo, Way>>
        /\ \A d \in Clients : d # c => life'[d] = life[d]
    BY <1>0, <1>9, ClientShape DEF appVars, sendVars, Way
  <2>2. PICK kind \in {"link_connected", "link_disconnected", "transform",
                       "seen_external", "stop_seen_external", "global_transform"}, n \in Positions :
                  /\ events' = Append(events, [kind |-> kind, who |-> c, pos |-> n])
                  /\ kind = "link_connected" => life[c] = "new" /\ life'[c] = "up"
                  /\ kind = "link_disconnected" => life[c] \in {"up", "in"} /\ life'[c] = "gone"
                  /\ kind \notin {"link_connected", "link_disconnected"} =>
                        life[c] = "in" /\ life'[c] = "in"
                  /\ kind = "seen_external" => c \in External
    BY <1>0, <1>9, ClientShape
  <2>3. PICK e \in EventType : e = [kind |-> kind, who |-> c, pos |-> n] /\ e.who = c /\ e.kind = kind
    <3>1. [kind |-> kind, who |-> c, pos |-> n] \in EventType
      BY DEF EventType
    <3> QED BY <3>1
  <2>4. life[c] = "new" => ~ IsPlayer(c) /\ \A k \in DOMAIN events : events[k].who # c
    BY <1>0 DEF Alive, IsPlayer
  <2>5. life[c] = "in" => IsPlayer(c)
    BY <1>0 DEF Listed
  <2>6. \A k \in DOMAIN Way' : \E j \in DOMAIN Way : Way'[k] = Way[j]
    BY <2>1
  <2>7. /\ events' = Append(events, e) /\ \A d \in Clients : life'[d] # life[d] => d = e.who
        /\ life[e.who] # "gone" /\ (e.kind = "link_disconnected" <=> life'[e.who] = "gone")
    BY <2>1, <2>2, <2>3
  <2>8. /\ e.kind = "link_connected" =>
              ~ IsPlayer(e.who) /\ life'[e.who] # "gone" /\ \A k \in DOMAIN events : events[k].who # e.who
        /\ life'[e.who] = "in" => IsPlayer(e.who) /\ (life[e.who] = "in" \/ e.kind = "user_info")
        /\ life[e.who] = "in" => life'[e.who] \in {"in", "gone"}
        /\ e.kind = "user_info" => life'[e.who] = "in"
        /\ e.kind = "seen_external" => e.who \in External
    BY <2>2, <2>3, <2>4, <2>5
  <2> QED BY <1>8, <2>1, <2>6, <2>7, <2>8
<1>10. ASSUME NEW g \in DOMAIN taken, DoSend(g)
       PROVE  Listed'
  <2>1. /\ g \in DOMAIN Way /\ Way[g] \in Message /\ UNCHANGED <<players, pc, todo>>
        /\ IF Here(Way[g].to) THEN Receive(Way[g]) ELSE UNCHANGED <<life, known, seen, events>>
    BY <1>0, <1>10, DoSendShape DEF appVars
  <2>2. \A k \in DOMAIN Way' : \E j \in DOMAIN Way : Way'[k] = Way[j]
    BY <1>0, <1>10, DoSendShape
  <2>3. PICK m \in Message : m = Way[g] /\ Greets(m)
    BY <1>0, <2>1 DEF Listed
  <2>4. CASE UNCHANGED <<life, events>>
    <3>1. SameSeats(players') /\ \A c : IsPlayer(c)' <=> IsPlayer(c)
      BY <1>5, <2>1 DEF IsPlayer
    <3>2. ASSUME NEW m2, Greets(m2)
          PROVE  \E c : c = m2.to /\ (m2.kind = "link_connected" => IsPlayer(c)' \/ life'[c] = "gone")
      BY <2>4, <3>1, <3>2 DEF Greets
    <3>3. (\A k \in DOMAIN todo["app"] : Greets(todo["app"][k]))'
      <4> SUFFICES ASSUME NEW k \in DOMAIN todo'["app"] PROVE Greets(todo["app"][k])'
        OBVIOUS
      <4>1. PICK m2 : m2 = todo'["app"][k] /\ Greets(m2)
        BY <1>0, <2>1 DEF Listed
      <4> QED BY <3>2, <4>1 DEF Greets
    <3>4. (\A k \in DOMAIN Way : Greets(Way[k]))'
      <4> SUFFICES ASSUME NEW k \in DOMAIN Way' PROVE Greets(Way[k])'
        OBVIOUS
      <4>1. PICK m2 : m2 = Way'[k] /\ Greets(m2)
        BY <1>0, <2>2 DEF Listed
      <4> QED BY <3>2, <4>1 DEF Greets
    <3> QED BY <1>2, <2>1, <2>4, <3>1, <3>3, <3>4
  <2>5. CASE Here(m.to) /\ Receive(m) /\ m.kind # "link_connected"
    <3>1. life' = life /\ events' = events
      BY <2>5 DEF Receive
    <3> QED BY <2>4, <3>1
  <2>6. CASE Here(m.to) /\ Receive(m) /\ m.kind = "link_connected"
    <3>1. /\ m.to \in Clients /\ \A c \in Clients : c # m.to => life'[c] = life[c]
          /\ life'[m.to] = "in"
          /\ events' = Append(events, [kind |-> "user_info", who |-> m.to, pos |-> 0])
      BY <1>0, <2>6, ReceiveShape
    <3>2. PICK e \in EventType : /\ e = [kind |-> "user_info", who |-> m.to, pos |-> 0]
                                 /\ e.who = m.to /\ e.kind = "user_info"
      <4>1. [kind |-> "user_info", who |-> m.to, pos |-> 0] \in EventType
        BY <3>1, SceneAssumption DEF EventType, Positions
      <4> QED BY <4>1
    <3>3. life[m.to] # "gone" /\ IsPlayer(m.to)
      BY <2>3, <2>6 DEF Here, Greets
    <3>4. events' = Append(events, e) /\ \A c \in Clients : life'[c] # life[c] => c = e.who
      BY <3>1, <3>2
    <3>5. /\ e.kind = "link_connected" =>
                ~ IsPlayer(e.who) /\ life'[e.who] # "gone" /\ \A k \in DOMAIN events : events[k].who # e.who
          /\ life'[e.who] = "in" => IsPlayer(e.who) /\ (life[e.who] = "in" \/ e.kind = "user_info")
          /\ life[e.who] = "in" => life'[e.who] \in {"in", "gone"}
          /\ e.kind = "user_info" => life'[e.who] = "in"
          /\ e.kind = "seen_external" => e.who \in External
          /\ e.kind = "link_disconnected" <=> life'[e.who] = "gone"
          /\ life[e.who] # "gone"
      BY <3>1, <3>2, <3>3
    <3> QED BY <1>8, <2>1, <2>2, <3>4, <3>5
  <2> QED BY <2>1, <2>3, <2>4, <2>5, <2>6
<1> QED BY <1>1, <1>4, <1>6, <1>7, <1>9, <1>10 DEF Next
-----------------------------------------------------------------------------
(* What the clients will know                                              *)

SameWill ==
    \A c, d \in Clients :
        c # d /\ life'[c] # "gone" /\ <<c, d>> \notin overtaken' =>
            (d \in Will(c)' <=> d \in Will(c))

\* Nothing happens to the list, and no client will know more or less.
LEMMA PresenceKept ==
    ASSUME Presence, SameWill, overtaken \subseteq overtaken',
           \A c \in Clients : life[c] = "gone" => life'[c] = "gone",
           \A c : IsPlayer(c)' <=> IsPlayer(c), \A c : Seated(c)' <=> Seated(c),
           \A c : (Leaving(c)' <=> Leaving(c)) /\ (Greeting(c)' <=> Greeting(c))
    PROVE  Presence'
<1> SUFFICES ASSUME NEW c \in Clients, NEW d \in Clients,
                    c # d, life'[c] # "gone", <<c, d>> \notin overtaken'
             PROVE  Knows(c, d)'
  BY DEF Presence
<1>1. Knows(c, d) /\ (d \in Will(c)' <=> d \in Will(c))
  BY DEF Presence, SameWill
<1> QED BY <1>1 DEF Knows

LEMMA SeatsKept ==
    ASSUME Types, SameSeats(players')
    PROVE  (\A c : IsPlayer(c)' <=> IsPlayer(c)) /\ (\A c : Seated(c)' <=> Seated(c))
<1>1. /\ DOMAIN players' = DOMAIN players
      /\ \A k \in DOMAIN players : players'[k].link = players[k].link /\ players'[k].seat = players[k].seat
  BY DEF SameSeats, Same
<1> QED BY <1>1 DEF IsPlayer, Seated

LEMMA WillUntouched ==
    ASSUME UNCHANGED <<known, Way>>, todo'["app"] = todo["app"]
    PROVE  SameWill
BY DEF SameWill, Will, After

\* A handler of the application: c will know what it would have known, and
\* what it is sent now.
LEMMA WillApp ==
    ASSUME Types, Aside, NEW c, NEW d \in Clients
    PROVE  /\ (\A k \in DOMAIN todo'["app"] : ~ Mentions(todo'["app"][k], c, d)) =>
                    (d \in Will(c)' <=> d \in Will(c))
           /\ \A k \in DOMAIN todo'["app"] : \A kind :
                 Mentions(todo'["app"][k], c, d)
                 /\ (\A j \in DOMAIN todo'["app"] : todo'["app"][j].kind = kind) =>
                        (d \in Will(c)' <=> kind # "ply_leave")
<1>1. UNCHANGED <<known, Way>> /\ todo["app"] = <<>> /\ todo'["app"] \in Seq(Message)
  BY ThreadNames DEF Aside, clientVars, sendVars, Way
<1>2. PICK W : W = After(Way, c, known[c])
  OBVIOUS
<1>3. PICK q \in Seq(Message) : q = todo'["app"]
  BY <1>1
<1>4. d \in Will(c) <=> d \in W
  BY <1>1, <1>2, AfterEmpty DEF Will
<1>5. Will(c)' = After(q, c, W)
  BY <1>1, <1>2, <1>3 DEF Will, After
<1>6. (\A k \in DOMAIN q : ~ Mentions(q[k], c, d)) => (d \in After(q, c, W) <=> d \in W)
  BY AfterNone
<1>7. ASSUME NEW k \in DOMAIN q, NEW kind, Mentions(q[k], c, d), \A j \in DOMAIN q : q[j].kind = kind
      PROVE  d \in After(q, c, W) <=> kind # "ply_leave"
  BY <1>7, AfterSame
<1> QED BY <1>3, <1>4, <1>5, <1>6, <1>7

\* A handler that changes no seat and tells nobody of a user.
LEMMA PresenceStill ==
    ASSUME Inv, Aside, SameSeats(players'),
           pc["app"].at \in {"idle", "sending"}, pc'["app"].at \in {"idle", "sending"},
           \A k \in DOMAIN todo'["app"] :
              todo'["app"][k].kind \notin {"client_list", "new_user_online", "ply_leave"}
    PROVE  Presence'
<1>0. Types /\ Presence
  BY DEF Inv
<1>1. SameWill
  <2> SUFFICES ASSUME NEW c \in Clients, NEW d \in Clients
               PROVE  d \in Will(c)' <=> d \in Will(c)
    BY DEF SameWill
  <2>1. \A k \in DOMAIN todo'["app"] : ~ Mentions(todo'["app"][k], c, d)
    BY DEF Mentions
  <2> QED BY <1>0, <2>1, WillApp
<1>2. UNCHANGED <<life, overtaken>>
  BY DEF Aside, clientVars, sendVars
<1>3. \A c : (Leaving(c)' <=> Leaving(c)) /\ (Greeting(c)' <=> Greeting(c))
  BY DEF Leaving, Greeting
<1> QED BY <1>0, <1>1, <1>2, <1>3, SeatsKept, PresenceKept

\* What a player's seat and type say.
LEMMA SeatedIs ==
    ASSUME Types, Listed
    PROVE  /\ \A d \in Clients : Seated(d) <=> \E k \in DOMAIN players : players[k].seat = d
           /\ \A d : Seated(d) => IsPlayer(d)
           /\ \A k \in DOMAIN players : players[k].link \notin External => players[k].type = "VIP"
           /\ \A i, k \in DOMAIN players : players[i].link = players[k].link => i = k
<1>1. \A k \in DOMAIN players : /\ players[k].seat \in {NoSeat, players[k].link}
                                /\ players[k].type = "ExternalVIP" => players[k].link \in External
  BY DEF Listed, PlayerFits
<1>2. \A k \in DOMAIN players : players[k] \in PlayerType
  BY DEF Types
<1>3. \A k \in DOMAIN players : players[k].type \in {"VIP", "ExternalVIP"}
  BY <1>2 DEF PlayerType
<1>4. \A d \in Clients : \A k \in DOMAIN players : players[k].seat = d => players[k].link = d
  BY <1>1, SceneAssumption
<1> QED BY <1>1, <1>3, <1>4 DEF Seated, IsPlayer, Listed

LEMMA PresenceConnected ==
    ASSUME Inv, HandleConnected
    PROVE  Presence'
<1>0. Types /\ Presence /\ Listed
  BY DEF Inv
<1>1. /\ Handles("link_connected") /\ Aside
      /\ NewPlayer(First.who) \in PlayerType /\ players' = Append(players, NewPlayer(First.who))
      /\ pc'["app"].at = "greeting" /\ pc'["app"].who = First.who
      /\ \E m \in Message : todo'["app"] = <<m>> /\ m.kind = "link_connected"
  BY <1>0, ConnectedShape
<1>2. PICK b \in Clients : b = First.who /\ pc["app"].at = "idle"
  BY <1>0, <1>1, HandlesShape
<1>3. /\ \A c : IsPlayer(c)' <=> IsPlayer(c) \/ c = b
      /\ \A c \in Clients : Seated(c)' <=> Seated(c)
  <2>1. /\ Len(players) \in Nat /\ DOMAIN players = 1..Len(players)
        /\ DOMAIN players' = 1..(Len(players) + 1)
        /\ \A k \in DOMAIN players : k \in DOMAIN players' /\ players'[k] = players[k]
        /\ players'[Len(players) + 1] = NewPlayer(b)
    BY <1>0, <1>1, <1>2, AppendShape DEF Types
  <2>2. PICK n : /\ n \in DOMAIN players' /\ players'[n] = NewPlayer(b)
                 /\ \A k \in DOMAIN players' : k \in DOMAIN players \/ k = n
                 /\ \A k \in DOMAIN players : k \in DOMAIN players' /\ players'[k] = players[k]
    <3>1. Len(players) + 1 \in DOMAIN players'
          /\ \A k \in DOMAIN players' : k \in DOMAIN players \/ k = Len(players) + 1
      BY <2>1
    <3> QED BY <2>1, <3>1
  <2>3. players'[n].link = b /\ players'[n].seat = NoSeat /\ NoSeat \notin Clients
    BY <2>2, SceneAssumption DEF NewPlayer
  <2>4. \A c : (\E k \in DOMAIN players' : players'[k].link = c) <=>
               (\E k \in DOMAIN players : players[k].link = c) \/ c = b
    BY <2>2, <2>3
  <2>5. \A c \in Clients : (\E k \in DOMAIN players' : players'[k].link = c /\ players'[k].seat = c) <=>
                           (\E k \in DOMAIN players : players[k].link = c /\ players[k].seat = c)
    BY <2>2, <2>3
  <2> QED BY <2>4, <2>5 DEF IsPlayer, Seated
<1> SUFFICES ASSUME NEW c \in Clients, NEW d \in Clients,
                    c # d, life'[c] # "gone", <<c, d>> \notin overtaken'
             PROVE  Knows(c, d)'
  BY DEF Presence
<1>4. life' = life /\ overtaken' = overtaken
  BY <1>1 DEF Aside, clientVars, sendVars, Way
<1>5. Knows(c, d)
  BY <1>0, <1>4 DEF Presence
<1>6. d \in Will(c)' <=> d \in Will(c)
  <2>1. \A k \in DOMAIN todo'["app"] : ~ Mentions(todo'["app"][k], c, d)
    BY <1>1 DEF Mentions
  <2> QED BY <1>0, <1>1, <2>1, WillApp
<1>7. ~ Leaving(d) /\ ~ Leaving(d)' /\ ~ Greeting(c) /\ (Greeting(c)' <=> c = b)
  BY <1>1, <1>2 DEF Leaving, Greeting
<1> QED BY <1>3, <1>5, <1>6, <1>7 DEF Knows

LEMMA PresenceListSent ==
    ASSUME Inv, SendUserInfoList
    PROVE  Presence'
<1>0. Types /\ Presence /\ Listed /\ Held
  BY DEF Inv
<1>1. /\ Aside /\ players' = players
      /\ pc["app"].at = "greeting" /\ pc'["app"].at = "sending" /\ pc["app"].who \in Clients
      /\ \/ /\ todo'["app"] = <<>>
            /\ \A k \in DOMAIN players : players[k].link = pc["app"].who \/ players[k].type # "VIP"
         \/ \E m \in Message :
             /\ todo'["app"] = <<m>> /\ m.to = pc["app"].who /\ m.kind = "client_list"
             /\ \A s \in m.what : \E k \in DOMAIN players : s = players[k].seat
             /\ \A k \in DOMAIN players : players[k].type = "VIP" /\ players[k].link # m.to =>
                   players[k].seat \in m.what
  BY <1>0, UserInfoListShape
<1>2. PICK b \in Clients : b = pc["app"].who
  BY <1>1
<1> SUFFICES ASSUME NEW c \in Clients, NEW d \in Clients,
                    c # d, life'[c] # "gone", <<c, d>> \notin overtaken'
             PROVE  Knows(c, d)'
  BY DEF Presence
<1>3. life' = life /\ Knows(c, d)
  BY <1>0, <1>1 DEF Aside, clientVars, sendVars, Way, Presence
<1>4. (\A e : IsPlayer(e)' <=> IsPlayer(e)) /\ (\A e : Seated(e)' <=> Seated(e))
  BY <1>1 DEF IsPlayer, Seated
<1>5. ~ Leaving(d) /\ ~ Leaving(d)' /\ ~ Greeting(c)' /\ (Greeting(c) <=> c = b) /\ IsPlayer(b)
  BY <1>0, <1>1, <1>2 DEF Leaving, Greeting, Listed
<1>6. CASE todo'["app"] = <<>> /\ \A k \in DOMAIN players : players[k].link = b \/ players[k].type # "VIP"
  <2>1. \A k \in DOMAIN todo'["app"] : ~ Mentions(todo'["app"][k], c, d)
    BY <1>6
  <2>2. d \in Will(c)' <=> d \in Will(c)
    BY <1>0, <1>1, <2>1, WillApp
  <2>3. Seated(d) /\ d \notin External => d = b
    BY <1>0, <1>6, SeatedIs DEF Seated
  <2> QED BY <1>3, <1>4, <1>5, <2>2, <2>3 DEF Knows
<1>7. ASSUME NEW m \in Message,
             /\ todo'["app"] = <<m>> /\ m.to = b /\ m.kind = "client_list"
             /\ \A s \in m.what : \E k \in DOMAIN players : s = players[k].seat
             /\ \A k \in DOMAIN players : players[k].type = "VIP" /\ players[k].link # b =>
                   players[k].seat \in m.what
      PROVE  Knows(c, d)'
  <2>1. DOMAIN todo'["app"] = {1} /\ todo'["app"][1] = m
    BY <1>7
  <2>2. ~ Mentions(m, c, d) => (d \in Will(c)' <=> d \in Will(c))
    BY <1>0, <1>1, <2>1, WillApp
  <2>3. Mentions(m, c, d) => d \in Will(c)'
    <3>1. \A j \in DOMAIN todo'["app"] : todo'["app"][j].kind = "client_list"
      BY <1>7, <2>1
    <3> QED BY <1>0, <1>1, <2>1, <3>1, WillApp
  <2>4. Mentions(m, c, d) <=> c = b /\ d \in m.what
    BY <1>7 DEF Mentions
  <2>5. d \in m.what => Seated(d)
    BY <1>0, <1>7, SeatedIs
  <2>6. c = b /\ Seated(d) /\ d \notin External => d \in m.what
    <3> SUFFICES ASSUME c = b, Seated(d), d \notin External PROVE d \in m.what
      OBVIOUS
    <3>1. PICK k \in DOMAIN players : players[k].link = d /\ players[k].seat = d
      BY DEF Seated
    <3>2. players[k].type = "VIP"
      BY <1>0, <3>1, SeatedIs
    <3> QED BY <1>7, <3>1, <3>2
  <2>7. CASE Mentions(m, c, d)
    BY <1>4, <1>5, <2>3, <2>4, <2>5, <2>7 DEF Knows
  <2>8. CASE ~ Mentions(m, c, d)
    <3>1. c = b => ~ (Seated(d) /\ d \notin External)
      BY <2>4, <2>6, <2>8
    <3> QED BY <1>3, <1>4, <1>5, <2>2, <2>8, <3>1 DEF Knows
  <2> QED BY <2>7, <2>8
<1> QED BY <1>1, <1>2, <1>6, <1>7

LEMMA PresenceDisconnected ==
    ASSUME Inv, HandleDisconnected
    PROVE  Presence'
<1>0. Types /\ Presence /\ Listed /\ Distinct
  BY DEF Inv, Listed, Distinct
<1>1. /\ Handles("link_disconnected") /\ Aside /\ players' = players
      /\ \/ pc'["app"].at = "idle" /\ todo'["app"] = <<>>
         \/ \E i \in DOMAIN players :
              /\ players[i].link = First.who
              /\ pc'["app"].at = "leaving" /\ pc'["app"].who = First.who
              /\ DOMAIN todo'["app"] = DOMAIN players
              /\ \A k \in DOMAIN players :
                    /\ todo'["app"][k].to = players[k].link /\ todo'["app"][k].kind = "ply_leave"
                    /\ todo'["app"][k].what = {players[i].seat}
  BY <1>0, DisconnectedShape
<1>2. PICK b \in Clients : b = First.who /\ pc["app"].at = "idle"
  BY <1>0, <1>1, HandlesShape
<1> SUFFICES ASSUME NEW c \in Clients, NEW d \in Clients,
                    c # d, life'[c] # "gone", <<c, d>> \notin overtaken'
             PROVE  Knows(c, d)'
  BY DEF Presence
<1>3. life' = life /\ Knows(c, d)
  BY <1>0, <1>1 DEF Aside, clientVars, sendVars, Way, Presence
<1>4. (\A e : IsPlayer(e)' <=> IsPlayer(e)) /\ (\A e : Seated(e)' <=> Seated(e))
  BY <1>1 DEF IsPlayer, Seated
<1>5. ~ Leaving(d) /\ ~ Greeting(c) /\ ~ Greeting(c)'
  BY <1>1, <1>2 DEF Leaving, Greeting
<1>6. CASE pc'["app"].at = "idle" /\ todo'["app"] = <<>>
  <2>1. \A k \in DOMAIN todo'["app"] : ~ Mentions(todo'["app"][k], c, d)
    BY <1>6
  <2>2. d \in Will(c)' <=> d \in Will(c)
    BY <1>0, <1>1, <2>1, WillApp
  <2>3. ~ Leaving(d)'
    BY <1>6 DEF Leaving
  <2> QED BY <1>3, <1>4, <1>5, <2>2, <2>3 DEF Knows
<1>7. ASSUME NEW i \in DOMAIN players,
             /\ players[i].link = b /\ pc'["app"].at = "leaving" /\ pc'["app"].who = b
             /\ DOMAIN todo'["app"] = DOMAIN players
             /\ \A k \in DOMAIN players :
                   /\ todo'["app"][k].to = players[k].link /\ todo'["app"][k].kind = "ply_leave"
                   /\ todo'["app"][k].what = {players[i].seat}
      PROVE  Knows(c, d)'
  <2>1. Leaving(d)' <=> d = b
    BY <1>7 DEF Leaving
  <2>2. players[i].seat \in {NoSeat, b} /\ NoSeat \notin Clients
    BY <1>0, <1>7, SceneAssumption DEF Listed, PlayerFits
  <2>3. CASE \E k \in DOMAIN todo'["app"] : Mentions(todo'["app"][k], c, d)
    <3>1. PICK k \in DOMAIN todo'["app"] : Mentions(todo'["app"][k], c, d)
      BY <2>3
    <3>2. d = b
      BY <1>7, <2>2, <3>1 DEF Mentions
    <3>3. \A j \in DOMAIN todo'["app"] : todo'["app"][j].kind = "ply_leave"
      BY <1>7
    <3>4. d \notin Will(c)'
      BY <1>0, <1>1, <3>1, <3>3, WillApp
    <3> QED BY <2>1, <3>2, <3>4 DEF Knows
  <2>4. CASE \A k \in DOMAIN todo'["app"] : ~ Mentions(todo'["app"][k], c, d)
    <3>1. d \in Will(c)' <=> d \in Will(c)
      BY <1>0, <1>1, <2>4, WillApp
    <3>2. ASSUME d = b, d \in Will(c)
          PROVE  FALSE
      <4>1. Seated(b) /\ IsPlayer(c)
        BY <1>3, <3>2 DEF Knows
      <4>2. players[i].seat = b
        BY <1>0, <1>7, <4>1, SeatedIs DEF Seated
      <4>3. PICK k \in DOMAIN players : players[k].link = c
        BY <4>1 DEF IsPlayer
      <4>4. Mentions(todo'["app"][k], c, d)
        BY <1>7, <3>2, <4>2, <4>3 DEF Mentions
      <4> QED BY <1>7, <2>4, <4>4
    <3> QED BY <1>3, <1>4, <1>5, <2>1, <3>1, <3>2 DEF Knows
  <2> QED BY <2>3, <2>4
<1> QED BY <1>1, <1>2, <1>6, <1>7

LEMMA PresenceDeleted ==
    ASSUME Inv, DeletePlayer
    PROVE  Presence'
<1>0. Types /\ Presence
  BY DEF Inv
<1>1. /\ Aside /\ pc["app"].at = "leaving" /\ pc'["app"].at = "idle" /\ todo'["app"] = <<>>
  BY <1>0, DeleteShape
<1>2. PICK b \in Clients : /\ Leaving(b) /\ life[b] = "gone"
                           /\ \A c : IsPlayer(c)' <=> IsPlayer(c) /\ c # b
                           /\ \A c : Seated(c)' <=> Seated(c) /\ c # b
  BY ListedRemoved
<1> SUFFICES ASSUME NEW c \in Clients, NEW d \in Clients,
                    c # d, life'[c] # "gone", <<c, d>> \notin overtaken'
             PROVE  Knows(c, d)'
  BY DEF Presence
<1>3. life' = life /\ Knows(c, d)
  BY <1>0, <1>1 DEF Aside, clientVars, sendVars, Way, Presence
<1>4. d \in Will(c)' <=> d \in Will(c)
  <2>1. \A k \in DOMAIN todo'["app"] : ~ Mentions(todo'["app"][k], c, d)
    BY <1>1
  <2> QED BY <1>0, <1>1, <2>1, WillApp
<1>5. ~ Leaving(d)' /\ ~ Greeting(c) /\ ~ Greeting(c)' /\ (Leaving(d) <=> d = b) /\ c # b
  BY <1>1, <1>2, <1>3 DEF Leaving, Greeting
<1> QED BY <1>2, <1>3, <1>4, <1>5 DEF Knows

LEMMA PresenceUserInfo ==
    ASSUME Inv, HandleUserInfo
    PROVE  Presence'
<1>0. Types /\ Presence /\ Listed /\ Distinct
  BY DEF Inv, Listed, Distinct
<1>1. /\ Handles("user_info") /\ Aside /\ Same(players') /\ pc'["app"].at = "idle"
      /\ \A k \in DOMAIN players : /\ players[k].link = First.who => players'[k].seat = First.who
                                   /\ players[k].link # First.who => players'[k].seat = players[k].seat
      /\ \A j \in DOMAIN todo'["app"] :
            /\ todo'["app"][j].kind = "new_user_online" /\ todo'["app"][j].what = {First.who}
            /\ IsPlayer(First.who)
            /\ todo'["app"][j].to # First.who /\ \E k \in DOMAIN players : players[k].link = todo'["app"][j].to
      /\ \A i, k \in DOMAIN players :
            players[i].link = First.who /\ players[i].type = "VIP" /\ players[k].link # First.who =>
                \E j \in DOMAIN todo'["app"] : todo'["app"][j].to = players[k].link
  BY <1>0, UserInfoShape
<1>2. PICK b \in Clients : b = First.who /\ pc["app"].at = "idle"
  BY <1>0, <1>1, HandlesShape
<1>3. \A c : IsPlayer(c)' <=> IsPlayer(c)
  BY <1>0, <1>1, SamePlayers
<1>4. \A c : Seated(c)' <=> Seated(c) \/ (c = b /\ IsPlayer(b))
  <2>1. /\ DOMAIN players' = DOMAIN players
        /\ \A k \in DOMAIN players : players'[k].link = players[k].link
    BY <1>1 DEF Same
  <2>2. \A c : (\E k \in DOMAIN players' : players'[k].link = c /\ players'[k].seat = c) <=>
               \/ \E k \in DOMAIN players : players[k].link = c /\ players[k].seat = c
               \/ c = b /\ \E k \in DOMAIN players : players[k].link = b
    BY <1>1, <1>2, <2>1
  <2> QED BY <2>2 DEF Seated, IsPlayer
<1> SUFFICES ASSUME NEW c \in Clients, NEW d \in Clients,
                    c # d, life'[c] # "gone", <<c, d>> \notin overtaken'
             PROVE  Knows(c, d)'
  BY DEF Presence
<1>5. life' = life /\ Knows(c, d)
  BY <1>0, <1>1 DEF Aside, clientVars, sendVars, Way, Presence
<1>6. ~ Leaving(d) /\ ~ Leaving(d)' /\ ~ Greeting(c) /\ ~ Greeting(c)'
  BY <1>1, <1>2 DEF Leaving, Greeting
<1>7. CASE \E k \in DOMAIN todo'["app"] : Mentions(todo'["app"][k], c, d)
  <2>1. PICK k \in DOMAIN todo'["app"] : Mentions(todo'["app"][k], c, d)
    BY <1>7
  <2>2. d = b /\ IsPlayer(b) /\ IsPlayer(c)
    BY <1>1, <1>2, <2>1 DEF Mentions, IsPlayer
  <2>3. \A j \in DOMAIN todo'["app"] : todo'["app"][j].kind = "new_user_online"
    BY <1>1
  <2>4. d \in Will(c)'
    BY <1>0, <1>1, <2>1, <2>3, WillApp
  <2> QED BY <1>3, <1>4, <1>6, <2>2, <2>4 DEF Knows
<1>8. CASE \A k \in DOMAIN todo'["app"] : ~ Mentions(todo'["app"][k], c, d)
  <2>1. d \in Will(c)' <=> d \in Will(c)
    BY <1>0, <1>1, <1>8, WillApp
  <2>2. ASSUME IsPlayer(c), d = b, IsPlayer(b), d \notin External
        PROVE  FALSE
    <3>1. PICK i \in DOMAIN players : players[i].link = b
      BY <2>2 DEF IsPlayer
    <3>2. PICK k \in DOMAIN players : players[k].link = c
      BY <2>2 DEF IsPlayer
    <3>3. players[i].type = "VIP"
      BY <1>0, <2>2, <3>1, SeatedIs
    <3>4. PICK j \in DOMAIN todo'["app"] : todo'["app"][j].to = c
      BY <1>1, <1>2, <2>2, <3>1, <3>2, <3>3
    <3>5. Mentions(todo'["app"][j], c, d)
      BY <1>1, <1>2, <2>2, <3>4 DEF Mentions
    <3> QED BY <1>8, <3>5
  <2> QED BY <1>3, <1>4, <1>5, <1>6, <2>1, <2>2 DEF Knows
<1> QED BY <1>7, <1>8

LEMMA PresenceApp ==
    ASSUME Inv, App
    PROVE  Presence'
<1>0. Types /\ SameSeats(players)
  BY DEF Inv, Types, SameSeats, Same
<1>1. \A kind : Handles(kind) => pc["app"].at = "idle"
  BY DEF Handles, Idle
<1>2. CASE HandleConnected
  BY <1>2, PresenceConnected
<1>3. CASE SendUserInfoList
  BY <1>3, PresenceListSent
<1>4. CASE HandleDisconnected
  BY <1>4, PresenceDisconnected
<1>5. CASE DeletePlayer
  BY <1>5, PresenceDeleted
<1>6. CASE HandleUserInfo
  BY <1>6, PresenceUserInfo
<1>7. CASE Unlock
  <2>1. /\ Aside /\ players' = players /\ pc["app"].at = "sending" /\ pc'["app"].at = "idle"
        /\ todo'["app"] = <<>>
    BY <1>0, <1>7, UnlockShape
  <2>2. SameSeats(players')
    BY <1>0, <2>1
  <2> QED BY <2>1, <2>2, PresenceStill
<1>8. CASE HandleTransform
  <2>1. /\ Handles("transform") /\ Aside /\ SameSeats(players') /\ pc'["app"].at = "idle"
        /\ todo'["app"] = <<>>
    BY <1>0, <1>8, TransformShape
  <2> QED BY <1>1, <2>1, PresenceStill
<1>9. ASSUME NEW kind \in {"seen_external", "stop_seen_external"},
             NEW type \in {"VIP", "ExternalVIP"}, HandleSeen(kind, type)
      PROVE  Presence'
  <2>1. /\ Handles(kind) /\ Aside /\ SameSeats(players') /\ pc'["app"].at = "idle"
        /\ todo'["app"] = <<>>
    BY <1>0, <1>9, SeenShape
  <2> QED BY <1>1, <2>1, PresenceStill
<1>10. ASSUME SendMsg, pc["app"].at = "idle"
       PROVE  Presence'
  <2>1. /\ Aside /\ players' = players /\ pc'["app"].at = "sending"
        /\ DOMAIN todo'["app"] = DOMAIN players
        /\ \A k \in DOMAIN players : todo'["app"][k].kind = "global"
    BY <1>0, <1>10, SendMsgShape
  <2>2. SameSeats(players') /\ \A k \in DOMAIN todo'["app"] :
              todo'["app"][k].kind \notin {"client_list", "new_user_online", "ply_leave"}
    BY <1>0, <2>1
  <2> QED BY <1>10, <2>1, <2>2, PresenceStill
<1>11. HandleGlobalTransform \/ HandleNetEventFromCenterSvr => SendMsg /\ pc["app"].at = "idle"
  BY <1>1 DEF HandleGlobalTransform, HandleNetEventFromCenterSvr, Idle
<1>12. HandleSeen("seen_external", "ExternalVIP") \/ HandleSeen("stop_seen_external", "VIP") => Presence'
  BY <1>9
<1> QED BY <1>2, <1>3, <1>4, <1>5, <1>6, <1>7, <1>8, <1>10, <1>11, <1>12 DEF App

\* A message that is put, or that arrives, is known about already.
LEMMA WillSend ==
    ASSUME Inv, NEW t \in Threads, Send(t)
    PROVE  SameWill
<1>0. Types /\ Held
  BY DEF Inv
<1>1. /\ todo[t] # <<>> /\ Head(todo[t]) \in Message /\ UNCHANGED known
      /\ \/ UNCHANGED <<Way, todo>>
         \/ /\ Way' = Append(Way, Head(todo[t]))
            /\ todo'[t] = Tail(todo[t])
            /\ \A s \in Threads : s # t => todo'[s] = todo[s]
  BY <1>0, SendShape DEF clientVars
<1>2. Way \in Seq(Message) /\ \A s \in Threads : todo[s] \in Seq(Message)
  BY <1>0, WayShape DEF Types
<1> SUFFICES ASSUME NEW c \in Clients, NEW d \in Clients
             PROVE  d \in Will(c)' <=> d \in Will(c)
  BY DEF SameWill
<1>3. CASE UNCHANGED <<Way, todo>>
  BY <1>1, <1>3 DEF Will, After
<1>4. CASE /\ Way' = Append(Way, Head(todo[t])) /\ todo'[t] = Tail(todo[t])
           /\ \A s \in Threads : s # t => todo'[s] = todo[s]
  <2>1. PICK m \in Message : m = Head(todo[t])
    BY <1>1
  <2>2. PICK K, L : K = After(Way, c, known[c]) /\ L = After(Append(Way, m), c, known[c])
    OBVIOUS
  <2>3. /\ Mentions(m, c, d) => (d \in L <=> m.kind # "ply_leave")
        /\ ~ Mentions(m, c, d) => (d \in L <=> d \in K)
    BY <1>2, <2>2, AfterAppend
  <2>4. PICK q \in Seq(Message) : q = todo["app"]
    BY <1>2, ThreadNames
  <2>5. Will(c) = After(q, c, K)
    BY <2>2, <2>4 DEF Will
  <2>6. CASE t = "app"
    <3>1. Will(c)' = After(Tail(q), c, L)
      BY <1>1, <1>4, <2>1, <2>2, <2>4, <2>6 DEF Will, After
    <3>2. d \in After(q, c, K) <=> d \in After(Tail(q), c, L)
      <4>1. q # <<>> /\ Head(q) = m
        BY <1>1, <2>1, <2>4, <2>6
      <4> QED BY <2>3, <4>1, AfterTail
    <3> QED BY <2>5, <3>1, <3>2
  <2>7. CASE t = "timer"
    <3>1. Will(c)' = After(q, c, L)
      BY <1>1, <1>4, <2>1, <2>2, <2>4, <2>7, ThreadNames DEF Will, After
    <3>2. m.kind = "transform"
      <4>1. 1 \in DOMAIN todo[t] /\ m = todo[t][1]
        BY <1>1, <1>2, <2>1, TailShape
      <4> QED BY <1>0, <2>7, <4>1 DEF Held
    <3>3. ~ Mentions(m, c, d)
      BY <3>2 DEF Mentions
    <3>4. d \in After(q, c, K) <=> d \in After(q, c, L)
      BY <2>3, <3>3, AfterOf
    <3> QED BY <2>5, <3>1, <3>4
  <2> QED BY <2>6, <2>7, ThreadNames
<1> QED BY <1>1, <1>3, <1>4

\* A message that arrives before an older one is noted where it matters.
LEMMA WillDoSend ==
    ASSUME Inv, NEW g, DoSend(g)
    PROVE  SameWill
<1>0. Types /\ Alive
  BY DEF Inv
<1>1. /\ g \in DOMAIN Way /\ Way[g] \in Message /\ Way[g].to \in Clients
      /\ Less(Way', Way, g) /\ Way' \in Seq(Message) /\ UNCHANGED todo
      /\ IF Here(Way[g].to) THEN Receive(Way[g]) ELSE UNCHANGED <<life, known, seen, events>>
      /\ \A c, d \in Clients :
            c # d /\ <<c, d>> \notin overtaken' /\ Mentions(Way[g], c, d) =>
                \A j \in DOMAIN Way : Mentions(Way[j], c, d) => g <= j
  BY <1>0, DoSendShape DEF appVars
<1>2. Way \in Seq(Message)
  BY <1>0, WayShape
<1>3. PICK m \in Message : m = Way[g] /\ m.to \in Clients /\ life[m.to] # "new"
  BY <1>0, <1>1 DEF Alive
<1> SUFFICES ASSUME NEW c \in Clients, NEW d \in Clients, c # d, life'[c] # "gone",
                    <<c, d>> \notin overtaken'
             PROVE  d \in Will(c)' <=> d \in Will(c)
  BY DEF SameWill
<1>4. /\ Mentions(m, c, d) => (d \in known'[c] <=> m.kind # "ply_leave")
      /\ ~ Mentions(m, c, d) => (d \in known'[c] <=> d \in known[c])
  <2>1. CASE Receive(m)
    <3>1. /\ \A e \in Clients : e # m.to => known'[e] = known[e]
          /\ known'[m.to] = IF m.kind \in {"client_list", "new_user_online"}
                            THEN known[m.to] \union m.what
                            ELSE IF m.kind = "ply_leave" THEN known[m.to] \ m.what
                            ELSE known[m.to]
      BY <1>0, <2>1, ReceiveShape
    <3> QED BY <3>1 DEF Mentions
  <2>2. CASE ~ Here(m.to) /\ UNCHANGED <<life, known>>
    <3>1. life[m.to] = "gone"
      BY <1>0, <1>3, <2>2 DEF Here, Types
    <3>2. ~ Mentions(m, c, d)
      BY <2>2, <3>1 DEF Mentions
    <3> QED BY <2>2, <3>2
  <2> QED BY <1>1, <1>3, <2>1, <2>2
<1>5. PICK K, L : K = After(Way, c, known[c]) /\ L = After(Way', c, known'[c])
  OBVIOUS
<1>6. d \in K <=> d \in L
  <2>1. Mentions(m, c, d) => \A j \in DOMAIN Way : Mentions(Way[j], c, d) => g <= j
    BY <1>1, <1>3
  <2>2. PICK K0, L0 : K0 = known[c] /\ L0 = known'[c]
    OBVIOUS
  <2>6. PICK q \in Seq(Message), r \in Seq(Message) : q = Way /\ r = Way'
    BY <1>1, <1>2
  <2>3. Less(r, q, g) /\ m = q[g]
    BY <1>1, <1>3, <2>6
  <2>4. /\ Mentions(m, c, d) => /\ \A j \in DOMAIN q : Mentions(q[j], c, d) => g <= j
                                /\ d \in L0 <=> m.kind # "ply_leave"
        /\ ~ Mentions(m, c, d) => (d \in L0 <=> d \in K0)
    BY <1>4, <2>1, <2>2, <2>6
  <2>5. d \in After(q, c, K0) <=> d \in After(r, c, L0)
    BY <2>3, <2>4, AfterLess
  <2> QED BY <1>5, <2>2, <2>5, <2>6
<1>7. Will(c) = After(todo["app"], c, K) /\ Will(c)' = After(todo["app"], c, L)
  BY <1>1, <1>5 DEF Will, After
<1> QED BY <1>6, <1>7, AfterOf

LEMMA PresenceStep == Inv /\ Next => Presence'
<1> SUFFICES ASSUME Inv, Next PROVE Presence'
  OBVIOUS
<1>0. Types /\ Held /\ Presence
  BY DEF Inv
<1>1. CASE App
  BY <1>1, PresenceApp
<1>2. ASSUME UNCHANGED <<life, players, overtaken>>, pc'["app"] = pc["app"], SameWill
      PROVE  Presence'
  <2>1. /\ \A c : IsPlayer(c)' <=> IsPlayer(c)
        /\ \A c : Seated(c)' <=> Seated(c)
        /\ \A c : (Leaving(c)' <=> Leaving(c)) /\ (Greeting(c)' <=> Greeting(c))
    BY <1>2 DEF IsPlayer, Seated, Leaving, Greeting
  <2> QED BY <1>0, <1>2, <2>1, PresenceKept
<1>3. CASE Timer
  <2>1. /\ UNCHANGED <<life, known, Way, overtaken>> /\ SameSeats(players')
        /\ todo'["app"] = todo["app"] /\ pc'["app"] = pc["app"]
    BY <1>0, <1>3, TimerShape DEF clientVars, sendVars, Way
  <2>2. /\ \A c : IsPlayer(c)' <=> IsPlayer(c)
        /\ \A c : Seated(c)' <=> Seated(c)
    BY <1>0, <2>1, SeatsKept
  <2>3. \A c : (Leaving(c)' <=> Leaving(c)) /\ (Greeting(c)' <=> Greeting(c))
    BY <2>1 DEF Leaving, Greeting
  <2>4. SameWill
    BY <2>1, WillUntouched
  <2> QED BY <1>0, <2>1, <2>2, <2>3, <2>4, PresenceKept
<1>4. ASSUME NEW t \in Threads, Send(t)
      PROVE  Presence'
  <2>1. UNCHANGED <<life, players, overtaken, pc>>
    BY <1>4 DEF Send, clientVars
  <2> QED BY <1>2, <1>4, <2>1, WillSend
<1>5. CASE SpuriousWakeup \/ TakeMessage \/ Center
  <2>1. UNCHANGED <<life, known, Way, overtaken, players, todo, pc>>
    <3>1. SpuriousWakeup => UNCHANGED <<life, known, Way, overtaken, players, todo, pc>>
      BY <1>0, SpuriousShape DEF clientVars, appVars
    <3>3. TakeMessage => UNCHANGED <<life, known, Way, overtaken, players, todo, pc>>
      BY <1>0, TakeShape DEF clientVars, appVars
    <3>2. Center => UNCHANGED <<life, known, Way, overtaken, players, todo, pc>>
      BY DEF Center, CenterConnects, CenterCloses, CenterTakes, CenterSends, CenterRest,
             appVars, sendVars, Way, clientVars
    <3> QED BY <1>5, <3>1, <3>2, <3>3
  <2> QED BY <1>2, <2>1, WillUntouched
\* A client that changes its life stays gone when it is gone.
<1>6. ASSUME UNCHANGED <<players, pc>>, SameWill, overtaken \subseteq overtaken',
             \A c \in Clients : life[c] = "gone" => life'[c] = "gone"
      PROVE  Presence'
  <2>1. /\ \A c : IsPlayer(c)' <=> IsPlayer(c)
        /\ \A c : Seated(c)' <=> Seated(c)
        /\ \A c : (Leaving(c)' <=> Leaving(c)) /\ (Greeting(c)' <=> Greeting(c))
    BY <1>6 DEF IsPlayer, Seated, Leaving, Greeting
  <2> QED BY <1>0, <1>6, <2>1, PresenceKept
<1>7. ASSUME NEW c \in Clients, ClientActs(c)
      PROVE  Presence'
  <2>1. UNCHANGED <<known, players, pc, todo, Way, overtaken>>
        /\ \A d \in Clients : d # c => life'[d] = life[d]
    BY <1>0, <1>7, ClientShape DEF appVars, sendVars, Way
  <2>2. life[c] # "gone"
    BY <1>0, <1>7, ClientShape
  <2> QED BY <1>6, <2>1, <2>2, WillUntouched
<1>8. ASSUME NEW g \in DOMAIN taken, DoSend(g)
      PROVE  Presence'
  <2>1. /\ Way[g] \in Message /\ UNCHANGED <<players, pc>> /\ overtaken \subseteq overtaken'
        /\ IF Here(Way[g].to) THEN Receive(Way[g]) ELSE UNCHANGED <<life, known, seen, events>>
    BY <1>0, <1>8, DoSendShape DEF appVars
  <2>2. PICK m \in Message : m = Way[g]
    BY <2>1
  <2>3. \A c \in Clients : life[c] = "gone" => life'[c] = "gone"
    <3>1. CASE UNCHANGED life
      BY <3>1
    <3>2. CASE Here(m.to) /\ Receive(m)
      <4>1. \A c \in Clients : c # m.to => life'[c] = life[c]
        BY <1>0, <3>2, ReceiveShape
      <4>2. life[m.to] # "gone"
        BY <3>2 DEF Here
      <4> QED BY <4>1, <4>2
    <3> QED BY <2>1, <2>2, <3>1, <3>2
  <2>4. SameWill
    BY <1>8, WillDoSend
  <2> QED BY <1>6, <2>1, <2>3, <2>4
<1> QED BY <1>1, <1>3, <1>4, <1>5, <1>7, <1>8 DEF Next
-----------------------------------------------------------------------------
(* The theorems                                                            *)

LEMMA NextInv == Inv /\ [Next]_vars => Inv'
<1>1. CASE Next
  BY <1>1, TypesStep, HeldStep, BatchStep, AliveStep, ListedStep, PresenceStep DEF Inv
<1>2. CASE UNCHANGED vars
  <2>1. UNCHANGED <<life, moves, acts, known, events, players, m_Mutex, pc, todo, buffer,
                    m_queue, taken, overtaken, putPc, Way>>
    BY <1>2 DEF vars, clientVars, appVars, sendVars, Way
  <2>2. Types => Types'
    BY <2>1 DEF Types
  <2>3. Held => Held'
    BY <2>1 DEF Held
  <2>4. BatchIsCurrent => BatchIsCurrent'
    BY <2>1 DEF BatchIsCurrent, IsPlayer
  <2>5. Alive => Alive'
    BY <2>1 DEF Alive
  <2>6. Listed => Listed'
    BY <2>1 DEF Listed, EventFits, PlayerFits, Greets, Greeting, Leaving, Pending, IsPlayer
  <2>7. Presence => Presence'
    BY <2>1 DEF Presence, Knows, Will, After, Seated, Greeting, Leaving, IsPlayer
  <2> QED BY <2>2, <2>3, <2>4, <2>5, <2>6, <2>7 DEF Inv
<1> QED BY <1>1, <1>2

LEMMA Always == Spec => []Inv
BY InitInv, NextInv, PTL DEF Spec

\* While the timer sends, the list of players stands still under it: whoever
\* it has still to send to is in the list, and every position it collected is
\* that of a player of the type it is sending.
THEOREM SendsStill == Spec => []BatchIsCurrent
<1>1. Inv => BatchIsCurrent
  BY DEF Inv
<1> QED BY <1>1, Always, PTL

\* When nothing is on its way any more, every client in the scene knows of the
\* users who are there, but perhaps of those who ask to be seen outside, and of
\* none who has left, in whatever order they came, told their seats and left,
\* and with any number of senders, unless one of them overtook another with
\* the news of the same user to the same client.
THEOREM EveryoneKnows == Spec => []PresenceRightUnlessOvertaken
<1>1. Inv => PresenceRightUnlessOvertaken
  <2> SUFFICES ASSUME Inv, AtRest, NEW c \in Clients, NEW d \in Clients, c # d, life[c] = "in",
                      <<c, d>> \notin overtaken
               PROVE  /\ d \in known[c] => life[d] = "in"
                      /\ life[d] = "in" /\ d \notin External => d \in known[c]
    BY DEF PresenceRightUnlessOvertaken
  <2>0. Types /\ Alive /\ Listed /\ Presence
    BY DEF Inv
  <2>1. events = <<>> /\ Way = <<>> /\ pc["app"] = Idle /\ todo["app"] = <<>>
    <3>1. taken = <<>> /\ m_queue = <<>> /\ <<>> \o <<>> = <<>>
      BY DEF AtRest
    <3> QED BY <3>1, ThreadNames DEF AtRest, Way
  <2>2. d \in Will(c) <=> d \in known[c]
    BY <2>1, AfterEmpty DEF Will
  <2>3. ~ Leaving(d) /\ ~ Greeting(c) /\ \A kind, e : ~ Pending(kind, e)
    BY <2>1 DEF Leaving, Greeting, Idle, Pending
  <2>4. Seated(d) => life[d] = "in"
    <3> SUFFICES ASSUME Seated(d) PROVE life[d] = "in"
      OBVIOUS
    <3>1. PICK k \in DOMAIN players : players[k].link = d /\ players[k].seat = d
      BY DEF Seated
    <3>2. life[d] \in {"in", "gone"} /\ life[d] # "gone"
      BY <2>0, <2>3, <3>1 DEF Listed, PlayerFits
    <3> QED BY <3>2
  <2>5. life[d] = "in" => Seated(d)
    <3> SUFFICES ASSUME life[d] = "in" PROVE Seated(d)
      OBVIOUS
    <3>1. PICK k \in DOMAIN players : players[k].link = d
      BY <2>0 DEF Listed, IsPlayer
    <3>2. players[k].seat \in {NoSeat, d} /\ players[k].seat # NoSeat
      BY <2>0, <2>3, <3>1 DEF Listed, PlayerFits
    <3> QED BY <3>1, <3>2 DEF Seated
  <2>6. Knows(c, d) /\ IsPlayer(c)
    BY <2>0 DEF Presence, Listed
  <2> QED BY <2>2, <2>3, <2>4, <2>5, <2>6 DEF Knows
<1> QED BY <1>1, Always, PTL
=============================================================================
