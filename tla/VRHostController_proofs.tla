----------------------- MODULE VRHostController_proofs -----------------------
(***************************************************************************)
(* For any hosts and capsules, and any number of connections and restarts. *)
(*                                                                         *)
(* No client is listed twice (Listed), so what the controller does for a   *)
(* link it does for the right one: a capsule that asks is never its own    *)
(* VR host.                                                                *)
(*                                                                         *)
(* A seat has one user at a time, as long as no agent loses its connection *)
(* to a controller that goes on running.  Whoever has a seat, or is being  *)
(* told it, is whom the controller has for it, in its list or, until the   *)
(* host has reported after a restart, in the table; and the last line of   *)
(* the seat in the file says so too, for the next restart (Seating).  A    *)
(* host is freed once after each session, when nobody has its seat; and it *)
(* reports its seat once on each connection, before any user is given to   *)
(* it there, for a second report would read an old table (Steady).         *)
(*                                                                         *)
(* An agent knows its user because only the handler that binds a host      *)
(* tells it, and until the first restart no host is bound by a report:     *)
(* the controller has no table of old users yet.  A message that a party   *)
(* takes out of turn changes whom the agent will know last only if it is a *)
(* user id behind another, and such links are exempt (Knowing).            *)
(***************************************************************************)
EXTENDS MCVRHostController, SequenceTheorems, WellFoundedInduction, TLAPS

Client == [link : Links, type : {"VRClientAgent", "Capsule"}, bound : BOOLEAN,
           seat : Seats, user : Users]
AgentMail == {"link_connected", "link_disconnected", "c2s_tell_seat_num",
              "c2s_device_status_changed"}
CapsuleMail == {"link_connected", "link_disconnected", "c2s_tell_user_id"}

Types ==
    /\ clients \in Seq(Client)
    /\ m_USM \in [Agents -> Users]
    /\ csv \in Seq(Seats \X Capsules)
    /\ conns \in [Parties -> Nat] /\ \A p \in Parties : conns[p] <= MaxConns(p)
    /\ up \subseteq Parties /\ \A p \in up : conns[p] # 0
    /\ inbox \in [Links -> Seq(AgentMail \union CapsuleMail)]
    /\ outbox \in [Links -> Seq(Replies)]
    /\ flag \in [Agents -> 0..2] /\ agentUser \in [Agents -> Users]
    /\ asking \subseteq Capsules /\ seatOf \in [Capsules -> Seats]
    /\ restarts \in Nat /\ lost \subseteq Agents

\* Whom a message can be from; nothing is on its way to a link that is not open.
MailOf(l) == IF l[1] \in Agents THEN AgentMail ELSE CapsuleMail
Mail == \A l \in Links : inbox[l] \in Seq(MailOf(l)) /\ (~ IsOpen(l) => outbox[l] = <<>>)

\* Where the messages of S are in a queue.
At(q, S) == {i \in DOMAIN q : q[i] \in S}
One(S) == \A i, j \in S : i = j

\* A client is listed once, from its link_connected on, which comes once; its seat
\* is its own.
IsListed(l) == \E k \in DOMAIN clients : clients[k].link = l
News(l) == At(inbox[l], {"link_connected"})
Listed ==
    /\ \A j, k \in DOMAIN clients : clients[j].link = clients[k].link => j = k
    /\ \A k \in DOMAIN clients : clients[k].seat \in {NoSeat, clients[k].link[1]}
    /\ \A l \in Links :
        /\ conns[l[1]] < l[2] => ~ IsListed(l) /\ inbox[l] = <<>>
        /\ One(News(l)) /\ (News(l) # {} => ~ IsListed(l))

\* A capsule that waits has no seat; it gets one answer to each question.
Asks(l) == At(inbox[l], {"c2s_tell_user_id"})
Answers(l) == At(outbox[l], {m \in Replies : m.cmd = "s2c_rsp_seat_num"})
Asking ==
    /\ \A u \in asking : seatOf[u] = NoSeat
    /\ \A l \in Links : l[1] \in Capsules =>
        /\ One(Asks(l)) /\ One(Answers(l))
        /\ Answers(l) # {} => l[1] \in asking
        /\ IsOpen(l) /\ Asks(l) # {} => l[1] \in asking /\ Answers(l) = {}

\* The seat number that an agent has still to tell on this link: it is being asked
\* to, or has done it.
Tells(l) == At(inbox[l], {"link_connected", "c2s_tell_seat_num"})
Told(l) == At(outbox[l], {m \in Replies : m.cmd = "link_connected"})
Steady ==
    \A l \in Links : l[1] \in Agents =>
        /\ ~ IsOpen(l) => inbox[l] = <<>> /\ ~ IsListed(l)
        /\ At(inbox[l], {"link_disconnected"}) = {}
        /\ One(Tells(l)) /\ One(Told(l))
        /\ Tells(l) # {} => Told(l) = {}
        /\ \A k \in DOMAIN clients :
              clients[k].link = l /\ clients[k].seat # NoSeat => Tells(l) = {} /\ Told(l) = {}

\* u has seat a, or is being told it.
Holds(u, a) ==
    \/ seatOf[u] = a
    \/ \E l \in Links : l[1] = u /\ At(outbox[l], {Reply("s2c_rsp_seat_num", a)}) # {}

\* The controller has u for seat a: in its list, or else in the table.
Reported(a) == {k \in DOMAIN clients : clients[k].seat = a}
GivenTo(a, u) ==
    IF Reported(a) = {} THEN m_USM[a] = u
    ELSE \A k \in Reported(a) : clients[k].bound /\ clients[k].user = u
WrittenTo(a, u) == ReadUserSeatMap(csv)[a] = u

\* The session on a is over, and the controller has still to be told.
Reports(l) == At(inbox[l], {"c2s_device_status_changed"})
Ended(a) == flag[a] = 1 \/ \E l \in Links : l[1] = a /\ Reports(l) # {}

SeatingOf(a) ==
    /\ \A u \in Capsules : Holds(u, a) => GivenTo(a, u) /\ WrittenTo(a, u)
    /\ Ended(a) => /\ \E u \in Capsules : GivenTo(a, u)
                   /\ \E u \in Capsules : WrittenTo(a, u)
                   /\ \A u \in Capsules : ~ Holds(u, a)
    /\ \A l \in Links : l[1] = a => One(Reports(l)) /\ (Reports(l) # {} => flag[a] # 1)
Seating == \A a \in Agents : SeatingOf(a)

Kept == lost = {} => Steady /\ Seating

\* Until it is restarted the controller has no table of old users.
Knowing == restarts = 0 => AgentKnowsItsUser /\ \A a \in Agents : m_USM[a] = NoUser

Inv == Types /\ Mail /\ Listed /\ Asking /\ Kept /\ Knowing
-----------------------------------------------------------------------------
(* The operators of the model                                              *)

\* The least and the greatest of some indices.
LEMMA MinOfIndices ==
    ASSUME NEW n \in Nat, NEW I, I \subseteq 1..n, I # {}
    PROVE  Min(I) \in I /\ \A i \in I : Min(I) <= i
<1> DEFINE Less == {ss \in Nat \X Nat : ss[1] < ss[2]}
<1>1. IsWellFoundedOn(Less, Nat)
  BY NatLessThanWellFounded DEF OpToRel
<1>2. I \subseteq Nat
  OBVIOUS
<1> HIDE DEF Less
<1>3. PICK x \in I : \A y \in I : ~ (<<y, x>> \in Less)
  BY <1>1, <1>2, WFMin
<1>4. ASSUME NEW y \in I
      PROVE  x <= y
  <2>1. x \in Nat /\ y \in Nat
    BY <1>2
  <2>2. <<y, x>> \notin Less
    BY <1>3
  <2>3. ~ y < x
    BY <2>1, <2>2 DEF Less
  <2> QED BY <2>1, <2>3
<1>5. \E m \in I : \A y \in I : m <= y
  BY <1>4
<1> QED BY <1>5 DEF Min

LEMMA MaxOfIndices ==
    ASSUME NEW n \in Nat, NEW I, I \subseteq 1..n, I # {}
    PROVE  Max(I) \in I /\ \A i \in I : i <= Max(I)
<1> DEFINE J == {n + 1 - i : i \in I}
<1>1. J \subseteq 1..n /\ J # {}
  <2>1. PICK i \in I : TRUE
    OBVIOUS
  <2>2. n + 1 - i \in J
    OBVIOUS
  <2>3. \A k \in I : n + 1 - k \in 1..n
    OBVIOUS
  <2> QED BY <2>2, <2>3
<1>2. Min(J) \in J /\ \A j \in J : Min(J) <= j
  BY <1>1, MinOfIndices
<1>3. PICK x \in I : Min(J) = n + 1 - x
  BY <1>2
<1>4. \A y \in I : x >= y
  <2> SUFFICES ASSUME NEW y \in I PROVE x >= y
    OBVIOUS
  <2>1. n + 1 - y \in J
    OBVIOUS
  <2>2. n + 1 - x <= n + 1 - y
    BY <1>2, <1>3, <2>1
  <2> QED BY <2>2
<1>5. \E m \in I : \A y \in I : m >= y
  BY <1>4
<1>6. Max(I) \in I /\ \A y \in I : Max(I) >= y
  BY <1>5 DEF Max
<1> QED BY <1>6

LEMMA FindsClient ==
    ASSUME NEW cs \in Seq(Client), NEW l
    PROVE  \/ FindClient(cs, l) = 0 /\ \A k \in DOMAIN cs : cs[k].link # l
           \/ FindClient(cs, l) \in DOMAIN cs /\ cs[FindClient(cs, l)].link = l
<1> DEFINE I == {k \in 1..Len(cs) : cs[k].link = l}
<1>1. FindClient(cs, l) = IF I # {} THEN Min(I) ELSE 0
  BY DEF FindClient, SelectInSeq
<1>2. Len(cs) \in Nat /\ DOMAIN cs = 1..Len(cs) /\ I \subseteq 1..Len(cs)
  OBVIOUS
<1>3. CASE I = {}
  BY <1>1, <1>2, <1>3
<1>4. CASE I # {}
  <2>1. Min(I) \in I
    BY <1>2, <1>4, MinOfIndices
  <2> QED BY <1>1, <1>2, <1>4, <2>1
<1> QED BY <1>3, <1>4

LEMMA FindsFree ==
    ASSUME NEW cs \in Seq(Client), GetFreeRemoteClient(cs) # 0
    PROVE  LET k == GetFreeRemoteClient(cs)
           IN  k \in DOMAIN cs /\ ~ cs[k].bound /\ cs[k].type = "VRClientAgent"
<1> DEFINE I == {k \in 1..Len(cs) : ~ cs[k].bound /\ cs[k].type = "VRClientAgent"}
<1>1. GetFreeRemoteClient(cs) = IF I # {} THEN Min(I) ELSE 0
  BY DEF GetFreeRemoteClient, SelectInSeq
<1>2. Len(cs) \in Nat /\ DOMAIN cs = 1..Len(cs) /\ I \subseteq 1..Len(cs)
  OBVIOUS
<1>3. I # {} /\ GetFreeRemoteClient(cs) = Min(I)
  BY <1>1
<1>4. Min(I) \in I
  BY <1>2, <1>3, MinOfIndices
<1> QED BY <1>2, <1>3, <1>4

\* A seat is read from its last line.
LEMMA ReadsLast ==
    ASSUME NEW lines \in Seq(Seats \X Capsules), NEW s \in Agents
    PROVE  \/ /\ ReadUserSeatMap(lines)[s] = NoUser
              /\ \A k \in DOMAIN lines : lines[k][1] # s
           \/ \E k \in DOMAIN lines :
                /\ ReadUserSeatMap(lines)[s] = lines[k][2] /\ lines[k][1] = s
                /\ \A j \in DOMAIN lines : lines[j][1] = s => j <= k
<1> DEFINE I == {k \in 1..Len(lines) : lines[k][1] = s}
           k == IF I # {} THEN Max(I) ELSE 0
<1>1. ReadUserSeatMap(lines)[s] = IF k = 0 THEN NoUser ELSE lines[k][2]
  BY DEF ReadUserSeatMap, SelectLastInSeq
<1>2. Len(lines) \in Nat /\ DOMAIN lines = 1..Len(lines) /\ I \subseteq 1..Len(lines)
  OBVIOUS
<1>3. CASE I = {}
  BY <1>1, <1>2, <1>3
<1>4. CASE I # {}
  <2>1. Max(I) \in I /\ \A i \in I : i <= Max(I)
    BY <1>2, <1>4, MaxOfIndices
  <2>2. Max(I) \in DOMAIN lines /\ lines[Max(I)][1] = s /\ k = Max(I) /\ k # 0
    BY <1>2, <1>4, <2>1
  <2>3. \A j \in DOMAIN lines : lines[j][1] = s => j <= Max(I)
    BY <1>2, <2>1
  <2> QED BY <1>1, <2>2, <2>3
<1> QED BY <1>3, <1>4
-----------------------------------------------------------------------------
(* Lists of clients and queues of messages                                 *)

LEMMA ReadAppend ==
    ASSUME NEW lines \in Seq(Seats \X Capsules), NEW ln \in Seats \X Capsules, NEW s \in Agents
    PROVE  ReadUserSeatMap(Append(lines, ln))[s] =
              IF ln[1] = s THEN ln[2] ELSE ReadUserSeatMap(lines)[s]
<1> DEFINE new == Append(lines, ln)
           n == Len(lines)
<1>1. /\ n \in Nat /\ DOMAIN lines = 1..n /\ new \in Seq(Seats \X Capsules) /\ DOMAIN new = 1..(n + 1)
      /\ (\A k \in DOMAIN lines : new[k] = lines[k]) /\ new[n + 1] = ln
  BY AppendProperties
<1>2. \/ /\ ReadUserSeatMap(lines)[s] = NoUser
         /\ \A k \in DOMAIN lines : lines[k][1] # s
      \/ \E k \in DOMAIN lines :
            /\ ReadUserSeatMap(lines)[s] = lines[k][2] /\ lines[k][1] = s
            /\ \A j \in DOMAIN lines : lines[j][1] = s => j <= k
  BY ReadsLast
<1>3. \/ /\ ReadUserSeatMap(new)[s] = NoUser
         /\ \A k \in DOMAIN new : new[k][1] # s
      \/ \E k \in DOMAIN new :
            /\ ReadUserSeatMap(new)[s] = new[k][2] /\ new[k][1] = s
            /\ \A j \in DOMAIN new : new[j][1] = s => j <= k
  BY <1>1, ReadsLast
<1> HIDE DEF new, n
<1>4. CASE ln[1] = s
  <2>1. n + 1 \in DOMAIN new /\ new[n + 1][1] = s
    BY <1>1, <1>4
  <2>2. PICK k \in DOMAIN new : /\ ReadUserSeatMap(new)[s] = new[k][2]
                                /\ \A j \in DOMAIN new : new[j][1] = s => j <= k
    BY <1>3, <2>1
  <2>3. k = n + 1
    BY <1>1, <2>1, <2>2, SMTT(30)
  <2> QED BY <1>1, <1>4, <2>2, <2>3 DEF new
<1>5. CASE ln[1] # s
  <2>1. \A k \in DOMAIN new : new[k][1] = s => k \in DOMAIN lines /\ new[k] = lines[k]
    BY <1>1, <1>5
  <2>2. \A k \in DOMAIN lines : k \in DOMAIN new /\ new[k] = lines[k]
    BY <1>1
  <2>3. CASE \A k \in DOMAIN lines : lines[k][1] # s
    BY <1>2, <1>3, <1>5, <2>1, <2>2, <2>3 DEF new
  <2>4. ASSUME NEW i \in DOMAIN lines, ReadUserSeatMap(lines)[s] = lines[i][2], lines[i][1] = s,
               \A j \in DOMAIN lines : lines[j][1] = s => j <= i
        PROVE  ReadUserSeatMap(new)[s] = ReadUserSeatMap(lines)[s]
    <3>1. PICK k \in DOMAIN new : /\ ReadUserSeatMap(new)[s] = new[k][2] /\ new[k][1] = s
                                  /\ \A j \in DOMAIN new : new[j][1] = s => j <= k
      BY <1>3, <2>2, <2>4
    <3>2. k \in DOMAIN lines /\ new[k] = lines[k] /\ i \in DOMAIN new /\ new[i][1] = s
      BY <2>1, <2>2, <2>4, <3>1
    <3>3. i <= k /\ k <= i
      BY <2>4, <3>1, <3>2
    <3>4. i = k
      BY <1>1, <3>2, <3>3
    <3> QED BY <2>4, <3>1, <3>2, <3>4
  <2> QED BY <1>2, <1>5, <2>3, <2>4 DEF new
<1> QED BY <1>4, <1>5

LEMMA AppendShape ==
    ASSUME NEW S, NEW q \in Seq(S), NEW e \in S
    PROVE  /\ Append(q, e) \in Seq(S) /\ Append(q, e) # <<>> /\ Len(q) \in Nat
           /\ DOMAIN q = 1..Len(q) /\ DOMAIN Append(q, e) = 1..(Len(q) + 1)
           /\ \A k \in DOMAIN q : Append(q, e)[k] = q[k]
           /\ Append(q, e)[Len(q) + 1] = e
<1>1. Append(q, e) \in Seq(S) /\ Len(Append(q, e)) = Len(q) + 1 /\ Append(q, e) # <<>>
  BY AppendProperties
<1> QED BY <1>1, AppendProperties

LEMMA TailShape ==
    ASSUME NEW S, NEW q \in Seq(S), q # <<>>
    PROVE  /\ Tail(q) \in Seq(S) /\ Head(q) = q[1] /\ 1 \in DOMAIN q
           /\ Len(q) \in Nat \ {0} /\ DOMAIN q = 1..Len(q) /\ DOMAIN Tail(q) = 1..(Len(q) - 1)
           /\ \A k \in DOMAIN Tail(q) : /\ k \in Nat \ {0} /\ k + 1 \in DOMAIN q
                                        /\ Tail(q)[k] = q[k + 1]
<1>1. Tail(q) \in Seq(S) /\ Len(Tail(q)) = Len(q) - 1 /\ Len(q) \in Nat \ {0}
  BY HeadTailProperties, EmptySeq, LenProperties
<1> QED BY <1>1, HeadTailProperties

\* An element less.
LEMMA RemoveShape ==
    ASSUME NEW S, NEW q \in Seq(S), NEW k \in DOMAIN q
    PROVE  /\ RemoveAt(q, k) \in Seq(S) /\ Len(q) \in Nat /\ DOMAIN q = 1..Len(q) /\ k \in 1..Len(q)
           /\ DOMAIN RemoveAt(q, k) = 1..(Len(q) - 1)
           /\ \A i \in 1..(k - 1) : RemoveAt(q, k)[i] = q[i]
           /\ \A i \in k..(Len(q) - 1) : RemoveAt(q, k)[i] = q[i + 1]
<1>1. Len(q) \in Nat /\ DOMAIN q = 1..Len(q) /\ k \in 1..Len(q)
  OBVIOUS
<1>2. PICK a \in Seq(S) : /\ a = SubSeq(q, 1, k - 1) /\ Len(a) = k - 1
                          /\ \A i \in 1..(k - 1) : a[i] = q[i]
  <2>1. /\ SubSeq(q, 1, k - 1) \in Seq(S) /\ Len(SubSeq(q, 1, k - 1)) = k - 1
        /\ \A i \in 1..(k - 1) : SubSeq(q, 1, k - 1)[i] = q[i]
    BY <1>1
  <2> QED BY <2>1
<1>3. PICK b \in Seq(S) : /\ b = SubSeq(q, k + 1, Len(q)) /\ Len(b) = Len(q) - k
                          /\ \A i \in 1..(Len(q) - k) : b[i] = q[k + i]
  <2>1. /\ SubSeq(q, k + 1, Len(q)) \in Seq(S) /\ Len(SubSeq(q, k + 1, Len(q))) = Len(q) - k
        /\ \A i \in 1..(Len(q) - k) : SubSeq(q, k + 1, Len(q))[i] = q[k + i]
    BY <1>1, SMTT(30)
  <2> QED BY <2>1
<1>4. RemoveAt(q, k) = a \o b
  BY <1>2, <1>3 DEF RemoveAt
<1>5. a \o b \in Seq(S) /\ DOMAIN (a \o b) = 1..(Len(q) - 1)
  <2>1. a \o b \in Seq(S) /\ Len(a \o b) = Len(a) + Len(b)
    BY ConcatProperties
  <2>2. Len(a) + Len(b) = Len(q) - 1
    <3>1. /\ Len(a) = k - 1 /\ Len(b) = Len(q) - k
          /\ k \in Nat /\ Len(q) \in Nat /\ Len(a) \in Nat /\ Len(b) \in Nat
      BY <1>1, <1>2, <1>3
    <3> QED BY <3>1
  <2> QED BY <2>1, <2>2
<1>6. ASSUME NEW i \in 1..(k - 1)
      PROVE  (a \o b)[i] = q[i]
  BY <1>1, <1>2, <1>3, <1>6, ConcatProperties
<1>7. ASSUME NEW i \in k..(Len(q) - 1)
      PROVE  (a \o b)[i] = q[i + 1]
  <2>1. i \in 1..(Len(a) + Len(b)) /\ ~ i <= Len(a)
    BY <1>1, <1>2, <1>3, <1>7, SMTT(30)
  <2>2. (a \o b)[i] = b[i - Len(a)]
    BY <1>2, <1>3, <2>1, ConcatProperties, ZenonT(30)
  <2>3. i - Len(a) \in 1..(Len(q) - k) /\ k + (i - Len(a)) = i + 1
    BY <1>1, <1>2, <1>7
  <2> QED BY <1>3, <2>2, <2>3
<1> QED BY <1>1, <1>4, <1>5, <1>6, <1>7

\* r is q without an m, which was anywhere in it.
Taken(r, q, m) == \E k \in DOMAIN q : q[k] = m /\ r = RemoveAt(q, k)

\* A set of messages in a queue that gets shorter or longer.
LEMMA AtTaken ==
    ASSUME NEW T, NEW q \in Seq(T), NEW r, NEW m, Taken(r, q, m), NEW S
    PROVE  /\ One(At(q, S)) => One(At(r, S))
           /\ At(q, S) = {} => At(r, S) = {}
           /\ m \in S => At(q, S) # {}
           /\ m \in S /\ One(At(q, S)) => At(r, S) = {}
<1>1. PICK g \in DOMAIN q : q[g] = m /\ r = RemoveAt(q, g)
  BY DEF Taken
<1>2. PICK n \in Nat : /\ DOMAIN q = 1..n /\ g \in 1..n /\ DOMAIN r = 1..(n - 1)
                       /\ \A i \in 1..(g - 1) : r[i] = q[i]
                       /\ \A i \in g..(n - 1) : r[i] = q[i + 1]
  <2>1. /\ Len(q) \in Nat /\ DOMAIN q = 1..Len(q) /\ g \in 1..Len(q)
        /\ DOMAIN RemoveAt(q, g) = 1..(Len(q) - 1)
        /\ \A i \in 1..(g - 1) : RemoveAt(q, g)[i] = q[i]
        /\ \A i \in g..(Len(q) - 1) : RemoveAt(q, g)[i] = q[i + 1]
    BY RemoveShape
  <2> QED BY <1>1, <2>1
<1>3. \A i \in At(r, S) : /\ i \in Nat
                          /\ i < g => i \in At(q, S)
                          /\ g <= i => i + 1 \in At(q, S)
  <2> SUFFICES ASSUME NEW i \in At(r, S)
               PROVE  i \in Nat /\ (i < g => i \in At(q, S)) /\ (g <= i => i + 1 \in At(q, S))
    OBVIOUS
  <2>1. i \in 1..(n - 1) /\ r[i] \in S
    BY <1>2 DEF At
  <2>2. ASSUME i < g PROVE i \in At(q, S)
    <3>1. i \in 1..(g - 1) /\ i \in 1..n
      BY <1>2, <2>1, <2>2
    <3> QED BY <1>2, <2>1, <3>1 DEF At
  <2>3. ASSUME g <= i PROVE i + 1 \in At(q, S)
    <3>1. i \in g..(n - 1) /\ i + 1 \in DOMAIN q
      BY <1>2, <2>1, <2>3
    <3>2. r[i] = q[i + 1]
      BY <1>2, <3>1
    <3>3. q[i + 1] \in S
      BY <2>1, <3>2
    <3> QED BY <3>1, <3>3 DEF At
  <2> QED BY <2>1, <2>2, <2>3
<1>4. m \in S => g \in At(q, S)
  BY <1>1 DEF At
<1>5. g \in Nat
  BY <1>2
<1>6. One(At(q, S)) => One(At(r, S))
  <2> SUFFICES ASSUME One(At(q, S)), NEW i \in At(r, S), NEW j \in At(r, S)
               PROVE  i = j
    BY DEF One
  <2>1. PICK v \in At(q, S) : (i < g => i = v) /\ (g <= i => i + 1 = v)
    BY <1>3, <1>5
  <2>2. (j < g => j = v) /\ (g <= j => j + 1 = v)
    BY <1>3, <1>5, <2>1 DEF One
  <2>3. i \in Nat /\ j \in Nat
    BY <1>3
  <2>4. v # g
    BY <1>4, <1>5, <2>1, <2>2, <2>3, <1>2 DEF One
  <2> QED BY <1>5, <2>1, <2>2, <2>3, <2>4
<1>7. m \in S /\ One(At(q, S)) => At(r, S) = {}
  <2> SUFFICES ASSUME m \in S, One(At(q, S)), NEW i \in At(r, S) PROVE FALSE
    OBVIOUS
  <2>1. i \in Nat /\ (i < g => i = g) /\ (g <= i => i + 1 = g)
    BY <1>3, <1>4 DEF One
  <2> QED BY <1>5, <2>1
<1> QED BY <1>3, <1>4, <1>5, <1>6, <1>7

LEMMA AtTail ==
    ASSUME NEW T, NEW q \in Seq(T), q # <<>>, NEW S
    PROVE  /\ One(At(q, S)) => One(At(Tail(q), S))
           /\ At(q, S) = {} => At(Tail(q), S) = {}
           /\ Head(q) \in S => At(q, S) # {}
           /\ Head(q) \in S /\ One(At(q, S)) => At(Tail(q), S) = {}
<1>1. /\ Head(q) = q[1] /\ 1 \in DOMAIN q
      /\ \A k \in DOMAIN Tail(q) : k \in Nat \ {0} /\ k + 1 \in DOMAIN q /\ Tail(q)[k] = q[k + 1]
  BY TailShape
<1>2. \A k \in At(Tail(q), S) : k + 1 \in At(q, S) /\ k \in Nat \ {0}
  BY <1>1 DEF At
<1>3. Head(q) \in S => 1 \in At(q, S)
  BY <1>1 DEF At
<1>4. One(At(q, S)) => One(At(Tail(q), S))
  <2> SUFFICES ASSUME One(At(q, S)), NEW i \in At(Tail(q), S), NEW j \in At(Tail(q), S)
               PROVE  i = j
    BY DEF One
  <2>1. i + 1 = j + 1
    BY <1>2 DEF One
  <2> QED BY <1>2, <2>1
<1>5. Head(q) \in S /\ One(At(q, S)) => At(Tail(q), S) = {}
  <2> SUFFICES ASSUME Head(q) \in S, One(At(q, S)), NEW i \in At(Tail(q), S) PROVE FALSE
    OBVIOUS
  <2>1. i + 1 = 1
    BY <1>2, <1>3 DEF One
  <2> QED BY <1>2, <2>1
<1> QED BY <1>2, <1>3, <1>4, <1>5

LEMMA AtAppend ==
    ASSUME NEW T, NEW q \in Seq(T), NEW m \in T, NEW S
    PROVE  /\ m \notin S => At(Append(q, m), S) = At(q, S)
           /\ m \in S => At(Append(q, m), S) # {}
           /\ m \in S /\ At(q, S) = {} => One(At(Append(q, m), S))
<1>1. /\ Len(q) \in Nat /\ DOMAIN q = 1..Len(q) /\ DOMAIN Append(q, m) = 1..(Len(q) + 1)
      /\ \A k \in DOMAIN q : Append(q, m)[k] = q[k]
      /\ Append(q, m)[Len(q) + 1] = m
  BY AppendShape
<1>2. DOMAIN Append(q, m) = DOMAIN q \union {Len(q) + 1}
  BY <1>1
<1> QED BY <1>1, <1>2 DEF At, One

LEMMA AtNone == ASSUME NEW S PROVE At(<<>>, S) = {} /\ One(At(<<>>, S))
BY DEF At, One

\* What is in the queue of a new link.
LEMMA AtNew ==
    /\ \A S : One(At(<<"link_connected">> \o <<>>, S))
    /\ \A S : "link_connected" \notin S => At(<<"link_connected">> \o <<>>, S) = {}
    /\ One(At(<<"link_connected">> \o <<"c2s_tell_user_id">>, {"link_connected"}))
    /\ One(At(<<"link_connected">> \o <<"c2s_tell_user_id">>, {"c2s_tell_user_id"}))
<1>1. <<"link_connected">> \o <<>> = <<"link_connected">>
  OBVIOUS
<1>2. PICK q : q = <<"link_connected">> \o <<"c2s_tell_user_id">>
  OBVIOUS
<1>3. /\ DOMAIN <<"link_connected">> = {1}
      /\ DOMAIN q = 1..2 /\ q[1] = "link_connected" /\ q[2] = "c2s_tell_user_id"
  BY <1>2
<1>4. \A S : One(At(<<"link_connected">>, S))
  BY <1>3 DEF At, One
<1>5. \A S : "link_connected" \notin S => At(<<"link_connected">>, S) = {}
  BY <1>3 DEF At
<1>6. One(At(q, {"link_connected"}))
  BY <1>3 DEF At, One
<1>7. One(At(q, {"c2s_tell_user_id"}))
  BY <1>3 DEF At, One
<1> QED BY <1>1, <1>2, <1>4, <1>5, <1>6, <1>7

LEMMA LinkShape ==
    ASSUME Types
    PROVE  /\ \A l \in Links : l[1] \in Parties /\ l[2] \in Nat \ {0} /\ l = <<l[1], l[2]>>
           /\ \A p \in up : LinkOf(p) \in Links /\ IsOpen(LinkOf(p)) /\ LinkOf(p)[1] = p
           /\ \A l \in Links : IsOpen(l) => l = LinkOf(l[1]) /\ l[1] \in up
<1>1. AgentConns \in Nat /\ CapsuleConns \in Nat
  BY BoundsAssumption
<1>2. ASSUME NEW l \in Links
      PROVE  /\ l[1] \in Parties /\ l[2] \in Nat \ {0} /\ l = <<l[1], l[2]>>
             /\ IsOpen(l) => l = LinkOf(l[1]) /\ l[1] \in up
  BY <1>1 DEF Links, IsOpen, LinkOf
<1>3. ASSUME NEW p \in up
      PROVE  LinkOf(p) \in Links /\ IsOpen(LinkOf(p)) /\ LinkOf(p)[1] = p
  <2>1. p \in Parties /\ conns[p] \in Nat \ {0} /\ conns[p] <= MaxConns(p)
    BY DEF Types
  <2>2. conns[p] \in 1..(AgentConns + CapsuleConns)
    BY <1>1, <2>1 DEF MaxConns
  <2> QED BY <2>1, <2>2 DEF LinkOf, Links, IsOpen
<1> QED BY <1>2, <1>3

\* The controller takes the next message of a link.
LEMMA TakesShape ==
    ASSUME Types, NEW l \in Links, NEW m, Takes(l, m)
    PROVE  /\ inbox[l] \in Seq(AgentMail \union CapsuleMail)
           /\ inbox[l] # <<>> /\ Head(inbox[l]) = m /\ inbox'[l] = Tail(inbox[l])
           /\ inbox' \in [Links -> Seq(AgentMail \union CapsuleMail)]
           /\ \A r \in Links : r # l => inbox'[r] = inbox[r]
<1>1. inbox[l] \in Seq(AgentMail \union CapsuleMail) /\ inbox[l] # <<>> /\ Head(inbox[l]) = m
  BY DEF Types, Takes
<1>2. inbox' = [inbox EXCEPT ![l] = Tail(inbox[l])]
  BY DEF Takes
<1>3. inbox'[l] = Tail(inbox[l]) /\ \A r \in Links : r # l => inbox'[r] = inbox[r]
  BY <1>2 DEF Types
<1>4. inbox' \in [Links -> Seq(AgentMail \union CapsuleMail)]
  BY <1>1, <1>2, TailShape DEF Types
<1> QED BY <1>1, <1>3, <1>4

\* A message goes to a link, if that is open.
LEMMA SentShape ==
    ASSUME NEW boxes \in [Links -> Seq(Replies)], NEW l \in Links, NEW m \in Replies
    PROVE  /\ Sent(boxes, l, m) \in [Links -> Seq(Replies)]
           /\ \A r \in Links : r # l => Sent(boxes, l, m)[r] = boxes[r]
           /\ IsOpen(l) => Sent(boxes, l, m)[l] = Append(boxes[l], m)
           /\ ~ IsOpen(l) => Sent(boxes, l, m) = boxes
<1>1. Append(boxes[l], m) \in Seq(Replies)
  BY AppendShape
<1> QED BY <1>1 DEF Sent

LEMMA GetsShape ==
    ASSUME Types, NEW p \in Parties, NEW m, Gets(p, m)
    PROVE  /\ p \in up /\ LinkOf(p) \in Links /\ LinkOf(p)[1] = p /\ IsOpen(LinkOf(p))
           /\ outbox[LinkOf(p)] \in Seq(Replies)
           /\ Taken(outbox'[LinkOf(p)], outbox[LinkOf(p)], m)
           /\ outbox' \in [Links -> Seq(Replies)]
           /\ \A r \in Links : r # LinkOf(p) => outbox'[r] = outbox[r]
<1>0. PICK l \in Links : l = LinkOf(p) /\ l[1] = p /\ IsOpen(l)
  BY LinkShape DEF Gets
<1>1. outbox[l] \in Seq(Replies) /\ p \in up
  BY <1>0 DEF Types, Gets
<1>2. PICK k \in DOMAIN outbox[l] : /\ outbox[l][k] = m
                                    /\ outbox' = [outbox EXCEPT ![l] = RemoveAt(outbox[l], k)]
  BY <1>0 DEF Gets
<1>3. outbox'[l] = RemoveAt(outbox[l], k) /\ \A r \in Links : r # l => outbox'[r] = outbox[r]
  BY <1>2 DEF Types
<1>4. outbox' \in [Links -> Seq(Replies)]
  <2>1. RemoveAt(outbox[l], k) \in Seq(Replies)
    BY <1>1, RemoveShape
  <2> QED BY <1>2, <2>1 DEF Types
<1> QED BY <1>0, <1>1, <1>2, <1>3, <1>4 DEF Taken

\* A new connection; its link is one that was never used.
LEMMA ConnectsShape ==
    ASSUME Types, NEW p \in Parties, NEW first \in Seq(AgentMail \union CapsuleMail), Connects(p, first)
    PROVE  \E l \in Links :
           /\ l = <<p, conns[p] + 1>> /\ l = LinkOf(p)' /\ IsOpen(l)' /\ ~ IsOpen(l)
           /\ conns' = [conns EXCEPT ![p] = conns[p] + 1] /\ up' = up \union {p} /\ p \notin up
           /\ \A r \in Links : r # l => (IsOpen(r)' <=> IsOpen(r)) /\ inbox'[r] = inbox[r]
           /\ inbox'[l] = <<"link_connected">> \o first
           /\ inbox' \in [Links -> Seq(AgentMail \union CapsuleMail)]
           /\ conns' \in [Parties -> Nat] /\ (\A q \in Parties : conns'[q] <= MaxConns(q))
           /\ \A q \in up' : conns'[q] # 0
<1>1. /\ p \notin up /\ conns[p] \in Nat /\ conns[p] + 1 <= MaxConns(p)
      /\ conns' = [conns EXCEPT ![p] = conns[p] + 1] /\ up' = up \union {p}
  <2>1. MaxConns(p) \in Nat
    BY BoundsAssumption DEF MaxConns
  <2> QED BY <2>1 DEF Connects, Types
<1>2. PICK l \in Links : l = <<p, conns[p] + 1>>
  <2>1. conns[p] + 1 \in 1..(AgentConns + CapsuleConns)
    BY <1>1, BoundsAssumption DEF MaxConns
  <2> QED BY <1>1, <2>1 DEF Links
<1>3. conns'[p] = conns[p] + 1 /\ l = LinkOf(p)' /\ \A q \in Parties : q # p => conns'[q] = conns[q]
  BY <1>1, <1>2 DEF Types, LinkOf
<1>4. IsOpen(l)' /\ ~ IsOpen(l) /\ l[1] = p /\ l[2] = conns[p] + 1
  BY <1>1, <1>2, <1>3 DEF IsOpen
<1>5. ASSUME NEW r \in Links, r # l
      PROVE  IsOpen(r)' <=> IsOpen(r)
  <2>1. r = <<r[1], r[2]>> /\ r[1] \in Parties
    BY LinkShape
  <2>2. CASE r[1] = p
    <3>1. r[2] # conns[p] + 1
      BY <1>2, <1>5, <2>1, <2>2
    <3> QED BY <1>1, <1>3, <2>2, <3>1 DEF IsOpen
  <2>3. CASE r[1] # p
    BY <1>1, <1>3, <2>1, <2>3 DEF IsOpen
  <2> QED BY <2>2, <2>3
<1>6. inbox' = [inbox EXCEPT ![l] = <<"link_connected">> \o first]
  BY <1>3 DEF Connects
<1>7. <<"link_connected">> \o first \in Seq(AgentMail \union CapsuleMail)
  BY DEF AgentMail
<1>8. inbox' \in [Links -> Seq(AgentMail \union CapsuleMail)] /\ inbox'[l] = <<"link_connected">> \o first
      /\ \A r \in Links : r # l => inbox'[r] = inbox[r]
  BY <1>6, <1>7 DEF Types
<1>9. conns' \in [Parties -> Nat] /\ (\A q \in Parties : conns'[q] <= MaxConns(q))
      /\ \A q \in up' : conns'[q] # 0
  BY <1>1, <1>3 DEF Types
<1> QED BY <1>1, <1>2, <1>3, <1>4, <1>5, <1>8, <1>9

LEMMA HangsUpShape ==
    ASSUME Types, NEW p \in Parties, HangsUp(p)
    PROVE  \E l \in Links :
           /\ l = LinkOf(p) /\ l[1] = p /\ IsOpen(l) /\ ~ IsOpen(l)' /\ up' = up \ {p}
           /\ \A r \in Links : r # l => /\ IsOpen(r)' <=> IsOpen(r)
                                        /\ inbox'[r] = inbox[r] /\ outbox'[r] = outbox[r]
           /\ inbox'[l] = Append(inbox[l], "link_disconnected") /\ outbox'[l] = <<>>
           /\ inbox' \in [Links -> Seq(AgentMail \union CapsuleMail)]
           /\ outbox' \in [Links -> Seq(Replies)]
           /\ UNCHANGED <<conns, ctlVars, restarts>>
<1>1. PICK l \in Links : l = LinkOf(p) /\ l[1] = p /\ IsOpen(l)
  BY LinkShape DEF HangsUp
<1>2. /\ up' = up \ {p} /\ inbox' = [inbox EXCEPT ![l] = Append(inbox[l], "link_disconnected")]
      /\ outbox' = [outbox EXCEPT ![l] = <<>>] /\ UNCHANGED <<conns, ctlVars, restarts>>
  BY <1>1 DEF HangsUp
<1>3. ~ IsOpen(l)' /\ \A r \in Links : r # l => (IsOpen(r)' <=> IsOpen(r))
  BY <1>1, <1>2, LinkShape DEF IsOpen, LinkOf
<1>4. Append(inbox[l], "link_disconnected") \in Seq(AgentMail \union CapsuleMail)
  BY DEF Types, AgentMail
<1>5. <<>> \in Seq(Replies)
  OBVIOUS
<1>6. /\ inbox' \in [Links -> Seq(AgentMail \union CapsuleMail)]
      /\ outbox' \in [Links -> Seq(Replies)]
      /\ inbox'[l] = Append(inbox[l], "link_disconnected") /\ outbox'[l] = <<>>
      /\ \A r \in Links : r # l => inbox'[r] = inbox[r] /\ outbox'[r] = outbox[r]
  BY <1>2, <1>4, <1>5 DEF Types
<1> QED BY <1>1, <1>2, <1>3, <1>6

\* The kinds of parties, and what they send.
LEMMA PartyShape ==
    /\ \A a \in Agents : a \in Parties /\ a \notin Capsules
    /\ \A u \in Capsules : u \in Parties /\ u \notin Agents
    /\ NoSeat \notin Agents /\ NoUser \notin Capsules
    /\ \A l \in Links : l[1] \in Parties /\ (l[1] \in Agents \/ l[1] \in Capsules)
    /\ \A s \in Seats : Reply("s2c_rsp_seat_num", s) \in Replies
    /\ \A u \in Users : Reply("s2c_tell_user_id", u) \in Replies
    /\ Reply("link_connected", NoSeat) \in Replies
    /\ \A l \in Links : NewClient(l) \in Client
BY PartiesAssumption DEF Parties, Links, Seats, Users, Replies, Reply, NewClient, Client

\* A client with one field or two changed.
With(c, t, b, s, u) ==
    /\ c.type = t /\ c.bound = b /\ c.seat = s /\ c.user = u

LEMMA ClientShape ==
    ASSUME NEW c \in Client
    PROVE  /\ [c EXCEPT !.type = "Capsule"] \in Client
           /\ [c EXCEPT !.type = "Capsule"].link = c.link
           /\ With([c EXCEPT !.type = "Capsule"], "Capsule", c.bound, c.seat, c.user)
           /\ [c EXCEPT !.bound = FALSE] \in Client
           /\ [c EXCEPT !.bound = FALSE].link = c.link
           /\ With([c EXCEPT !.bound = FALSE], c.type, FALSE, c.seat, c.user)
           /\ \A s \in Seats : /\ [c EXCEPT !.seat = s] \in Client
                               /\ [c EXCEPT !.seat = s].link = c.link
                               /\ With([c EXCEPT !.seat = s], c.type, c.bound, s, c.user)
           /\ \A u \in Users : /\ [c EXCEPT !.user = u, !.bound = TRUE] \in Client
                               /\ [c EXCEPT !.user = u, !.bound = TRUE].link = c.link
                               /\ With([c EXCEPT !.user = u, !.bound = TRUE], c.type, TRUE, c.seat, u)
<1>1. /\ [c EXCEPT !.type = "Capsule"] \in Client
      /\ [c EXCEPT !.type = "Capsule"].link = c.link
      /\ With([c EXCEPT !.type = "Capsule"], "Capsule", c.bound, c.seat, c.user)
  BY DEF Client, With
<1>2. /\ [c EXCEPT !.bound = FALSE] \in Client
      /\ [c EXCEPT !.bound = FALSE].link = c.link
      /\ With([c EXCEPT !.bound = FALSE], c.type, FALSE, c.seat, c.user)
  BY DEF Client, With
<1>3. ASSUME NEW s \in Seats
      PROVE  /\ [c EXCEPT !.seat = s] \in Client
             /\ [c EXCEPT !.seat = s].link = c.link
             /\ With([c EXCEPT !.seat = s], c.type, c.bound, s, c.user)
  BY DEF Client, With
<1>4. ASSUME NEW u \in Users
      PROVE  /\ [c EXCEPT !.user = u, !.bound = TRUE] \in Client
             /\ [c EXCEPT !.user = u, !.bound = TRUE].link = c.link
             /\ With([c EXCEPT !.user = u, !.bound = TRUE], c.type, TRUE, c.seat, u)
  BY DEF Client, With
<1> QED BY <1>1, <1>2, <1>3, <1>4

\* The clients after a message other than link_connected and link_disconnected:
\* the same, but for what this says of them.
Changed(cs) ==
    /\ cs \in Seq(Client) /\ DOMAIN cs = DOMAIN clients
    /\ \A k \in DOMAIN clients : cs[k].link = clients[k].link

LEMMA KnownShape ==
    ASSUME Types, NEW l
    PROVE  /\ Changed(Known(l))
           /\ \A k \in DOMAIN clients : /\ Known(l)[k].bound = clients[k].bound
                                        /\ Known(l)[k].seat = clients[k].seat
                                        /\ Known(l)[k].user = clients[k].user
           /\ \/ \A k \in DOMAIN clients : clients[k].link # l
              \/ \E k \in DOMAIN clients : clients[k].link = l /\ Known(l)[k].type = "Capsule"
<1>1. clients \in Seq(Client)
  BY DEF Types
<1>2. CASE FindClient(clients, l) = 0
  <2>1. Known(l) = clients
    BY <1>2 DEF Known, UpdateClientType
  <2>2. \A k \in DOMAIN clients : clients[k].link # l
    BY <1>1, <1>2, FindsClient
  <2> QED BY <1>1, <2>1, <2>2 DEF Changed
<1>3. CASE FindClient(clients, l) # 0
  <2>1. PICK k \in DOMAIN clients : k = FindClient(clients, l) /\ clients[k].link = l
    BY <1>1, <1>3, FindsClient
  <2>2. clients[k] \in Client
    BY <1>1, <2>1
  <2>3. PICK c \in Client : /\ c = [clients[k] EXCEPT !.type = "Capsule"] /\ c.link = clients[k].link
                            /\ With(c, "Capsule", clients[k].bound, clients[k].seat, clients[k].user)
    BY <2>2, ClientShape
  <2>4. Known(l) = [clients EXCEPT ![k] = c]
    BY <1>3, <2>1, <2>3 DEF Known, UpdateClientType
  <2>5. Known(l) \in Seq(Client) /\ DOMAIN Known(l) = DOMAIN clients /\ Known(l)[k] = c
        /\ \A j \in DOMAIN clients : j # k => Known(l)[j] = clients[j]
    BY <1>1, <2>1, <2>3, <2>4
  <2> QED BY <2>1, <2>3, <2>5 DEF Changed, With
<1> QED BY <1>2, <1>3

LEMMA SeatShape ==
    ASSUME Types, NEW l, NEW a \in Agents
    PROVE  LET cs == AssignSeatNumToVRHost(clients, l, a)
           IN  /\ Changed(cs)
               /\ \/ cs = clients
                  \/ \E k \in DOMAIN clients :
                        /\ clients[k].link = l
                        /\ \A j \in DOMAIN clients : j # k => cs[j] = clients[j]
                        /\ cs[k].seat = a
                        /\ m_USM[a] = NoUser => cs[k].bound = clients[k].bound /\ cs[k].user = clients[k].user
                        /\ m_USM[a] # NoUser => cs[k].bound /\ cs[k].user = m_USM[a]
<1> DEFINE cs == AssignSeatNumToVRHost(clients, l, a)
<1>1. clients \in Seq(Client) /\ m_USM[a] \in Users /\ a # NoSeat /\ a \in Seats
  BY PartyShape DEF Types, Seats
<1>2. CASE FindClient(clients, l) = 0
  <2>1. cs = clients
    BY <1>2 DEF AssignSeatNumToVRHost
  <2> QED BY <1>1, <2>1 DEF Changed
<1>3. CASE FindClient(clients, l) # 0
  <2>1. PICK k \in DOMAIN clients : k = FindClient(clients, l) /\ clients[k].link = l
    BY <1>1, <1>3, FindsClient
  <2>2. clients[k] \in Client
    BY <1>1, <2>1
  <2>3. PICK d \in Client : /\ d = [clients[k] EXCEPT !.seat = a] /\ d.link = clients[k].link
                            /\ With(d, clients[k].type, clients[k].bound, a, clients[k].user)
    BY <1>1, <2>2, ClientShape
  <2>4. PICK c \in Client : /\ c = RecreateUserSeatMap(d) /\ c.seat = a /\ c.link = clients[k].link
                            /\ m_USM[a] = NoUser => c.bound = clients[k].bound /\ c.user = clients[k].user
                            /\ m_USM[a] # NoUser => c.bound /\ c.user = m_USM[a]
    <3>1. CASE m_USM[a] = NoUser
      <4>1. RecreateUserSeatMap(d) = d
        BY <1>1, <2>3, <3>1 DEF RecreateUserSeatMap, With
      <4> QED BY <2>3, <3>1, <4>1 DEF With
    <3>2. CASE m_USM[a] # NoUser
      <4>1. RecreateUserSeatMap(d) = [d EXCEPT !.user = m_USM[a], !.bound = TRUE]
        BY <1>1, <2>3, <3>2 DEF RecreateUserSeatMap, With
      <4>2. PICK c \in Client : /\ c = [d EXCEPT !.user = m_USM[a], !.bound = TRUE] /\ c.link = d.link
                                /\ With(c, d.type, TRUE, d.seat, m_USM[a])
        BY <1>1, ClientShape
      <4> QED BY <2>3, <3>2, <4>1, <4>2, ZenonT(30) DEF With
    <3> QED BY <3>1, <3>2
  <2>5. cs = [clients EXCEPT ![k] = c]
    BY <1>3, <2>1, <2>3, <2>4 DEF AssignSeatNumToVRHost
  <2> HIDE DEF cs
  <2>6. cs \in Seq(Client) /\ DOMAIN cs = DOMAIN clients /\ cs[k] = c
        /\ \A j \in DOMAIN clients : j # k => cs[j] = clients[j]
    BY <1>1, <2>1, <2>4, <2>5
  <2>7. Changed(cs)
    BY <2>4, <2>6 DEF Changed
  <2> QED BY <2>1, <2>4, <2>6, <2>7 DEF cs
<1> QED BY <1>2, <1>3

LEMMA ReclaimShape ==
    ASSUME Types, NEW l, NEW a
    PROVE  LET cs == ReclaimVRHost(clients, l, a)
           IN  /\ Changed(cs)
               /\ \A k \in DOMAIN clients : cs[k].seat = clients[k].seat /\ cs[k].user = clients[k].user
               /\ \A k \in DOMAIN clients : clients[k].seat # a => cs[k].bound = clients[k].bound
               /\ \A k \in DOMAIN clients : cs[k].bound => clients[k].bound
<1> DEFINE cs == ReclaimVRHost(clients, l, a)
<1>1. clients \in Seq(Client)
  BY DEF Types
<1>2. CASE cs = clients
  BY <1>1, <1>2 DEF Changed
<1>3. CASE cs # clients
  <2>1. PICK k \in DOMAIN clients : k = FindClient(clients, l) /\ clients[k].seat = a
    BY <1>1, <1>3, FindsClient DEF ReclaimVRHost
  <2>2. clients[k] \in Client
    BY <1>1, <2>1
  <2>3. PICK c \in Client : /\ c = [clients[k] EXCEPT !.bound = FALSE] /\ c.link = clients[k].link
                            /\ With(c, clients[k].type, FALSE, clients[k].seat, clients[k].user)
    BY <2>2, ClientShape
  <2>4. cs = [clients EXCEPT ![k] = c]
    BY <1>3, <2>1, <2>3 DEF ReclaimVRHost
  <2> HIDE DEF cs
  <2>5. cs \in Seq(Client) /\ DOMAIN cs = DOMAIN clients /\ cs[k] = c
        /\ \A j \in DOMAIN clients : j # k => cs[j] = clients[j]
    BY <1>1, <2>1, <2>3, <2>4
  <2>6. Changed(cs)
    BY <2>3, <2>5 DEF Changed
  <2>7. /\ \A j \in DOMAIN clients : cs[j].seat = clients[j].seat /\ cs[j].user = clients[j].user
        /\ \A j \in DOMAIN clients : clients[j].seat # a => cs[j].bound = clients[j].bound
        /\ \A j \in DOMAIN clients : cs[j].bound => clients[j].bound
    BY <2>1, <2>3, <2>5 DEF With
  <2> QED BY <2>6, <2>7 DEF cs
<1> QED BY <1>2, <1>3

\* The host that is chosen was free, and is not listed as the link that asks.
LEMMA BindShape ==
    ASSUME Types, Listed, NEW l, NEW u \in Capsules, GetFreeRemoteClient(Known(l)) # 0
    PROVE  \E k \in DOMAIN clients :
              /\ k = GetFreeRemoteClient(Known(l))
              /\ ~ clients[k].bound /\ clients[k].link # l
              /\ clients[k].link \in Links /\ clients[k].seat \in Seats
              /\ Changed(Bind(Known(l), k, u))
              /\ Bind(Known(l), k, u)[k].bound /\ Bind(Known(l), k, u)[k].user = u
              /\ \A j \in DOMAIN clients : /\ Bind(Known(l), k, u)[j].seat = clients[j].seat
                                           /\ j # k => /\ Bind(Known(l), k, u)[j].bound = clients[j].bound
                                                       /\ Bind(Known(l), k, u)[j].user = clients[j].user
<1>1. PICK cs \in Seq(Client) : cs = Known(l) /\ Changed(cs)
  BY KnownShape DEF Changed
<1>2. PICK k \in DOMAIN clients : /\ k = GetFreeRemoteClient(cs)
                                  /\ ~ cs[k].bound /\ cs[k].type = "VRClientAgent"
  BY <1>1, FindsFree DEF Changed
<1>3. clients[k].link # l
  <2>1. \A j \in DOMAIN clients : cs[j].type = "Capsule" => j # k
    BY <1>2
  <2> QED BY <1>1, <2>1, KnownShape DEF Listed
<1>4. clients[k] \in Client /\ cs[k] \in Client
  BY <1>1, <1>2 DEF Types, Changed
<1>5. PICK c \in Client : /\ c = [cs[k] EXCEPT !.user = u, !.bound = TRUE] /\ c.link = cs[k].link
                          /\ c.bound /\ c.user = u /\ c.seat = cs[k].seat
  <2>1. u \in Users
    BY DEF Users
  <2>2. PICK c \in Client : /\ c = [cs[k] EXCEPT !.user = u, !.bound = TRUE] /\ c.link = cs[k].link
                            /\ With(c, cs[k].type, TRUE, cs[k].seat, u)
    BY <1>4, <2>1, ClientShape
  <2> QED BY <2>2 DEF With
<1>6. Bind(cs, k, u) = [cs EXCEPT ![k] = c]
  BY <1>5 DEF Bind
<1>7. Bind(cs, k, u) \in Seq(Client) /\ DOMAIN Bind(cs, k, u) = DOMAIN clients /\ Bind(cs, k, u)[k] = c
      /\ \A j \in DOMAIN clients : j # k => Bind(cs, k, u)[j] = cs[j]
  BY <1>1, <1>2, <1>5, <1>6 DEF Changed
<1>8. clients[k].link \in Links /\ clients[k].seat \in Seats
  BY <1>4 DEF Client
<1>9. /\ ~ clients[k].bound
      /\ \A j \in DOMAIN clients : /\ cs[j].bound = clients[j].bound /\ cs[j].user = clients[j].user
                                   /\ cs[j].seat = clients[j].seat /\ cs[j].link = clients[j].link
  BY <1>1, <1>2, KnownShape DEF Changed
<1>10. Changed(Bind(cs, k, u))
  BY <1>5, <1>7, <1>9, ZenonT(30) DEF Changed
<1>11. PICK bs : bs = Bind(cs, k, u)
  OBVIOUS
<1>12. /\ bs[k] = c /\ \A j \in DOMAIN clients : j # k => bs[j] = cs[j]
  BY <1>7, <1>11
<1>13. ASSUME NEW j \in DOMAIN clients
       PROVE  /\ bs[j].seat = clients[j].seat
              /\ j # k => bs[j].bound = clients[j].bound /\ bs[j].user = clients[j].user
  BY <1>5, <1>9, <1>12, ZenonT(30)
<1>14. Bind(Known(l), k, u) = bs /\ k = GetFreeRemoteClient(Known(l)) /\ Changed(bs)
  BY <1>1, <1>2, <1>10, <1>11
<1>15. bs[k].bound /\ bs[k].user = u
  BY <1>5, <1>12
<1> QED BY <1>3, <1>8, <1>9, <1>13, <1>14, <1>15

\* The client of a link is taken off the list.
LEMMA DeleteShape ==
    ASSUME Types, Listed, NEW l
    PROVE  LET cs == DeleteRemoteClient(clients, l)
           IN  /\ cs \in Seq(Client)
               /\ \A j \in DOMAIN cs : \E k \in DOMAIN clients : cs[j] = clients[k] /\ clients[k].link # l
               /\ \A k \in DOMAIN clients : clients[k].link # l => \E j \in DOMAIN cs : cs[j] = clients[k]
               /\ \A i, j \in DOMAIN cs : cs[i].link = cs[j].link => i = j
<1> DEFINE cs == DeleteRemoteClient(clients, l)
<1>1. clients \in Seq(Client) /\ \A j, k \in DOMAIN clients : clients[j].link = clients[k].link => j = k
  BY DEF Types, Listed
<1>2. CASE FindClient(clients, l) = 0
  <2>1. cs = clients
    BY <1>2 DEF DeleteRemoteClient
  <2> QED BY <1>1, <1>2, <2>1, FindsClient
<1>3. CASE FindClient(clients, l) # 0
  <2>1. PICK k \in DOMAIN clients : k = FindClient(clients, l) /\ clients[k].link = l
    BY <1>1, <1>3, FindsClient
  <2>2. cs = RemoveAt(clients, k)
    BY <1>3, <2>1 DEF DeleteRemoteClient
  <2>3. PICK r : r = RemoveAt(clients, k)
    OBVIOUS
  <2>4. /\ r \in Seq(Client) /\ Len(clients) \in Nat /\ DOMAIN clients = 1..Len(clients)
        /\ k \in 1..Len(clients) /\ DOMAIN r = 1..(Len(clients) - 1)
        /\ \A i \in 1..(k - 1) : r[i] = clients[i]
        /\ \A i \in k..(Len(clients) - 1) : r[i] = clients[i + 1]
    BY <1>1, <2>1, <2>3, RemoveShape
  <2>5. \A j \in DOMAIN r : \E i \in DOMAIN clients :
            r[j] = clients[i] /\ i # k /\ i = IF j < k THEN j ELSE j + 1
    <3> SUFFICES ASSUME NEW j \in DOMAIN r
                 PROVE  \E i \in DOMAIN clients : r[j] = clients[i] /\ i # k /\ i = IF j < k THEN j ELSE j + 1
      OBVIOUS
    <3>1. CASE j < k
      BY <2>4, <3>1
    <3>2. CASE k <= j
      <4>1. r[j] = clients[j + 1] /\ j + 1 \in DOMAIN clients /\ j + 1 # k /\ ~ j < k
        BY <2>4, <3>2
      <4> QED BY <4>1
    <3> QED BY <2>4, <3>1, <3>2
  <2>6. \A i \in DOMAIN clients : i # k => \E j \in DOMAIN r : r[j] = clients[i]
    <3> SUFFICES ASSUME NEW i \in DOMAIN clients, i # k
                 PROVE  \E j \in DOMAIN r : r[j] = clients[i]
      OBVIOUS
    <3>1. CASE i < k
      BY <2>4, <3>1
    <3>2. CASE k < i
      <4>1. i - 1 \in k..(Len(clients) - 1) /\ (i - 1) + 1 = i /\ i - 1 \in DOMAIN r
        BY <2>4, <3>2
      <4>2. r[i - 1] = clients[i]
        BY <2>4, <4>1
      <4> QED BY <4>1, <4>2
    <3> QED BY <2>4, <3>1, <3>2
  <2>7. \A i, j \in DOMAIN r : r[i].link = r[j].link => i = j
    BY <1>1, <2>4, <2>5
  <2>8. \A j \in DOMAIN r : \E i \in DOMAIN clients : r[j] = clients[i] /\ clients[i].link # l
    BY <1>1, <2>1, <2>5
  <2> QED BY <1>1, <2>1, <2>2, <2>3, <2>4, <2>6, <2>7, <2>8, SMTT(30)
<1> QED BY <1>2, <1>3
-----------------------------------------------------------------------------
(* The invariant                                                           *)

LEMMA InitInv == Init => Inv
<1> SUFFICES ASSUME Init PROVE Inv
  OBVIOUS
<1>0. \A p \in Parties : MaxConns(p) \in Nat
  BY BoundsAssumption DEF MaxConns
<1>1. Types
  <2>1. clients = <<>> /\ csv = <<>> /\ up = {} /\ asking = {} /\ lost = {} /\ restarts = 0
    BY DEF Init
  <2>2. /\ m_USM \in [Agents -> Users] /\ flag \in [Agents -> 0..2] /\ agentUser \in [Agents -> Users]
        /\ seatOf \in [Capsules -> Seats] /\ conns \in [Parties -> Nat]
    BY DEF Init, Users, Seats
  <2>3. \A p \in Parties : conns[p] <= MaxConns(p)
    BY <1>0 DEF Init
  <2>4. inbox \in [Links -> Seq(AgentMail \union CapsuleMail)] /\ outbox \in [Links -> Seq(Replies)]
    BY DEF Init
  <2> QED BY <2>1, <2>2, <2>3, <2>4 DEF Types
<1>2. /\ clients = <<>> /\ DOMAIN clients = {} /\ asking = {} /\ up = {}
      /\ \A l \in Links : inbox[l] = <<>> /\ outbox[l] = <<>> /\ DOMAIN inbox[l] = {} /\ DOMAIN outbox[l] = {}
  BY DEF Init
<1>3. Mail
  <2> SUFFICES ASSUME NEW l \in Links PROVE inbox[l] \in Seq(MailOf(l)) /\ outbox[l] = <<>>
    BY DEF Mail
  <2>1. <<>> \in Seq(MailOf(l)) /\ inbox[l] = <<>> /\ outbox[l] = <<>>
    BY <1>2
  <2> QED BY <2>1
<1>4. Listed
  BY <1>2, AtNone DEF Listed, IsListed, News
<1>5. Asking
  BY <1>2, AtNone DEF Asking, Asks, Answers
<1>6. Steady
  BY <1>2, AtNone DEF Steady, Tells, Told, IsListed
<1>7. Seating
  <2> SUFFICES ASSUME NEW a \in Agents
               PROVE  /\ \A u \in Capsules : ~ Holds(u, a)
                      /\ ~ Ended(a)
                      /\ \A l \in Links : l[1] = a => One(Reports(l)) /\ (Reports(l) # {} => flag[a] # 1)
    BY DEF Seating, SeatingOf
  <2>1. \A u \in Capsules : ~ Holds(u, a)
    BY <1>2, AtNone, PartyShape DEF Holds, Init
  <2>2. \A l \in Links : Reports(l) = {}
    BY <1>2, AtNone DEF Reports
  <2>3. flag[a] = 0
    BY DEF Init
  <2> QED BY <2>1, <2>2, <2>3 DEF Ended, One
<1>8. Knowing
  BY <1>2 DEF Knowing, AgentKnowsItsUser, Init
<1> QED BY <1>1, <1>3, <1>4, <1>5, <1>6, <1>7, <1>8 DEF Inv, Kept

\* What the controller has for a link that asks: its number is a capsule's.
LEMMA FromCapsule ==
    ASSUME Types, Mail, NEW l \in Links, NEW m, Takes(l, m)
    PROVE  /\ m = "c2s_tell_user_id" => l[1] \in Capsules
           /\ m \in {"c2s_tell_seat_num", "c2s_device_status_changed"} => l[1] \in Agents
<1>1. inbox[l] # <<>> /\ Head(inbox[l]) = m
  BY TakesShape
<1>2. m \in MailOf(l)
  BY <1>1, TailShape DEF Mail
<1> QED BY <1>2, PartyShape DEF MailOf, AgentMail, CapsuleMail

\* A capsule names its user and a host is free, with all that is sent.
Allocates(l, k, h) ==
    /\ h = clients[k].link /\ h # l
    /\ ~ clients[k].bound /\ clients'[k].bound /\ clients'[k].user = l[1]
    /\ \A j \in DOMAIN clients :
          /\ clients'[j].seat = clients[j].seat
          /\ j # k => clients'[j].bound = clients[j].bound /\ clients'[j].user = clients[j].user
    /\ csv' = Append(csv, <<clients[k].seat, l[1]>>) /\ <<clients[k].seat, l[1]>> \in Seats \X Capsules
    /\ \A r \in Links : r # l /\ r # h => outbox'[r] = outbox[r]
    /\ outbox'[l] = IF IsOpen(l) THEN Append(outbox[l], Reply("s2c_rsp_seat_num", clients[k].seat))
                    ELSE outbox[l]
    /\ outbox'[h] = IF IsOpen(h) THEN Append(outbox[h], Reply("s2c_tell_user_id", l[1])) ELSE outbox[h]
    /\ outbox' \in [Links -> Seq(Replies)]

LEMMA UserIDShape ==
    ASSUME Types, Mail, Listed, NEW l \in Links, HandleUserID(l)
    PROVE  /\ l[1] \in Capsules /\ Takes(l, "c2s_tell_user_id") /\ UNCHANGED m_USM /\ Changed(clients')
           /\ \E k \in DOMAIN clients, h \in Links : Allocates(l, k, h)
<1>1. Takes(l, "c2s_tell_user_id") /\ GetFreeRemoteClient(Known(l)) # 0 /\ UNCHANGED m_USM
  BY DEF HandleUserID
<1>2. l[1] \in Capsules
  BY <1>1, FromCapsule
<1>3. PICK k \in DOMAIN clients :
         /\ k = GetFreeRemoteClient(Known(l))
         /\ ~ clients[k].bound /\ clients[k].link # l
         /\ clients[k].link \in Links /\ clients[k].seat \in Seats
         /\ Changed(Bind(Known(l), k, l[1]))
         /\ Bind(Known(l), k, l[1])[k].bound /\ Bind(Known(l), k, l[1])[k].user = l[1]
         /\ \A j \in DOMAIN clients : /\ Bind(Known(l), k, l[1])[j].seat = clients[j].seat
                                      /\ j # k => /\ Bind(Known(l), k, l[1])[j].bound = clients[j].bound
                                                  /\ Bind(Known(l), k, l[1])[j].user = clients[j].user
  BY <1>1, <1>2, BindShape
<1>4. PICK h \in Links : h = clients[k].link /\ h # l
  BY <1>3
<1>5. /\ clients' = Bind(Known(l), k, l[1]) /\ csv' = Append(csv, <<clients[k].seat, l[1]>>)
      /\ outbox' = Sent(Sent(outbox, l, Reply("s2c_rsp_seat_num", clients[k].seat)),
                        h, Reply("s2c_tell_user_id", l[1]))
  BY <1>3, <1>4 DEF HandleUserID
<1>6. PICK b \in [Links -> Seq(Replies)] :
         /\ b = Sent(outbox, l, Reply("s2c_rsp_seat_num", clients[k].seat))
         /\ \A r \in Links : r # l => b[r] = outbox[r]
         /\ b[l] = IF IsOpen(l) THEN Append(outbox[l], Reply("s2c_rsp_seat_num", clients[k].seat)) ELSE outbox[l]
  <2>1. Reply("s2c_rsp_seat_num", clients[k].seat) \in Replies /\ outbox \in [Links -> Seq(Replies)]
    BY <1>3, PartyShape DEF Types
  <2> QED BY <2>1, SentShape, ZenonT(30)
<1>7. Reply("s2c_tell_user_id", l[1]) \in Replies
  BY <1>2, PartyShape DEF Users
<1>8. PICK o : o = Sent(b, h, Reply("s2c_tell_user_id", l[1]))
  OBVIOUS
<1>9. /\ o \in [Links -> Seq(Replies)] /\ \A r \in Links : r # h => o[r] = b[r]
      /\ o[h] = IF IsOpen(h) THEN Append(b[h], Reply("s2c_tell_user_id", l[1])) ELSE b[h]
  BY <1>7, <1>8, SentShape, ZenonT(30)
<1>10. outbox' = o
  BY <1>5, <1>6, <1>8
<1>11. <<clients[k].seat, l[1]>> \in Seats \X Capsules
  BY <1>2, <1>3
<1>12. \A r \in Links : r # l /\ r # h => outbox'[r] = outbox[r]
  BY <1>6, <1>9, <1>10
<1>13. /\ outbox'[l] = IF IsOpen(l) THEN Append(outbox[l], Reply("s2c_rsp_seat_num", clients[k].seat))
                       ELSE outbox[l]
       /\ outbox'[h] = IF IsOpen(h) THEN Append(outbox[h], Reply("s2c_tell_user_id", l[1])) ELSE outbox[h]
       /\ outbox' \in [Links -> Seq(Replies)]
  BY <1>4, <1>6, <1>9, <1>10
<1>14. /\ Changed(clients') /\ clients'[k].bound /\ clients'[k].user = l[1]
       /\ \A j \in DOMAIN clients :
            /\ clients'[j].seat = clients[j].seat
            /\ j # k => clients'[j].bound = clients[j].bound /\ clients'[j].user = clients[j].user
  BY <1>3, <1>5
<1>15. Allocates(l, k, h)
  BY <1>3, <1>4, <1>5, <1>11, <1>12, <1>13, <1>14 DEF Allocates
<1> QED BY <1>1, <1>2, <1>14, <1>15

\* What a capsule that gets no host is sent, and what an agent that connects.
LEMMA AnswerShape ==
    ASSUME Types, NEW l \in Links, NEW m \in Replies, outbox' = Sent(outbox, l, m)
    PROVE  /\ \A r \in Links : r # l => outbox'[r] = outbox[r]
           /\ outbox'[l] = IF IsOpen(l) THEN Append(outbox[l], m) ELSE outbox[l]
BY SentShape, ZenonT(30) DEF Types

LEMMA TypesStep == ASSUME Types, Mail, Listed, Next PROVE Types'
<1> DEFINE Net == /\ conns \in [Parties -> Nat] /\ \A p \in Parties : conns[p] <= MaxConns(p)
                  /\ up \subseteq Parties /\ \A p \in up : conns[p] # 0
           Boxes == /\ inbox \in [Links -> Seq(AgentMail \union CapsuleMail)]
                    /\ outbox \in [Links -> Seq(Replies)]
           Ctl == /\ clients \in Seq(Client) /\ m_USM \in [Agents -> Users]
                  /\ csv \in Seq(Seats \X Capsules)
           Others == /\ flag \in [Agents -> 0..2] /\ agentUser \in [Agents -> Users]
                     /\ asking \subseteq Capsules /\ seatOf \in [Capsules -> Seats]
                     /\ restarts \in Nat /\ lost \subseteq Agents
<1>1. Net /\ Boxes /\ Ctl /\ Others
  BY DEF Types
<1>2. SUFFICES Net' /\ Boxes' /\ Ctl' /\ Others'
  BY DEF Types
<1>3. ASSUME UNCHANGED <<conns, up>> PROVE Net'
  BY <1>1, <1>3
<1>4. ASSUME UNCHANGED <<inbox, outbox>> PROVE Boxes'
  BY <1>1, <1>4
<1>5. ASSUME UNCHANGED ctlVars PROVE Ctl'
  BY <1>1, <1>5 DEF ctlVars
<1>6. ASSUME UNCHANGED <<agentVars, capsuleVars, restarts, lost>> PROVE Others'
  BY <1>1, <1>6 DEF agentVars, capsuleVars
<1>7. ASSUME NEW l \in Links, NEW m, Takes(l, m)
      PROVE  /\ UNCHANGED <<conns, up>> /\ UNCHANGED <<agentVars, capsuleVars, restarts, lost>>
             /\ inbox' \in [Links -> Seq(AgentMail \union CapsuleMail)]
  BY <1>7, TakesShape DEF Takes
<1> HIDE DEF Net, Others
<1>8. CASE Run
  <2> SUFFICES ASSUME NEW l \in Links, HandleNetEvent(l) PROVE Net' /\ Boxes' /\ Ctl' /\ Others'
    BY <1>8 DEF Run
  <2>1. CASE HandleConnected(l)
    <3>1. Takes(l, "link_connected")
      BY <2>1 DEF HandleConnected
    <3>2. clients' = Append(clients, NewClient(l)) /\ UNCHANGED <<m_USM, csv>>
      BY <2>1 DEF HandleConnected
    <3>3. outbox' = Sent(outbox, l, Reply("link_connected", NoSeat))
      BY <2>1 DEF HandleConnected
    <3>4. outbox' \in [Links -> Seq(Replies)]
      BY <1>1, <3>3, SentShape, PartyShape
    <3>5. clients' \in Seq(Client)
      BY <1>1, <3>2, AppendShape, PartyShape
    <3> QED BY <1>1, <1>3, <1>6, <1>7, <3>1, <3>2, <3>4, <3>5
  <2>2. CASE HandleDisconnected(l)
    <3>1. Takes(l, "link_disconnected") /\ UNCHANGED <<m_USM, csv, outbox>>
      BY <2>2 DEF HandleDisconnected
    <3>2. clients' \in Seq(Client)
      BY <2>2, DeleteShape DEF HandleDisconnected
    <3> QED BY <1>1, <1>3, <1>6, <1>7, <3>1, <3>2
  <2>3. CASE HandleSeatNum(l)
    <3>1. Takes(l, "c2s_tell_seat_num") /\ UNCHANGED <<m_USM, csv, outbox>>
      BY <2>3 DEF HandleSeatNum
    <3>2. l[1] \in Agents
      BY <3>1, FromCapsule
    <3>3. clients' \in Seq(Client)
      BY <2>3, <3>2, SeatShape DEF HandleSeatNum, Changed
    <3> QED BY <1>1, <1>3, <1>6, <1>7, <3>1, <3>3
  <2>4. CASE HandleUserID(l)
    <3>1. Takes(l, "c2s_tell_user_id") /\ GetFreeRemoteClient(Known(l)) # 0 /\ UNCHANGED m_USM
      BY <2>4 DEF HandleUserID
    <3>2. l[1] \in Capsules
      BY <3>1, FromCapsule
    <3>3. PICK k \in DOMAIN clients : /\ k = GetFreeRemoteClient(Known(l)) /\ clients[k].link \in Links
                                      /\ clients[k].seat \in Seats /\ Changed(Bind(Known(l), k, l[1]))
      BY <3>1, <3>2, BindShape
    <3>4. /\ clients' = Bind(Known(l), k, l[1]) /\ csv' = Append(csv, <<clients[k].seat, l[1]>>)
          /\ outbox' = Sent(Sent(outbox, l, Reply("s2c_rsp_seat_num", clients[k].seat)),
                            clients[k].link, Reply("s2c_tell_user_id", l[1]))
      BY <2>4, <3>3 DEF HandleUserID
    <3>5. outbox' \in [Links -> Seq(Replies)]
      <4>1. Reply("s2c_rsp_seat_num", clients[k].seat) \in Replies /\ Reply("s2c_tell_user_id", l[1]) \in Replies
        BY <3>2, <3>3, PartyShape DEF Users
      <4>2. Sent(outbox, l, Reply("s2c_rsp_seat_num", clients[k].seat)) \in [Links -> Seq(Replies)]
        BY <1>1, <4>1, SentShape
      <4> QED BY <3>3, <3>4, <4>1, <4>2, SentShape
    <3>6. csv' \in Seq(Seats \X Capsules)
      BY <1>1, <3>2, <3>3, <3>4, AppendShape
    <3>7. clients' \in Seq(Client)
      BY <3>3, <3>4 DEF Changed
    <3> QED BY <1>1, <1>3, <1>6, <1>7, <3>1, <3>5, <3>6, <3>7
  <2>5. CASE RefuseUserID(l)
    <3>1. Takes(l, "c2s_tell_user_id") /\ UNCHANGED <<m_USM, csv>> /\ clients' = Known(l)
      BY <2>5 DEF RefuseUserID
    <3>2. outbox' = Sent(outbox, l, Reply("s2c_rsp_seat_num", NoSeat))
      BY <2>5 DEF RefuseUserID
    <3>3. outbox' \in [Links -> Seq(Replies)]
      BY <1>1, <3>2, SentShape, PartyShape DEF Seats
    <3>4. clients' \in Seq(Client)
      BY <3>1, KnownShape DEF Changed
    <3> QED BY <1>1, <1>3, <1>6, <1>7, <3>1, <3>3, <3>4
  <2>6. CASE HandleRecycle(l)
    <3>1. Takes(l, "c2s_device_status_changed") /\ UNCHANGED <<m_USM, csv, outbox>>
      BY <2>6 DEF HandleRecycle
    <3>2. clients' \in Seq(Client)
      BY <2>6, ReclaimShape DEF HandleRecycle, Changed
    <3> QED BY <1>1, <1>3, <1>6, <1>7, <3>1, <3>2
  <2> QED BY <2>1, <2>2, <2>3, <2>4, <2>5, <2>6 DEF HandleNetEvent
<1>9. CASE Restart
  <2>1. Net'
    BY <1>1, <1>9 DEF Restart, Net
  <2>2. Boxes'
    BY <1>9 DEF Restart
  <2>3. Others'
    BY <1>1, <1>9 DEF Restart, Others, agentVars, capsuleVars
  <2>4. m_USM' \in [Agents -> Users]
    <3>1. m_USM' = ReadUserSeatMap(csv)
      BY <1>9 DEF Restart
    <3>2. ASSUME NEW s \in Agents PROVE ReadUserSeatMap(csv)[s] \in Users
      <4>1. CASE ReadUserSeatMap(csv)[s] = NoUser
        BY <4>1 DEF Users
      <4>2. CASE \E k \in DOMAIN csv : ReadUserSeatMap(csv)[s] = csv[k][2]
        <5>1. PICK k \in DOMAIN csv : ReadUserSeatMap(csv)[s] = csv[k][2]
          BY <4>2
        <5>2. csv[k] \in Seats \X Capsules
          BY <1>1, <5>1
        <5> QED BY <5>1, <5>2 DEF Users
      <4> QED BY <1>1, <4>1, <4>2, ReadsLast
    <3>3. DOMAIN ReadUserSeatMap(csv) = Agents
          /\ ReadUserSeatMap(csv) = [s \in Agents |-> ReadUserSeatMap(csv)[s]]
      BY DEF ReadUserSeatMap
    <3> QED BY <3>1, <3>2, <3>3
  <2>5. Ctl'
    BY <1>1, <1>9, <2>4 DEF Restart
  <2> QED BY <2>1, <2>2, <2>3, <2>5
<1>10. ASSUME NEW p \in Parties, NEW first \in Seq(AgentMail \union CapsuleMail), Connects(p, first)
       PROVE  Net' /\ Boxes' /\ Ctl' /\ restarts' = restarts /\ lost' = lost
  <2>1. UNCHANGED <<outbox, ctlVars, restarts, lost>>
    BY <1>10 DEF Connects
  <2>2. /\ up' = up \union {p}
        /\ inbox' \in [Links -> Seq(AgentMail \union CapsuleMail)]
        /\ conns' \in [Parties -> Nat] /\ (\A q \in Parties : conns'[q] <= MaxConns(q))
        /\ \A q \in up' : conns'[q] # 0
    BY <1>10, ConnectsShape
  <2>3. Net'
    BY <1>1, <1>10, <2>2 DEF Net
  <2> QED BY <1>1, <1>5, <2>1, <2>2, <2>3
<1>11. ASSUME NEW p \in Parties, HangsUp(p)
       PROVE  Net' /\ Boxes' /\ Ctl' /\ restarts' = restarts
  <2>1. UNCHANGED <<conns, ctlVars, restarts>> /\ up' = up \ {p}
    BY <1>11 DEF HangsUp
  <2>2. Boxes'
    BY <1>11, HangsUpShape
  <2>3. Net'
    BY <1>1, <2>1 DEF Net
  <2> QED BY <1>5, <2>1, <2>2, <2>3
<1>12. ASSUME NEW p \in Parties, NEW m, Gets(p, m)
       PROVE  /\ Net' /\ Ctl' /\ restarts' = restarts /\ lost' = lost
              /\ outbox' \in [Links -> Seq(Replies)]
  <2>1. UNCHANGED <<ctlVars, conns, up, restarts, lost>>
    BY <1>12 DEF Gets
  <2> QED BY <1>3, <1>5, <1>12, <2>1, GetsShape
<1>13. ASSUME NEW a \in Agents PROVE a \in Parties /\ a \notin Capsules
  BY <1>13, PartyShape
<1>14. ASSUME NEW u \in Capsules PROVE u \in Parties /\ u \notin Agents
  BY <1>14, PartyShape
<1>15. ASSUME NEW l \in Links, NEW m \in AgentMail
       PROVE  Append(inbox[l], m) \in Seq(AgentMail \union CapsuleMail)
  BY <1>1, <1>15, AppendShape
<1>16. ASSUME NEW a \in Agents, AgentStep(a) \/ LoseConnection(a) \/ SessionEnds(a)
       PROVE  Net' /\ Boxes' /\ Ctl' /\ Others'
  <2>1. CASE ConnectHostController(a)
    <3>1. Connects(a, <<>>) /\ UNCHANGED <<agentVars, capsuleVars>>
      BY <2>1 DEF ConnectHostController
    <3>2. <<>> \in Seq(AgentMail \union CapsuleMail)
      OBVIOUS
    <3>3. Net' /\ Boxes' /\ Ctl' /\ restarts' = restarts /\ lost' = lost
      BY <1>10, <1>13, <3>1, <3>2
    <3>4. Others'
      BY <1>6, <3>1, <3>3
    <3> QED BY <3>3, <3>4
  <2>2. CASE TellSeatNum(a)
    <3>1. /\ Gets(a, Reply("link_connected", NoSeat)) /\ UNCHANGED <<agentUser, capsuleVars>>
          /\ inbox' = [inbox EXCEPT ![LinkOf(a)] = Append(inbox[LinkOf(a)], "c2s_tell_seat_num")]
          /\ flag' = [flag EXCEPT ![a] = 0]
      BY <2>2 DEF TellSeatNum
    <3>2. inbox' \in [Links -> Seq(AgentMail \union CapsuleMail)]
      BY <1>1, <1>13, <1>15, <3>1, GetsShape DEF AgentMail
    <3>3. Others'
      BY <1>1, <1>12, <1>13, <3>1 DEF Others, capsuleVars
    <3> QED BY <1>12, <1>13, <3>1, <3>2, <3>3
  <2>3. CASE SaveUserID(a)
    <3>1. PICK u \in Capsules :
            /\ Gets(a, Reply("s2c_tell_user_id", u)) /\ agentUser' = [agentUser EXCEPT ![a] = u]
            /\ flag' = [flag EXCEPT ![a] = 0] /\ UNCHANGED <<inbox, capsuleVars>>
      BY <2>3 DEF SaveUserID
    <3>2. Others'
      BY <1>1, <1>12, <1>13, <3>1 DEF Others, capsuleVars, Users
    <3> QED BY <1>1, <1>12, <1>13, <3>1, <3>2
  <2>4. CASE HandleDeviceStatus(a)
    <3>1. /\ a \in up /\ flag' = [flag EXCEPT ![a] = 2]
          /\ inbox' = [inbox EXCEPT ![LinkOf(a)] = Append(inbox[LinkOf(a)], "c2s_device_status_changed")]
      BY <2>4 DEF HandleDeviceStatus
    <3>2. UNCHANGED <<ctlVars, conns, up, outbox, agentUser, capsuleVars, restarts, lost>>
      BY <2>4 DEF HandleDeviceStatus
    <3>3. Append(inbox[LinkOf(a)], "c2s_device_status_changed") \in Seq(AgentMail \union CapsuleMail)
      BY <1>15, <3>1, LinkShape DEF AgentMail
    <3>4. inbox' \in [Links -> Seq(AgentMail \union CapsuleMail)]
      BY <1>1, <3>1, <3>3
    <3>5. Others'
      BY <1>1, <3>1, <3>2 DEF Others, capsuleVars
    <3> QED BY <1>1, <1>3, <1>5, <3>2, <3>4, <3>5
  <2>5. CASE LoseConnection(a)
    <3>1. HangsUp(a) /\ lost' = lost \union {a} /\ UNCHANGED <<agentVars, capsuleVars>>
      BY <2>5 DEF LoseConnection
    <3>2. Others'
      BY <1>1, <1>11, <1>13, <3>1 DEF Others, agentVars, capsuleVars
    <3> QED BY <1>11, <1>13, <3>1, <3>2
  <2>6. CASE SessionEnds(a)
    <3>1. UNCHANGED <<ctlVars, netVars, agentUser, asking, restarts, lost>>
      BY <2>6 DEF SessionEnds
    <3>2. /\ agentUser[a] \in Capsules /\ flag' = [flag EXCEPT ![a] = 1]
          /\ seatOf' = [seatOf EXCEPT ![agentUser[a]] = NoSeat]
      BY <1>1, <2>6 DEF SessionEnds, Others, Users
    <3>3. Others'
      BY <1>1, <3>1, <3>2 DEF Others, Seats
    <3> QED BY <1>3, <1>4, <1>5, <3>1, <3>3 DEF netVars
  <2> QED BY <1>16, <2>1, <2>2, <2>3, <2>4, <2>5, <2>6 DEF AgentStep
<1>17. ASSUME NEW u \in Capsules,
              \/ RequestSeatNumber(u) \/ GetSeatNumResponseMsg(u)
              \/ CapsuleExits(u) \/ CapsuleGivesUp(u)
       PROVE  Net' /\ Boxes' /\ Ctl' /\ Others'
  <2>1. CASE RequestSeatNumber(u)
    <3>1. Connects(u, <<"c2s_tell_user_id">>) /\ asking' = asking \union {u} /\ UNCHANGED <<seatOf, agentVars>>
      BY <2>1 DEF RequestSeatNumber
    <3>2. <<"c2s_tell_user_id">> \in Seq(AgentMail \union CapsuleMail)
      BY DEF CapsuleMail
    <3>3. Net' /\ Boxes' /\ Ctl' /\ restarts' = restarts /\ lost' = lost
      BY <1>10, <1>14, <3>1, <3>2
    <3>4. Others'
      BY <1>1, <3>1, <3>3 DEF Others, agentVars
    <3> QED BY <3>3, <3>4
  <2>2. CASE GetSeatNumResponseMsg(u)
    <3>1. /\ UNCHANGED <<inbox, agentVars>>
          /\ \E m : Gets(u, m)
          /\ asking' \subseteq asking /\ seatOf' \in [Capsules -> Seats]
      BY <1>1, <2>2 DEF GetSeatNumResponseMsg, Others, capsuleVars, Seats
    <3>2. /\ Net' /\ Ctl' /\ restarts' = restarts /\ lost' = lost
          /\ outbox' \in [Links -> Seq(Replies)]
      BY <1>12, <1>14, <3>1
    <3>3. Others'
      BY <1>1, <3>1, <3>2 DEF Others, agentVars
    <3> QED BY <1>1, <3>1, <3>2, <3>3
  <2>3. CASE CapsuleExits(u)
    <3>1. HangsUp(u) /\ asking' = asking \ {u} /\ UNCHANGED <<seatOf, agentVars, lost>>
      BY <2>3 DEF CapsuleExits
    <3>2. Others'
      BY <1>1, <1>11, <1>14, <3>1 DEF Others, agentVars
    <3> QED BY <1>11, <1>14, <3>1, <3>2
  <2>4. CASE CapsuleGivesUp(u)
    <3>1. UNCHANGED <<ctlVars, netVars, agentVars, seatOf, restarts, lost>> /\ asking' = asking \ {u}
      BY <2>4 DEF CapsuleGivesUp
    <3>2. Others'
      BY <1>1, <3>1 DEF Others, agentVars
    <3> QED BY <1>3, <1>4, <1>5, <3>1, <3>2 DEF netVars
  <2> QED BY <1>17, <2>1, <2>2, <2>3, <2>4
<1> QED BY <1>8, <1>9, <1>16, <1>17 DEF Next

\* Whether a link is open does not change as the controller works.
LEMMA StillOpen ==
    ASSUME UNCHANGED <<conns, up>>
    PROVE  \A l : IsOpen(l)' <=> IsOpen(l)
BY DEF IsOpen

LEMMA MailStep == ASSUME Types, Mail, Listed, Next PROVE Mail'
<1> DEFINE In(l) == inbox[l] \in Seq(MailOf(l))
           Out(l) == ~ IsOpen(l) => outbox[l] = <<>>
<1>0. SUFFICES \A l \in Links : In(l)' /\ Out(l)'
  BY DEF Mail, MailOf
<1>1. \A l \in Links : In(l) /\ Out(l)
  BY DEF Mail
<1>2. ASSUME NEW l \in Links, inbox'[l] = inbox[l] PROVE In(l)'
  BY <1>1, <1>2 DEF MailOf
<1>3. ASSUME NEW l \in Links, inbox'[l] = Tail(inbox[l]), inbox[l] # <<>> PROVE In(l)'
  <2>1. PICK S : S = MailOf(l) /\ MailOf(l)' = MailOf(l)
    BY DEF MailOf
  <2>2. inbox[l] \in Seq(S)
    BY <1>1, <1>3, <2>1
  <2>3. Tail(inbox[l]) \in Seq(S)
    BY <1>3, <2>2, TailShape
  <2> QED BY <1>3, <2>1, <2>3
<1>4. ASSUME NEW l \in Links, NEW m \in MailOf(l), inbox'[l] = Append(inbox[l], m) PROVE In(l)'
  <2>1. PICK S : S = MailOf(l) /\ MailOf(l)' = MailOf(l)
    BY DEF MailOf
  <2>2. inbox[l] \in Seq(S) /\ m \in S
    BY <1>1, <1>4, <2>1
  <2>3. Append(inbox[l], m) \in Seq(S)
    BY <2>2, AppendShape
  <2> QED BY <1>4, <2>1, <2>3
<1>5. ASSUME NEW l \in Links, outbox'[l] = outbox[l], IsOpen(l)' <=> IsOpen(l) PROVE Out(l)'
  BY <1>1, <1>5
<1>6. ASSUME NEW l \in Links, IsOpen(l)' PROVE Out(l)'
  BY <1>6
<1> HIDE DEF In, Out
<1>7. ASSUME NEW l \in Links, NEW m, Takes(l, m) PROVE \A r \in Links : In(r)' /\ (IsOpen(r)' <=> IsOpen(r))
  <2>1. UNCHANGED <<conns, up>>
    BY <1>7 DEF Takes
  <2> QED BY <1>2, <1>3, <1>7, <2>1, TakesShape, StillOpen
<1>8. ASSUME NEW p \in Parties, NEW m, Gets(p, m) PROVE \A r \in Links : Out(r)' /\ (IsOpen(r)' <=> IsOpen(r))
  <2>1. UNCHANGED <<conns, up>>
    BY <1>8 DEF Gets
  <2> QED BY <1>5, <1>6, <1>8, <2>1, GetsShape, StillOpen
<1>9. ASSUME NEW p \in Parties, NEW first \in Seq(AgentMail \union CapsuleMail), Connects(p, first),
             <<"link_connected">> \o first \in Seq(IF p \in Agents THEN AgentMail ELSE CapsuleMail)
      PROVE  \A r \in Links : In(r)' /\ Out(r)'
  <2>1. PICK l \in Links : /\ l[1] = p /\ IsOpen(l)' /\ inbox'[l] = <<"link_connected">> \o first
                           /\ \A r \in Links : r # l => (IsOpen(r)' <=> IsOpen(r)) /\ inbox'[r] = inbox[r]
    <3>1. PICK l \in Links : /\ l = <<p, conns[p] + 1>> /\ IsOpen(l)' /\ inbox'[l] = <<"link_connected">> \o first
                             /\ \A r \in Links : r # l => (IsOpen(r)' <=> IsOpen(r)) /\ inbox'[r] = inbox[r]
      BY <1>9, ConnectsShape
    <3> QED BY <3>1
  <2>2. outbox' = outbox
    BY <1>9 DEF Connects
  <2>3. In(l)' /\ Out(l)'
    BY <1>6, <1>9, <2>1 DEF In, MailOf
  <2> QED BY <1>2, <1>5, <2>1, <2>2, <2>3
<1>10. ASSUME NEW p \in Parties, HangsUp(p) PROVE \A r \in Links : In(r)' /\ Out(r)'
  <2>1. PICK l \in Links :
           /\ \A r \in Links : r # l => /\ IsOpen(r)' <=> IsOpen(r)
                                        /\ inbox'[r] = inbox[r] /\ outbox'[r] = outbox[r]
           /\ inbox'[l] = Append(inbox[l], "link_disconnected") /\ outbox'[l] = <<>>
    BY <1>10, HangsUpShape
  <2>2. In(l)'
    BY <1>4, <2>1 DEF MailOf, AgentMail, CapsuleMail
  <2>3. Out(l)'
    BY <2>1 DEF Out
  <2> QED BY <1>2, <1>5, <2>1, <2>2, <2>3
<1>11. CASE Run
  <2> SUFFICES ASSUME NEW l \in Links, HandleNetEvent(l) PROVE \A r \in Links : In(r)' /\ Out(r)'
    BY <1>11 DEF Run
  <2>1. ASSUME NEW m \in Replies, outbox' = Sent(outbox, l, m), \A r \in Links : IsOpen(r)' <=> IsOpen(r)
        PROVE  \A r \in Links : Out(r)'
    BY <1>5, <1>6, <2>1, AnswerShape
  <2>2. CASE HandleConnected(l)
    <3>1. Takes(l, "link_connected") /\ outbox' = Sent(outbox, l, Reply("link_connected", NoSeat))
      BY <2>2 DEF HandleConnected
    <3> QED BY <1>7, <2>1, <3>1, PartyShape
  <2>3. CASE RefuseUserID(l)
    <3>1. Takes(l, "c2s_tell_user_id") /\ outbox' = Sent(outbox, l, Reply("s2c_rsp_seat_num", NoSeat))
      BY <2>3 DEF RefuseUserID
    <3> QED BY <1>7, <2>1, <3>1, PartyShape DEF Seats
  <2>4. CASE HandleUserID(l)
    <3>1. Takes(l, "c2s_tell_user_id")
      BY <2>4 DEF HandleUserID
    <3>2. PICK h \in Links : /\ \A r \in Links : r # l /\ r # h => outbox'[r] = outbox[r]
                             /\ ~ IsOpen(l) => outbox'[l] = outbox[l]
                             /\ ~ IsOpen(h) => outbox'[h] = outbox[h]
      <4>1. PICK k \in DOMAIN clients, h \in Links : Allocates(l, k, h)
        BY <2>4, UserIDShape
      <4> QED BY <4>1 DEF Allocates
    <3>3. \A r \in Links : In(r)' /\ (IsOpen(r)' <=> IsOpen(r))
      BY <1>7, <3>1
    <3>4. ASSUME NEW r \in Links PROVE Out(r)'
      <4>1. IsOpen(r) \/ outbox'[r] = outbox[r]
        BY <3>2
      <4> QED BY <1>5, <1>6, <3>3, <4>1
    <3> QED BY <3>3, <3>4
  <2>5. ASSUME NEW m, Takes(l, m), outbox' = outbox PROVE \A r \in Links : In(r)' /\ Out(r)'
    BY <1>5, <1>7, <2>5
  <2>6. CASE HandleDisconnected(l) \/ HandleSeatNum(l) \/ HandleRecycle(l)
    BY <2>5, <2>6 DEF HandleDisconnected, HandleSeatNum, HandleRecycle
  <2> QED BY <2>2, <2>3, <2>4, <2>6 DEF HandleNetEvent
<1>12. CASE Restart
  <2>1. \A l \in Links : inbox'[l] = <<>> /\ outbox'[l] = <<>>
    BY <1>12 DEF Restart
  <2> QED BY <2>1, EmptySeq DEF In, Out
<1>13. ASSUME NEW a \in Agents, AgentStep(a) \/ LoseConnection(a) \/ SessionEnds(a)
       PROVE  \A r \in Links : In(r)' /\ Out(r)'
  <2>0. a \in Parties /\ <<>> \in Seq(AgentMail \union CapsuleMail)
        /\ <<"link_connected">> \o <<>> \in Seq(IF a \in Agents THEN AgentMail ELSE CapsuleMail)
    BY <1>13, PartyShape DEF AgentMail
  <2>1. CASE ConnectHostController(a)
    BY <1>9, <2>0, <2>1 DEF ConnectHostController
  <2>2. CASE TellSeatNum(a)
    <3>1. Gets(a, Reply("link_connected", NoSeat))
          /\ inbox' = [inbox EXCEPT ![LinkOf(a)] = Append(inbox[LinkOf(a)], "c2s_tell_seat_num")]
      BY <2>2 DEF TellSeatNum
    <3>2. PICK l \in Links : l = LinkOf(a) /\ l[1] = a
      BY <2>0, <3>1, GetsShape
    <3>3. \A r \in Links : r # l => inbox'[r] = inbox[r]
      BY <3>1, <3>2 DEF Types
    <3>4. inbox'[l] = Append(inbox[l], "c2s_tell_seat_num") /\ "c2s_tell_seat_num" \in MailOf(l)
      BY <1>13, <3>1, <3>2 DEF Types, MailOf, AgentMail
    <3> QED BY <1>2, <1>4, <1>8, <2>0, <3>1, <3>3, <3>4
  <2>3. CASE SaveUserID(a)
    BY <1>2, <1>8, <2>0, <2>3 DEF SaveUserID
  <2>4. CASE HandleDeviceStatus(a)
    <3>1. a \in up /\ UNCHANGED <<conns, up>> /\ outbox' = outbox
          /\ inbox' = [inbox EXCEPT ![LinkOf(a)] = Append(inbox[LinkOf(a)], "c2s_device_status_changed")]
      BY <2>4 DEF HandleDeviceStatus
    <3>2. PICK l \in Links : l = LinkOf(a) /\ l[1] = a
      BY <3>1, LinkShape
    <3>3. \A r \in Links : r # l => inbox'[r] = inbox[r]
      BY <3>1, <3>2 DEF Types
    <3>4. inbox'[l] = Append(inbox[l], "c2s_device_status_changed") /\ "c2s_device_status_changed" \in MailOf(l)
      BY <1>13, <3>1, <3>2 DEF Types, MailOf, AgentMail
    <3> QED BY <1>2, <1>4, <1>5, <3>1, <3>3, <3>4, StillOpen
  <2>5. CASE LoseConnection(a)
    BY <1>10, <2>0, <2>5 DEF LoseConnection
  <2>6. CASE SessionEnds(a)
    BY <1>2, <1>5, <2>6, StillOpen DEF SessionEnds, netVars
  <2> QED BY <1>13, <2>1, <2>2, <2>3, <2>4, <2>5, <2>6 DEF AgentStep
<1>14. ASSUME NEW u \in Capsules,
              \/ RequestSeatNumber(u) \/ GetSeatNumResponseMsg(u)
              \/ CapsuleExits(u) \/ CapsuleGivesUp(u)
       PROVE  \A r \in Links : In(r)' /\ Out(r)'
  <2>0. u \in Parties /\ <<"c2s_tell_user_id">> \in Seq(AgentMail \union CapsuleMail)
        /\ <<"link_connected">> \o <<"c2s_tell_user_id">>
              \in Seq(IF u \in Agents THEN AgentMail ELSE CapsuleMail)
    <3>1. u \in Parties /\ u \notin Agents
      BY <1>14, PartyShape
    <3>2. <<"c2s_tell_user_id">> \in Seq(AgentMail \union CapsuleMail)
      BY DEF CapsuleMail
    <3>3. <<"link_connected">> \o <<"c2s_tell_user_id">> \in Seq(CapsuleMail)
      BY DEF CapsuleMail
    <3> QED BY <3>1, <3>2, <3>3
  <2>1. CASE RequestSeatNumber(u)
    BY <1>9, <2>0, <2>1 DEF RequestSeatNumber
  <2>2. CASE GetSeatNumResponseMsg(u)
    BY <1>2, <1>8, <2>0, <2>2 DEF GetSeatNumResponseMsg
  <2>3. CASE CapsuleExits(u)
    BY <1>10, <2>0, <2>3 DEF CapsuleExits
  <2>4. CASE CapsuleGivesUp(u)
    BY <1>2, <1>5, <2>4, StillOpen DEF CapsuleGivesUp, netVars
  <2> QED BY <1>14, <2>1, <2>2, <2>3, <2>4
<1> QED BY <1>11, <1>12, <1>13, <1>14 DEF Next

LEMMA ListedStep == ASSUME Types, Mail, Listed, Next PROVE Listed'
<1> DEFINE Roster == /\ \A j, k \in DOMAIN clients : clients[j].link = clients[k].link => j = k
                     /\ \A k \in DOMAIN clients : clients[k].seat \in {NoSeat, clients[k].link[1]}
           Unused(l) == conns[l[1]] < l[2] => ~ IsListed(l) /\ inbox[l] = <<>>
           Post(l) == One(News(l)) /\ (News(l) # {} => ~ IsListed(l))
<1>0. SUFFICES Roster' /\ \A l \in Links : Unused(l)' /\ Post(l)'
  BY DEF Listed
<1>1. Roster /\ \A l \in Links : Unused(l) /\ Post(l)
  BY DEF Listed
<1>2. ASSUME clients' = clients PROVE Roster' /\ \A r : IsListed(r)' <=> IsListed(r)
  BY <1>1, <1>2 DEF IsListed
<1>3. ASSUME Changed(clients'),
             \A k \in DOMAIN clients : clients'[k].seat \in {clients[k].seat, clients[k].link[1]}
      PROVE  Roster' /\ \A r : IsListed(r)' <=> IsListed(r)
  <2>1. DOMAIN clients' = DOMAIN clients /\ \A k \in DOMAIN clients : clients'[k].link = clients[k].link
    BY <1>3 DEF Changed
  <2>2. \A k \in DOMAIN clients : clients'[k].seat \in {NoSeat, clients'[k].link[1]}
    BY <1>1, <1>3, <2>1
  <2> QED BY <1>1, <2>1, <2>2 DEF IsListed
<1>4. ASSUME NEW l \in Links, inbox'[l] = inbox[l], conns'[l[1]] = conns[l[1]], IsListed(l)' => IsListed(l)
      PROVE  Unused(l)' /\ Post(l)'
  BY <1>1, <1>4 DEF News
<1>5. ASSUME NEW l \in Links, NEW m, Takes(l, m)
      PROVE  /\ conns' = conns /\ conns[l[1]] \in Nat /\ l[2] \in Nat /\ ~ conns[l[1]] < l[2]
             /\ One(News(l)') /\ (News(l)' # {} => ~ IsListed(l))
             /\ m = "link_connected" => ~ IsListed(l) /\ News(l)' = {}
             /\ \A r \in Links : r # l => inbox'[r] = inbox[r]
  <2>1. inbox[l] \in Seq(AgentMail \union CapsuleMail) /\ inbox[l] # <<>> /\ Head(inbox[l]) = m
        /\ inbox'[l] = Tail(inbox[l]) /\ \A r \in Links : r # l => inbox'[r] = inbox[r]
    BY <1>5, TakesShape
  <2>2. conns' = conns /\ conns[l[1]] \in Nat /\ l[2] \in Nat
    BY <1>5, LinkShape DEF Takes, Types
  <2>3. ~ conns[l[1]] < l[2]
    BY <1>1, <2>1
  <2>4. One(News(l)') /\ (News(l)' # {} => ~ IsListed(l))
    BY <1>1, <2>1, AtTail DEF News
  <2>5. m = "link_connected" => ~ IsListed(l) /\ News(l)' = {}
    BY <1>1, <2>1, AtTail DEF News
  <2> QED BY <2>1, <2>2, <2>3, <2>4, <2>5
<1>6. ASSUME NEW l \in Links, IsOpen(l), conns' = conns, NEW m \in AgentMail, m # "link_connected",
             inbox'[l] = Append(inbox[l], m), IsListed(l)' => IsListed(l)
      PROVE  Unused(l)' /\ Post(l)'
  <2>1. ~ conns'[l[1]] < l[2]
    BY <1>6, LinkShape DEF IsOpen, Types
  <2>2. inbox[l] \in Seq(AgentMail \union CapsuleMail)
    BY <1>6 DEF Types
  <2>3. News(l)' = News(l)
    BY <1>6, <2>2, AtAppend DEF News
  <2> QED BY <1>1, <1>6, <2>1, <2>3
<1> HIDE DEF Roster, Unused, Post
<1>7. ASSUME NEW l \in Links, NEW m, Takes(l, m), m # "link_connected", Roster',
             \A r \in Links : IsListed(r)' => IsListed(r)
      PROVE  \A r \in Links : Unused(r)' /\ Post(r)'
  <2>1. Unused(l)' /\ Post(l)'
    BY <1>5, <1>7 DEF Unused, Post
  <2> QED BY <1>4, <1>5, <1>7, <2>1
<1>8. CASE Run
  <2> SUFFICES ASSUME NEW l \in Links, HandleNetEvent(l)
               PROVE  Roster' /\ \A r \in Links : Unused(r)' /\ Post(r)'
    BY <1>8 DEF Run
  <2>1. CASE HandleConnected(l)
    <3>1. Takes(l, "link_connected") /\ clients' = Append(clients, NewClient(l))
      BY <2>1 DEF HandleConnected
    <3>2. /\ Len(clients) \in Nat /\ DOMAIN clients = 1..Len(clients)
          /\ DOMAIN clients' = 1..(Len(clients) + 1)
          /\ \A k \in DOMAIN clients : clients'[k] = clients[k]
          /\ clients'[Len(clients) + 1] = NewClient(l)
      BY <3>1, AppendShape, PartyShape DEF Types
    <3>3. NewClient(l).link = l /\ NewClient(l).seat = NoSeat
      BY DEF NewClient
    <3>4. ~ IsListed(l)
      BY <1>5, <3>1
    <3>5. DOMAIN clients' = DOMAIN clients \union {Len(clients) + 1} /\ Len(clients) + 1 \notin DOMAIN clients
      BY <3>2
    <3>6. Roster'
      BY <1>1, <3>2, <3>3, <3>4, <3>5 DEF Roster, IsListed
    <3>7. \A r \in Links : r # l => (IsListed(r)' => IsListed(r))
      BY <3>2, <3>3, <3>5 DEF IsListed
    <3>8. Unused(l)' /\ Post(l)'
      BY <1>5, <3>1 DEF Unused, Post
    <3> QED BY <1>4, <1>5, <3>1, <3>6, <3>7, <3>8
  <2>2. CASE HandleDisconnected(l)
    <3>1. Takes(l, "link_disconnected") /\ clients' = DeleteRemoteClient(clients, l)
      BY <2>2 DEF HandleDisconnected
    <3>2. /\ \A j \in DOMAIN clients' : \E k \in DOMAIN clients : clients'[j] = clients[k] /\ clients[k].link # l
          /\ \A i, j \in DOMAIN clients' : clients'[i].link = clients'[j].link => i = j
      BY <3>1, DeleteShape
    <3>3. Roster'
      BY <1>1, <3>2 DEF Roster
    <3>4. \A r \in Links : IsListed(r)' => IsListed(r)
      BY <3>2 DEF IsListed
    <3> QED BY <1>7, <3>1, <3>3, <3>4
  <2>3. CASE HandleSeatNum(l)
    <3>1. Takes(l, "c2s_tell_seat_num") /\ clients' = AssignSeatNumToVRHost(clients, l, l[1])
      BY <2>3 DEF HandleSeatNum
    <3>2. l[1] \in Agents
      BY <3>1, FromCapsule
    <3>3. Changed(clients')
      BY <3>1, <3>2, SeatShape
    <3>4. \A k \in DOMAIN clients : clients'[k].seat \in {clients[k].seat, clients[k].link[1]}
      BY <3>1, <3>2, SeatShape
    <3> QED BY <1>3, <1>7, <3>1, <3>3, <3>4
  <2>4. CASE HandleUserID(l)
    <3>1. Takes(l, "c2s_tell_user_id") /\ Changed(clients')
      BY <2>4, UserIDShape
    <3>2. \A k \in DOMAIN clients : clients'[k].seat \in {clients[k].seat, clients[k].link[1]}
      BY <2>4, UserIDShape DEF Allocates
    <3> QED BY <1>3, <1>7, <3>1, <3>2
  <2>5. CASE RefuseUserID(l)
    <3>1. Takes(l, "c2s_tell_user_id") /\ Changed(clients')
          /\ \A k \in DOMAIN clients : clients'[k].seat \in {clients[k].seat, clients[k].link[1]}
      BY <2>5, KnownShape DEF RefuseUserID
    <3> QED BY <1>3, <1>7, <3>1
  <2>6. CASE HandleRecycle(l)
    <3>1. Takes(l, "c2s_device_status_changed") /\ Changed(clients')
          /\ \A k \in DOMAIN clients : clients'[k].seat \in {clients[k].seat, clients[k].link[1]}
      BY <2>6, ReclaimShape DEF HandleRecycle
    <3> QED BY <1>3, <1>7, <3>1
  <2> QED BY <2>1, <2>2, <2>3, <2>4, <2>5, <2>6 DEF HandleNetEvent
<1>9. CASE Restart
  <2>1. clients' = <<>> /\ DOMAIN clients' = {} /\ \A l \in Links : inbox'[l] = <<>>
    BY <1>9 DEF Restart
  <2>2. \A l \in Links : News(l)' = {} /\ One(News(l)')
    BY <2>1, AtNone DEF News
  <2> QED BY <2>1, <2>2 DEF Roster, Unused, Post, IsListed
<1>10. ASSUME NEW p \in Parties, NEW first \in Seq(AgentMail \union CapsuleMail), Connects(p, first),
              One(At(<<"link_connected">> \o first, {"link_connected"}))
       PROVE  Roster' /\ \A r \in Links : Unused(r)' /\ Post(r)'
  <2>1. clients' = clients
    BY <1>10 DEF Connects, ctlVars
  <2>2. PICK l \in Links : /\ l = <<p, conns[p] + 1>> /\ inbox'[l] = <<"link_connected">> \o first
                           /\ conns' = [conns EXCEPT ![p] = conns[p] + 1]
                           /\ \A r \in Links : r # l => inbox'[r] = inbox[r]
    BY <1>10, ConnectsShape
  <2>3. Roster' /\ \A r : IsListed(r)' <=> IsListed(r)
    BY <1>2, <2>1
  <2>4. conns \in [Parties -> Nat] /\ l[1] = p /\ l[2] = conns[p] + 1
    BY <2>2 DEF Types
  <2>5. ~ IsListed(l)
    BY <1>1, <1>10, <2>4 DEF Unused
  <2>6. Unused(l)' /\ Post(l)'
    BY <1>10, <2>2, <2>3, <2>4, <2>5 DEF Unused, Post, News
  <2>7. ASSUME NEW r \in Links, r # l PROVE Unused(r)' /\ Post(r)'
    <3>1. CASE r[1] # p
      <4>1. conns'[r[1]] = conns[r[1]]
        BY <2>2, <2>4, <3>1, PartyShape
      <4> QED BY <1>4, <2>2, <2>3, <2>7, <4>1
    <3>2. CASE r[1] = p
      <4>1. conns'[r[1]] < r[2] => conns[r[1]] < r[2]
        BY <1>10, <2>2, <2>4, <3>2, LinkShape
      <4> QED BY <1>1, <2>2, <2>3, <2>7, <4>1 DEF Unused, Post, News
    <3> QED BY <3>1, <3>2
  <2> QED BY <2>3, <2>6, <2>7
<1>11. ASSUME NEW p \in Parties, HangsUp(p) PROVE Roster' /\ \A r \in Links : Unused(r)' /\ Post(r)'
  <2>1. PICK l \in Links :
           /\ IsOpen(l) /\ \A r \in Links : r # l => inbox'[r] = inbox[r]
           /\ inbox'[l] = Append(inbox[l], "link_disconnected")
    BY <1>11, HangsUpShape
  <2>2. clients' = clients /\ conns' = conns
    BY <1>11 DEF HangsUp, ctlVars
  <2>3. Unused(l)' /\ Post(l)'
    BY <1>2, <1>6, <2>1, <2>2 DEF AgentMail
  <2> QED BY <1>2, <1>4, <2>1, <2>2, <2>3
<1>12. ASSUME clients' = clients, conns' = conns, inbox' = inbox
       PROVE  Roster' /\ \A r \in Links : Unused(r)' /\ Post(r)'
  BY <1>2, <1>4, <1>12
<1>13. ASSUME NEW a \in Agents, NEW m \in AgentMail, m # "link_connected", a \in up,
              clients' = clients, conns' = conns,
              inbox' = [inbox EXCEPT ![LinkOf(a)] = Append(inbox[LinkOf(a)], m)]
       PROVE  Roster' /\ \A r \in Links : Unused(r)' /\ Post(r)'
  <2>1. PICK l \in Links : l = LinkOf(a) /\ IsOpen(l)
    BY <1>13, LinkShape
  <2>2. inbox'[l] = Append(inbox[l], m) /\ \A r \in Links : r # l => inbox'[r] = inbox[r]
    BY <1>13, <2>1 DEF Types
  <2>3. Unused(l)' /\ Post(l)'
    BY <1>2, <1>6, <1>13, <2>1, <2>2
  <2> QED BY <1>2, <1>4, <1>13, <2>2, <2>3
<1>14. ASSUME NEW p, NEW m, Gets(p, m) PROVE clients' = clients /\ conns' = conns /\ p \in up
  BY <1>14 DEF Gets, ctlVars
<1>15. ASSUME NEW a \in Agents, AgentStep(a) \/ LoseConnection(a) \/ SessionEnds(a)
       PROVE  Roster' /\ \A r \in Links : Unused(r)' /\ Post(r)'
  <2>0. a \in Parties /\ <<>> \in Seq(AgentMail \union CapsuleMail)
    BY <1>15, PartyShape
  <2>1. CASE ConnectHostController(a)
    BY <1>10, <2>0, <2>1, AtNew DEF ConnectHostController
  <2>2. CASE TellSeatNum(a)
    BY <1>13, <1>14, <1>15, <2>2 DEF TellSeatNum, AgentMail
  <2>3. CASE SaveUserID(a)
    BY <1>12, <1>14, <2>3 DEF SaveUserID
  <2>4. CASE HandleDeviceStatus(a)
    BY <1>13, <1>15, <2>4 DEF HandleDeviceStatus, ctlVars, AgentMail
  <2>5. CASE LoseConnection(a)
    BY <1>11, <2>0, <2>5 DEF LoseConnection
  <2>6. CASE SessionEnds(a)
    BY <1>12, <2>6 DEF SessionEnds, ctlVars, netVars
  <2> QED BY <1>15, <2>1, <2>2, <2>3, <2>4, <2>5, <2>6 DEF AgentStep
<1>16. ASSUME NEW u \in Capsules,
              \/ RequestSeatNumber(u) \/ GetSeatNumResponseMsg(u)
              \/ CapsuleExits(u) \/ CapsuleGivesUp(u)
       PROVE  Roster' /\ \A r \in Links : Unused(r)' /\ Post(r)'
  <2>0. u \in Parties /\ <<"c2s_tell_user_id">> \in Seq(AgentMail \union CapsuleMail)
    BY <1>16, PartyShape DEF CapsuleMail
  <2>1. CASE RequestSeatNumber(u)
    BY <1>10, <2>0, <2>1, AtNew DEF RequestSeatNumber
  <2>2. CASE GetSeatNumResponseMsg(u)
    BY <1>12, <1>14, <2>2 DEF GetSeatNumResponseMsg
  <2>3. CASE CapsuleExits(u)
    BY <1>11, <2>0, <2>3 DEF CapsuleExits
  <2>4. CASE CapsuleGivesUp(u)
    BY <1>12, <2>4 DEF CapsuleGivesUp, ctlVars, netVars
  <2> QED BY <1>16, <2>1, <2>2, <2>3, <2>4
<1> QED BY <1>8, <1>9, <1>15, <1>16 DEF Next

LEMMA AskingStep == ASSUME Types, Mail, Listed, Asking, Next PROVE Asking'
<1> DEFINE Waits == \A u \in asking : seatOf[u] = NoSeat
           Good(l) == /\ One(Asks(l)) /\ One(Answers(l))
                      /\ Answers(l) # {} => l[1] \in asking
                      /\ IsOpen(l) /\ Asks(l) # {} => l[1] \in asking /\ Answers(l) = {}
           Ask == {"c2s_tell_user_id"}
           Answer == {m \in Replies : m.cmd = "s2c_rsp_seat_num"}
<1>0. SUFFICES Waits' /\ \A l \in Links : l[1] \in Capsules => Good(l)'
  BY DEF Asking
<1>1. Waits /\ \A l \in Links : l[1] \in Capsules => Good(l)
  BY DEF Asking
<1>2. \A l \in Links : ~ IsOpen(l) => Answers(l) = {}
  BY AtNone DEF Mail, Answers
<1>3. \A l \in Links : inbox[l] \in Seq(AgentMail \union CapsuleMail) /\ outbox[l] \in Seq(Replies)
  BY DEF Types
<1>4. ASSUME NEW l \in Links, l[1] \in Capsules, inbox'[l] = inbox[l], outbox'[l] = outbox[l],
             IsOpen(l)' <=> IsOpen(l), l[1] \in asking => l[1] \in asking'
      PROVE  Good(l)'
  BY <1>1, <1>4 DEF Asks, Answers
<1>5. ASSUME NEW l \in Links, NEW m, Takes(l, m)
      PROVE  /\ asking' = asking /\ seatOf' = seatOf /\ \A r \in Links : IsOpen(r)' <=> IsOpen(r)
             /\ \A r \in Links : r # l => inbox'[r] = inbox[r]
             /\ One(Asks(l)) => One(Asks(l)')
             /\ Asks(l) = {} => Asks(l)' = {}
             /\ m \in Ask => Asks(l) # {}
             /\ m \in Ask /\ One(Asks(l)) => Asks(l)' = {}
  <2>1. inbox[l] # <<>> /\ Head(inbox[l]) = m /\ inbox'[l] = Tail(inbox[l])
        /\ \A r \in Links : r # l => inbox'[r] = inbox[r]
    BY <1>5, TakesShape
  <2>2. /\ One(At(inbox[l], Ask)) => One(At(Tail(inbox[l]), Ask))
        /\ At(inbox[l], Ask) = {} => At(Tail(inbox[l]), Ask) = {}
        /\ m \in Ask => At(inbox[l], Ask) # {}
        /\ m \in Ask /\ One(At(inbox[l], Ask)) => At(Tail(inbox[l]), Ask) = {}
    BY <1>3, <2>1, AtTail
  <2>3. asking' = asking /\ seatOf' = seatOf /\ UNCHANGED <<conns, up>>
    BY <1>5 DEF Takes, capsuleVars
  <2> QED BY <2>1, <2>2, <2>3, StillOpen DEF Asks
<1>6. ASSUME NEW l \in Links, NEW m \in Replies, outbox'[l] = IF IsOpen(l) THEN Append(outbox[l], m) ELSE outbox[l]
      PROVE  /\ m \notin Answer => Answers(l)' = Answers(l)
             /\ m \in Answer /\ Answers(l) = {} => One(Answers(l)')
             /\ ~ IsOpen(l) => Answers(l)' = Answers(l)
  <2>1. CASE IsOpen(l)
    <3>1. outbox'[l] = Append(outbox[l], m)
      BY <1>6, <2>1
    <3>2. /\ m \notin Answer => At(Append(outbox[l], m), Answer) = At(outbox[l], Answer)
          /\ m \in Answer /\ At(outbox[l], Answer) = {} => One(At(Append(outbox[l], m), Answer))
      BY <1>3, AtAppend
    <3> QED BY <2>1, <3>1, <3>2 DEF Answers
  <2>2. CASE ~ IsOpen(l)
    BY <1>6, <2>2, AtNone, <1>2 DEF Answers, One
  <2> QED BY <2>1, <2>2
<1>7. ASSUME NEW l \in Links, Answers(l)' = Answers(l), One(Asks(l)) => One(Asks(l)'),
             Asks(l)' # {} => Asks(l) # {}, IsOpen(l)' <=> IsOpen(l), l[1] \in Capsules,
             l[1] \in asking => l[1] \in asking'
      PROVE  Good(l)'
  BY <1>1, <1>7
<1> HIDE DEF Ask, Answer
<1>8. CASE Run
  <2> SUFFICES ASSUME NEW l \in Links, HandleNetEvent(l)
               PROVE  Waits' /\ \A r \in Links : r[1] \in Capsules => Good(r)'
    BY <1>8 DEF Run
  <2>1. CASE HandleConnected(l)
    <3>1. Takes(l, "link_connected") /\ outbox' = Sent(outbox, l, Reply("link_connected", NoSeat))
      BY <2>1 DEF HandleConnected
    <3>2. /\ \A r \in Links : r # l => outbox'[r] = outbox[r]
          /\ outbox'[l] = IF IsOpen(l) THEN Append(outbox[l], Reply("link_connected", NoSeat)) ELSE outbox[l]
      BY <3>1, AnswerShape, PartyShape
    <3>3. Reply("link_connected", NoSeat) \in Replies \ Answer
      BY PartyShape DEF Answer, Reply
    <3>4. Answers(l)' = Answers(l)
      BY <1>6, <3>2, <3>3
    <3>5. l[1] \in Capsules => Good(l)'
      BY <1>5, <1>7, <3>1, <3>4
    <3> QED BY <1>1, <1>4, <1>5, <3>1, <3>2, <3>5
  <2>2. CASE HandleUserID(l)
    <3>1. l[1] \in Capsules /\ Takes(l, "c2s_tell_user_id")
      BY <2>2, UserIDShape
    <3>2. PICK h \in Links, s \in Seats :
             /\ h # l
             /\ \A r \in Links : r # l /\ r # h => outbox'[r] = outbox[r]
             /\ outbox'[l] = IF IsOpen(l) THEN Append(outbox[l], Reply("s2c_rsp_seat_num", s)) ELSE outbox[l]
             /\ outbox'[h] = IF IsOpen(h) THEN Append(outbox[h], Reply("s2c_tell_user_id", l[1])) ELSE outbox[h]
      <4>1. PICK k \in DOMAIN clients, h \in Links : Allocates(l, k, h)
        BY <2>2, UserIDShape
      <4>2. clients[k].seat \in Seats
        BY <4>1 DEF Allocates
      <4> QED BY <4>1, <4>2 DEF Allocates
    <3>3. Reply("s2c_rsp_seat_num", s) \in Answer /\ Reply("s2c_rsp_seat_num", s) \in Replies
      BY <3>2, PartyShape DEF Answer, Reply
    <3>4. Reply("s2c_tell_user_id", l[1]) \in Replies /\ Reply("s2c_tell_user_id", l[1]) \notin Answer
      BY <3>1, PartyShape DEF Answer, Reply, Users
    <3>5. "c2s_tell_user_id" \in Ask
      BY DEF Ask
    <3>6. /\ Asks(l) # {} /\ Asks(l)' = {} /\ asking' = asking /\ seatOf' = seatOf
          /\ \A r \in Links : (IsOpen(r)' <=> IsOpen(r)) /\ (r # l => inbox'[r] = inbox[r])
      BY <1>1, <1>5, <3>1, <3>5
    <3>7. Good(l)'
      <4>1. CASE IsOpen(l)
        <5>1. l[1] \in asking /\ Answers(l) = {}
          BY <1>1, <3>1, <3>6, <4>1
        <5>2. One(Answers(l)')
          BY <1>6, <3>2, <3>3, <5>1
        <5> QED BY <3>6, <5>1, <5>2 DEF One
      <4>2. CASE ~ IsOpen(l)
        <5>1. Answers(l)' = Answers(l)
          BY <1>6, <3>2, <3>3, <4>2
        <5> QED BY <1>1, <3>1, <3>6, <4>2, <5>1 DEF One
      <4> QED BY <4>1, <4>2
    <3>8. h[1] \in Capsules => Good(h)'
      <4>1. Answers(h)' = Answers(h)
        BY <1>6, <3>2, <3>4
      <4>2. Asks(h)' = Asks(h)
        BY <3>2, <3>6 DEF Asks
      <4> QED BY <1>7, <3>6, <4>1, <4>2
    <3> QED BY <1>1, <1>4, <3>2, <3>6, <3>7, <3>8
  <2>3. CASE RefuseUserID(l)
    <3>1. Takes(l, "c2s_tell_user_id") /\ outbox' = Sent(outbox, l, Reply("s2c_rsp_seat_num", NoSeat))
      BY <2>3 DEF RefuseUserID
    <3>2. /\ \A r \in Links : r # l => outbox'[r] = outbox[r]
          /\ outbox'[l] = IF IsOpen(l) THEN Append(outbox[l], Reply("s2c_rsp_seat_num", NoSeat)) ELSE outbox[l]
      BY <3>1, AnswerShape, PartyShape DEF Seats
    <3>3. Reply("s2c_rsp_seat_num", NoSeat) \in Answer /\ Reply("s2c_rsp_seat_num", NoSeat) \in Replies
      BY PartyShape DEF Answer, Reply, Seats
    <3>4. "c2s_tell_user_id" \in Ask /\ l[1] \in Capsules
      BY <3>1, FromCapsule DEF Ask
    <3>5. /\ Asks(l) # {} /\ Asks(l)' = {} /\ asking' = asking /\ seatOf' = seatOf
          /\ \A r \in Links : (IsOpen(r)' <=> IsOpen(r)) /\ (r # l => inbox'[r] = inbox[r])
      BY <1>1, <1>5, <3>1, <3>4
    <3>6. Good(l)'
      <4>1. CASE IsOpen(l)
        <5>1. l[1] \in asking /\ Answers(l) = {}
          BY <1>1, <3>4, <3>5, <4>1
        <5>2. One(Answers(l)')
          BY <1>6, <3>2, <3>3, <5>1
        <5> QED BY <3>5, <5>1, <5>2 DEF One
      <4>2. CASE ~ IsOpen(l)
        <5>1. Answers(l)' = Answers(l)
          BY <1>6, <3>2, <3>3, <4>2
        <5> QED BY <1>1, <3>4, <3>5, <4>2, <5>1 DEF One
      <4> QED BY <4>1, <4>2
    <3> QED BY <1>1, <1>4, <3>2, <3>5, <3>6
  <2>4. CASE HandleDisconnected(l) \/ HandleSeatNum(l) \/ HandleRecycle(l)
    <3>1. PICK m : Takes(l, m) /\ outbox' = outbox
      BY <2>4 DEF HandleDisconnected, HandleSeatNum, HandleRecycle
    <3>2. Answers(l)' = Answers(l)
      BY <3>1 DEF Answers
    <3>3. l[1] \in Capsules => Good(l)'
      BY <1>5, <1>7, <3>1, <3>2
    <3> QED BY <1>1, <1>4, <1>5, <3>1, <3>3
  <2> QED BY <2>1, <2>2, <2>3, <2>4 DEF HandleNetEvent
<1>9. CASE Restart
  <2>1. /\ \A l \in Links : inbox'[l] = <<>> /\ outbox'[l] = <<>>
        /\ asking' = asking /\ seatOf' = seatOf
    BY <1>9 DEF Restart, capsuleVars
  <2>2. \A l \in Links : Asks(l)' = {} /\ Answers(l)' = {}
    BY <2>1, AtNone DEF Asks, Answers
  <2> QED BY <1>1, <2>1, <2>2 DEF One
<1>10. ASSUME NEW p \in Parties, HangsUp(p), asking' = asking \ {p}, seatOf' = seatOf
       PROVE  Waits' /\ \A r \in Links : r[1] \in Capsules => Good(r)'
  <2>1. PICK l \in Links :
           /\ l = LinkOf(p) /\ l[1] = p /\ ~ IsOpen(l)'
           /\ \A r \in Links : r # l => /\ IsOpen(r)' <=> IsOpen(r)
                                        /\ inbox'[r] = inbox[r] /\ outbox'[r] = outbox[r]
           /\ inbox'[l] = Append(inbox[l], "link_disconnected") /\ outbox'[l] = <<>>
    BY <1>10, HangsUpShape
  <2>2. Answers(l)' = {}
    BY <2>1, AtNone DEF Answers
  <2>3. Asks(l)' = Asks(l)
    BY <1>3, <2>1, AtAppend DEF Asks, AgentMail, Ask
  <2>4. l[1] \in Capsules => Good(l)'
    BY <1>1, <2>1, <2>2, <2>3 DEF One
  <2>5. ASSUME NEW r \in Links, r # l, r[1] \in Capsules PROVE Good(r)'
    <3>1. CASE r[1] = p
      <4>1. ~ IsOpen(r) /\ ~ IsOpen(r)'
        BY <2>1, <2>5, <3>1, LinkShape
      <4>2. Answers(r)' = {} /\ Asks(r)' = Asks(r)
        BY <1>2, <2>1, <2>5, <4>1 DEF Answers, Asks
      <4> QED BY <1>1, <2>5, <4>1, <4>2 DEF One
    <3>2. CASE r[1] # p
      BY <1>4, <1>10, <2>1, <2>5, <3>2
    <3> QED BY <3>1, <3>2
  <2> QED BY <1>1, <1>10, <2>4, <2>5
<1>11. ASSUME NEW a \in Agents, AgentStep(a) \/ LoseConnection(a) \/ SessionEnds(a)
       PROVE  Waits' /\ \A r \in Links : r[1] \in Capsules => Good(r)'
  <2>0. a \in Parties /\ a \notin Capsules /\ a \notin asking /\ <<>> \in Seq(AgentMail \union CapsuleMail)
    BY <1>11, PartyShape DEF Types
  <2>1. CASE ConnectHostController(a)
    <3>1. Connects(a, <<>>) /\ outbox' = outbox /\ asking' = asking /\ seatOf' = seatOf
      BY <2>1 DEF ConnectHostController, Connects, capsuleVars
    <3>2. PICK l \in Links : /\ l = <<a, conns[a] + 1>>
                             /\ \A r \in Links : r # l => (IsOpen(r)' <=> IsOpen(r)) /\ inbox'[r] = inbox[r]
      BY <2>0, <3>1, ConnectsShape
    <3> QED BY <1>1, <1>4, <2>0, <3>1, <3>2
  <2>2. ASSUME asking' = asking, seatOf' = seatOf, UNCHANGED <<conns, up>>, a \in up,
               \A r \in Links : r # LinkOf(a) => inbox'[r] = inbox[r] /\ outbox'[r] = outbox[r]
        PROVE  Waits' /\ \A r \in Links : r[1] \in Capsules => Good(r)'
    <3>1. ASSUME NEW r \in Links, r[1] \in Capsules PROVE r # LinkOf(a)
      BY <2>0, <2>2, <3>1, LinkShape
    <3> QED BY <1>1, <1>4, <2>2, <3>1, StillOpen
  <2>3. CASE TellSeatNum(a)
    <3>1. Gets(a, Reply("link_connected", NoSeat)) /\ asking' = asking /\ seatOf' = seatOf
          /\ inbox' = [inbox EXCEPT ![LinkOf(a)] = Append(inbox[LinkOf(a)], "c2s_tell_seat_num")]
      BY <2>3 DEF TellSeatNum, capsuleVars
    <3>2. UNCHANGED <<conns, up>> /\ a \in up
      BY <3>1 DEF Gets
    <3>3. \A r \in Links : r # LinkOf(a) => inbox'[r] = inbox[r] /\ outbox'[r] = outbox[r]
      BY <2>0, <3>1, GetsShape DEF Types
    <3> QED BY <2>2, <3>1, <3>2, <3>3
  <2>4. CASE SaveUserID(a)
    <3>1. PICK u : Gets(a, Reply("s2c_tell_user_id", u)) /\ asking' = asking /\ seatOf' = seatOf /\ inbox' = inbox
      BY <2>4 DEF SaveUserID, capsuleVars
    <3>2. UNCHANGED <<conns, up>> /\ a \in up
      BY <3>1 DEF Gets
    <3>3. \A r \in Links : r # LinkOf(a) => inbox'[r] = inbox[r] /\ outbox'[r] = outbox[r]
      BY <2>0, <3>1, GetsShape
    <3> QED BY <2>2, <3>1, <3>2, <3>3
  <2>5. CASE HandleDeviceStatus(a)
    <3>1. asking' = asking /\ seatOf' = seatOf /\ UNCHANGED <<conns, up>> /\ a \in up /\ outbox' = outbox
          /\ inbox' = [inbox EXCEPT ![LinkOf(a)] = Append(inbox[LinkOf(a)], "c2s_device_status_changed")]
      BY <2>5 DEF HandleDeviceStatus, capsuleVars
    <3>2. \A r \in Links : r # LinkOf(a) => inbox'[r] = inbox[r] /\ outbox'[r] = outbox[r]
      BY <3>1 DEF Types
    <3> QED BY <2>2, <3>1, <3>2
  <2>6. CASE LoseConnection(a)
    <3>1. HangsUp(a) /\ asking' = asking \ {a} /\ seatOf' = seatOf
      BY <2>0, <2>6 DEF LoseConnection, capsuleVars
    <3> QED BY <1>10, <2>0, <3>1
  <2>7. CASE SessionEnds(a)
    <3>1. /\ UNCHANGED <<conns, up>> /\ inbox' = inbox /\ outbox' = outbox /\ asking' = asking
          /\ seatOf' = [seatOf EXCEPT ![agentUser[a]] = NoSeat]
      BY <2>7 DEF SessionEnds, netVars
    <3>2. Waits'
      BY <1>1, <3>1 DEF Types
    <3> QED BY <1>4, <3>1, <3>2, StillOpen
  <2> QED BY <1>11, <2>1, <2>3, <2>4, <2>5, <2>6, <2>7 DEF AgentStep
<1>12. ASSUME NEW u \in Capsules,
              \/ RequestSeatNumber(u) \/ GetSeatNumResponseMsg(u)
              \/ CapsuleExits(u) \/ CapsuleGivesUp(u)
       PROVE  Waits' /\ \A r \in Links : r[1] \in Capsules => Good(r)'
  <2>0. u \in Parties /\ <<"c2s_tell_user_id">> \in Seq(AgentMail \union CapsuleMail)
    BY <1>12, PartyShape DEF CapsuleMail
  <2>1. CASE RequestSeatNumber(u)
    <3>1. /\ Connects(u, <<"c2s_tell_user_id">>) /\ asking' = asking \union {u} /\ seatOf' = seatOf
          /\ seatOf[u] = NoSeat
      BY <2>1 DEF RequestSeatNumber
    <3>2. PICK l \in Links :
             /\ l = <<u, conns[u] + 1>> /\ ~ IsOpen(l)
             /\ \A r \in Links : r # l => (IsOpen(r)' <=> IsOpen(r)) /\ inbox'[r] = inbox[r]
             /\ inbox'[l] = <<"link_connected">> \o <<"c2s_tell_user_id">>
      BY <2>0, <3>1, ConnectsShape
    <3>3. outbox' = outbox
      BY <3>1 DEF Connects
    <3>4. Answers(l)' = {} /\ l[1] = u
      BY <1>2, <3>2, <3>3 DEF Answers
    <3>5. One(Asks(l)')
      BY <3>2, AtNew DEF Asks
    <3>6. Good(l)'
      BY <3>1, <3>4, <3>5 DEF One
    <3> QED BY <1>1, <1>4, <3>1, <3>2, <3>3, <3>6
  <2>2. CASE GetSeatNumResponseMsg(u)
    <3>0. inbox' = inbox /\ u \in asking
      BY <2>2 DEF GetSeatNumResponseMsg
    <3>1. PICK m : Gets(u, m) /\ \/ asking' = asking /\ seatOf' = seatOf
                                 \/ \E s \in Seats : /\ m = Reply("s2c_rsp_seat_num", s)
                                                     /\ seatOf' = [seatOf EXCEPT ![u] = s]
                                                     /\ asking' = asking \ {u}
      BY <2>2 DEF GetSeatNumResponseMsg, capsuleVars, Seats
    <3>2. PICK l \in Links :
             /\ l = LinkOf(u) /\ l[1] = u /\ IsOpen(l)
             /\ outbox[l] \in Seq(Replies) /\ Taken(outbox'[l], outbox[l], m)
             /\ \A r \in Links : r # l => outbox'[r] = outbox[r]
      BY <2>0, <3>1, GetsShape
    <3>3. \A r \in Links : IsOpen(r)' <=> IsOpen(r)
      BY <3>1, StillOpen DEF Gets
    <3>4. /\ One(Answers(l)) => One(Answers(l)')
          /\ Answers(l) = {} => Answers(l)' = {}
          /\ m \in Answer => Answers(l) # {}
          /\ m \in Answer /\ One(Answers(l)) => Answers(l)' = {}
      <4>1. /\ One(At(outbox[l], Answer)) => One(At(outbox'[l], Answer))
            /\ At(outbox[l], Answer) = {} => At(outbox'[l], Answer) = {}
            /\ m \in Answer => At(outbox[l], Answer) # {}
            /\ m \in Answer /\ One(At(outbox[l], Answer)) => At(outbox'[l], Answer) = {}
        <5>1. PICK q, r : q \in Seq(Replies) /\ q = outbox[l] /\ r = outbox'[l] /\ Taken(r, q, m)
          BY <3>2
        <5>2. /\ One(At(q, Answer)) => One(At(r, Answer))
              /\ At(q, Answer) = {} => At(r, Answer) = {}
              /\ m \in Answer => At(q, Answer) # {}
              /\ m \in Answer /\ One(At(q, Answer)) => At(r, Answer) = {}
          BY <5>1, AtTaken
        <5> QED BY <5>1, <5>2
      <4>2. Answers(l) = At(outbox[l], Answer) /\ Answers(l)' = At(outbox'[l], Answer)
        BY <3>2 DEF Answers, Answer
      <4> QED BY <4>1, <4>2
    <3>5. \A r \in Links : Asks(r)' = Asks(r)
      BY <3>0 DEF Asks
    <3>6. CASE asking' = asking /\ seatOf' = seatOf
      <4>1. Good(l)'
        BY <1>1, <3>2, <3>3, <3>4, <3>5, <3>6
      <4> QED BY <1>1, <1>4, <3>0, <3>2, <3>3, <3>6, <4>1
    <3>7. ASSUME NEW s \in Seats, m = Reply("s2c_rsp_seat_num", s),
                 seatOf' = [seatOf EXCEPT ![u] = s], asking' = asking \ {u}
          PROVE  Waits' /\ \A r \in Links : r[1] \in Capsules => Good(r)'
      <4>1. m \in Answer
        BY <3>7, PartyShape DEF Answer, Reply
      <4>2. Answers(l)' = {} /\ Answers(l) # {}
        BY <1>1, <3>2, <3>4, <4>1
      <4>3. Asks(l)' = {}
        BY <1>1, <3>2, <3>5, <4>2
      <4>4. One(Asks(l)') /\ One(Answers(l)')
        BY <4>2, <4>3 DEF One
      <4>5. Good(l)'
        BY <4>2, <4>3, <4>4
      <4>6. ASSUME NEW r \in Links, r # l, r[1] \in Capsules PROVE Good(r)'
        <5>1. CASE r[1] = u
          <6>1. ~ IsOpen(r) /\ ~ IsOpen(r)'
            BY <3>2, <3>3, <4>6, <5>1, LinkShape
          <6>2. Answers(r)' = {}
            BY <1>2, <3>2, <4>6, <6>1 DEF Answers
          <6> QED BY <1>1, <3>5, <4>6, <6>1, <6>2 DEF One
        <5>2. CASE r[1] # u
          BY <1>4, <3>0, <3>2, <3>3, <3>7, <4>6, <5>2
        <5> QED BY <5>1, <5>2
      <4>7. Waits'
        BY <1>1, <3>7 DEF Types
      <4> QED BY <4>5, <4>6, <4>7
    <3> QED BY <3>1, <3>6, <3>7
  <2>3. CASE CapsuleExits(u)
    BY <1>10, <2>0, <2>3 DEF CapsuleExits
  <2>4. CASE CapsuleGivesUp(u)
    <3>1. /\ u \notin up /\ UNCHANGED <<conns, up>> /\ inbox' = inbox /\ outbox' = outbox
          /\ asking' = asking \ {u} /\ seatOf' = seatOf
      BY <2>4 DEF CapsuleGivesUp, netVars
    <3>2. ASSUME NEW r \in Links, r[1] \in Capsules PROVE Good(r)'
      <4>1. (IsOpen(r)' <=> IsOpen(r)) /\ (r[1] = u => ~ IsOpen(r))
        BY <3>1, StillOpen DEF IsOpen
      <4>2. Asks(r)' = Asks(r) /\ Answers(r)' = Answers(r)
        BY <3>1 DEF Asks, Answers
      <4> QED BY <1>1, <1>2, <3>1, <3>2, <4>1, <4>2
    <3> QED BY <1>1, <3>1, <3>2
  <2> QED BY <1>12, <2>1, <2>2, <2>3, <2>4
<1> QED BY <1>8, <1>9, <1>11, <1>12 DEF Next

\* What a capsule or an agent does leaves the controller alone.
LEMMA OnlyTheController ==
    ASSUME Next
    PROVE  \/ \E l \in Links : HandleNetEvent(l)
           \/ Restart
           \/ UNCHANGED ctlVars
<1>1. ASSUME NEW a \in Agents, AgentStep(a) \/ LoseConnection(a) \/ SessionEnds(a)
      PROVE  UNCHANGED ctlVars
  BY <1>1 DEF AgentStep, ConnectHostController, TellSeatNum, SaveUserID, HandleDeviceStatus,
              LoseConnection, SessionEnds, Connects, HangsUp, Gets
<1>2. ASSUME NEW u \in Capsules,
             \/ RequestSeatNumber(u) \/ GetSeatNumResponseMsg(u) \/ CapsuleExits(u) \/ CapsuleGivesUp(u)
      PROVE  UNCHANGED ctlVars
  BY <1>2 DEF RequestSeatNumber, GetSeatNumResponseMsg, CapsuleExits, CapsuleGivesUp, Connects, HangsUp, Gets
<1> QED BY <1>1, <1>2 DEF Next, Run

\* The client that is bound for a capsule is not the capsule's own.
LEMMA BindsAnother ==
    ASSUME Types, Mail, Listed, [Next]_vars, NEW l \in Links,
           ~ Bound(l), Bound(l)', inbox[l] # <<>>, inbox'[l] = Tail(inbox[l])
    PROVE  Head(inbox[l]) # "c2s_tell_user_id"
<1> SUFFICES ASSUME Head(inbox[l]) = "c2s_tell_user_id" PROVE FALSE
  OBVIOUS
<1>1. ASSUME UNCHANGED ctlVars PROVE FALSE
  BY <1>1 DEF ctlVars, Bound
<1>2. ASSUME Restart PROVE FALSE
  BY <1>2 DEF Restart, Bound
<1>3. ASSUME NEW r \in Links, HandleNetEvent(r) PROVE FALSE
  <2>1. PICK m : Takes(r, m)
    BY <1>3 DEF HandleNetEvent, HandleConnected, HandleDisconnected, HandleSeatNum, HandleUserID,
                RefuseUserID, HandleRecycle
  <2>2. inbox[r] # <<>> /\ Head(inbox[r]) = m /\ \A q \in Links : q # r => inbox'[q] = inbox[q]
    BY <2>1, TakesShape
  <2>3. r = l
    <3>1. inbox[l] \in Seq(AgentMail \union CapsuleMail)
      BY DEF Types
    <3>2. Len(inbox'[l]) = Len(inbox[l]) - 1 /\ Len(inbox[l]) \in Nat
      BY <3>1, HeadTailProperties, LenProperties
    <3>3. ASSUME inbox'[l] = inbox[l] PROVE FALSE
      <4>1. PICK n \in Nat : Len(inbox[l]) = n /\ Len(inbox'[l]) = n - 1
        BY <3>2
      <4>2. n = n - 1
        BY <3>3, <4>1
      <4> QED BY <4>2
    <3> QED BY <2>2, <3>3
  <2>4. \A k \in DOMAIN clients' : clients'[k].link = l => ~ clients'[k].bound
    <3>1. \A k \in DOMAIN clients : clients[k].link = l => ~ clients[k].bound
      BY DEF Bound
    <3>2. CASE HandleUserID(l)
      <4>0. PICK k \in DOMAIN clients, h \in Links : Allocates(l, k, h)
        BY <3>2, UserIDShape
      <4>1. (\A j \in DOMAIN clients : j # k => clients'[j].bound = clients[j].bound) /\ clients[k].link # l
        BY <4>0 DEF Allocates
      <4>2. DOMAIN clients' = DOMAIN clients /\ \A j \in DOMAIN clients : clients'[j].link = clients[j].link
        BY <3>2, UserIDShape DEF Changed
      <4> QED BY <3>1, <4>1, <4>2
    <3>3. CASE RefuseUserID(l)
      <4>1. clients' = Known(l)
        BY <3>3 DEF RefuseUserID
      <4> QED BY <3>1, <4>1, KnownShape DEF Changed
    <3>4. m = "c2s_tell_user_id"
      BY <2>2, <2>3
    <3> QED BY <1>3, <2>2, <2>3, <3>2, <3>3, <3>4
          DEF HandleNetEvent, HandleConnected, HandleDisconnected, HandleSeatNum, HandleRecycle, Takes
  <2> QED BY <2>4 DEF Bound
<1>4. CASE UNCHANGED vars
  BY <1>1, <1>4 DEF vars, ctlVars
<1> QED BY <1>1, <1>2, <1>3, <1>4, OnlyTheController

LEMMA SteadyStep ==
    ASSUME Types, Mail, Listed, Steady, Next, lost' = {} PROVE Steady'
<1> DEFINE Gone(l) == At(inbox[l], {"link_disconnected"})
           Good(l) == /\ ~ IsOpen(l) => inbox[l] = <<>> /\ ~ IsListed(l)
                      /\ Gone(l) = {}
                      /\ One(Tells(l)) /\ One(Told(l))
                      /\ Tells(l) # {} => Told(l) = {}
                      /\ \A k \in DOMAIN clients :
                            clients[k].link = l /\ clients[k].seat # NoSeat => Tells(l) = {} /\ Told(l) = {}
           Same(l) == \A j \in DOMAIN clients' : clients'[j].link = l =>
                         \E k \in DOMAIN clients : clients[k].link = l /\ clients[k].seat = clients'[j].seat
           Tell == {"link_connected", "c2s_tell_seat_num"}
           Tld == {m \in Replies : m.cmd = "link_connected"}
           Agent(l) == l[1] \in Agents
<1>0. SUFFICES \A l \in Links : Agent(l) => Good(l)'
  BY DEF Steady
<1>1. \A l \in Links : Agent(l) => Good(l)
  BY DEF Steady
<1>2. \A l \in Links : /\ inbox[l] \in Seq(AgentMail \union CapsuleMail) /\ outbox[l] \in Seq(Replies)
                       /\ Tells(l) = At(inbox[l], Tell) /\ Told(l) = At(outbox[l], Tld)
                       /\ Tells(l)' = At(inbox'[l], Tell) /\ Told(l)' = At(outbox'[l], Tld)
  BY DEF Types, Tells, Told
<1>3. ASSUME NEW l \in Links, Agent(l), Same(l), ~ IsOpen(l)' => ~ IsOpen(l) /\ inbox'[l] = inbox[l],
             Gone(l)' = {}, One(Tells(l)'), One(Told(l)'),
             Tells(l)' # {} => Tells(l) # {}, Told(l)' # {} => Told(l) # {}
      PROVE  Good(l)'
  <2>1. IsListed(l)' => IsListed(l)
    BY <1>3 DEF IsListed
  <2>2. \A k \in DOMAIN clients' :
           clients'[k].link = l /\ clients'[k].seat # NoSeat => Tells(l)' = {} /\ Told(l)' = {}
    BY <1>1, <1>3
  <2> QED BY <1>1, <1>3, <2>1, <2>2
<1>4. ASSUME NEW l \in Links, Agent(l), Same(l), IsOpen(l)' <=> IsOpen(l),
             inbox'[l] = inbox[l], outbox'[l] = outbox[l]
      PROVE  Good(l)'
  <2>1. Gone(l)' = Gone(l) /\ Tells(l)' = Tells(l) /\ Told(l)' = Told(l)
    BY <1>2, <1>4
  <2> QED BY <1>1, <1>3, <1>4, <2>1
<1>5. ASSUME clients' = clients PROVE \A l : Same(l)
  BY <1>5
<1>6. ASSUME Changed(clients'), \A k \in DOMAIN clients : clients'[k].seat = clients[k].seat
      PROVE  \A l : Same(l)
  BY <1>6 DEF Changed
<1>7. ASSUME NEW l \in Links, NEW m, Takes(l, m), Agent(l)
      PROVE  /\ IsOpen(l) /\ Gone(l)' = {} /\ m # "link_disconnected"
             /\ One(Tells(l)') /\ (Tells(l)' # {} => Tells(l) # {})
             /\ m \in Tell => Tells(l) # {} /\ Tells(l)' = {}
  <2>1. inbox[l] # <<>> /\ Head(inbox[l]) = m /\ inbox'[l] = Tail(inbox[l])
    BY <1>7, TakesShape
  <2>2. IsOpen(l)
    BY <1>1, <1>7, <2>1
  <2>3. /\ At(inbox[l], {"link_disconnected"}) = {} => At(Tail(inbox[l]), {"link_disconnected"}) = {}
        /\ m \in {"link_disconnected"} => At(inbox[l], {"link_disconnected"}) # {}
    BY <1>2, <2>1, AtTail
  <2>7. inbox[l] \in Seq(AgentMail \union CapsuleMail)
    BY <1>2
  <2> HIDE DEF Tell
  <2>4. /\ One(At(inbox[l], Tell)) => One(At(Tail(inbox[l]), Tell))
        /\ At(inbox[l], Tell) = {} => At(Tail(inbox[l]), Tell) = {}
        /\ m \in Tell => At(inbox[l], Tell) # {}
        /\ m \in Tell /\ One(At(inbox[l], Tell)) => At(Tail(inbox[l]), Tell) = {}
    BY <2>1, <2>7, AtTail
  <2>5. Gone(l)' = {} /\ m # "link_disconnected"
    BY <1>1, <1>7, <2>1, <2>3
  <2>6. One(Tells(l)) /\ Tells(l) = At(inbox[l], Tell) /\ Tells(l)' = At(Tail(inbox[l]), Tell)
    BY <1>1, <1>2, <1>7, <2>1
  <2> QED BY <2>2, <2>4, <2>5, <2>6
<1>8. ASSUME NEW l \in Links, NEW m \in Replies \ Tld,
             outbox'[l] = IF IsOpen(l) THEN Append(outbox[l], m) ELSE outbox[l]
      PROVE  Told(l)' = Told(l)
  <2> HIDE DEF Tld
  <2>1. outbox[l] \in Seq(Replies) /\ m \in Replies /\ m \notin Tld
    BY <1>2, <1>8
  <2>2. At(Append(outbox[l], m), Tld) = At(outbox[l], Tld)
    BY <2>1, AtAppend
  <2> QED BY <1>2, <1>8, <2>2
<1>9. ASSUME NEW l \in Links, NEW m, Takes(l, m)
      PROVE  /\ \A r \in Links : IsOpen(r)' <=> IsOpen(r)
             /\ \A r \in Links : r # l => inbox'[r] = inbox[r]
  <2>1. UNCHANGED <<conns, up>>
    BY <1>9 DEF Takes
  <2> QED BY <1>9, <2>1, TakesShape, StillOpen
<1> HIDE DEF Tell, Tld, Gone, Same, Good
<1>10. CASE Run
  <2> SUFFICES ASSUME NEW l \in Links, HandleNetEvent(l) PROVE \A r \in Links : Agent(r) => Good(r)'
    BY <1>10 DEF Run
  <2>1. CASE HandleConnected(l)
    <3>1. /\ Takes(l, "link_connected") /\ outbox' = Sent(outbox, l, Reply("link_connected", NoSeat))
          /\ clients' = Append(clients, NewClient(l))
      BY <2>1 DEF HandleConnected
    <3>2. /\ \A r \in Links : r # l => outbox'[r] = outbox[r]
          /\ outbox'[l] = IF IsOpen(l) THEN Append(outbox[l], Reply("link_connected", NoSeat)) ELSE outbox[l]
      BY <3>1, AnswerShape, PartyShape
    <3>3. /\ DOMAIN clients' = DOMAIN clients \union {Len(clients) + 1}
          /\ \A k \in DOMAIN clients : clients'[k] = clients[k]
          /\ clients'[Len(clients) + 1] = NewClient(l)
      <4>1. /\ Len(clients) \in Nat /\ DOMAIN clients = 1..Len(clients)
            /\ DOMAIN clients' = 1..(Len(clients) + 1)
            /\ \A k \in DOMAIN clients : clients'[k] = clients[k]
            /\ clients'[Len(clients) + 1] = NewClient(l)
        BY <3>1, AppendShape, PartyShape DEF Types
      <4> QED BY <4>1
    <3>4. NewClient(l).link = l /\ NewClient(l).seat = NoSeat
      BY DEF NewClient
    <3>5. \A r \in Links : r # l => Same(r)
      BY <3>3, <3>4 DEF Same
    <3>6. ASSUME Agent(l) PROVE Good(l)'
      <4>1. IsOpen(l) /\ Gone(l)' = {} /\ Tells(l) # {} /\ Tells(l)' = {}
        BY <1>7, <3>1, <3>6 DEF Tell
      <4>2. Told(l) = {}
        BY <1>1, <3>6, <4>1 DEF Good
      <4>3. Reply("link_connected", NoSeat) \in Tld /\ Reply("link_connected", NoSeat) \in Replies
        BY PartyShape DEF Tld, Reply
      <4>4. One(Told(l)')
        <5>1. outbox[l] \in Seq(Replies) /\ At(outbox[l], Tld) = {}
          BY <1>2, <4>2
        <5>2. One(At(Append(outbox[l], Reply("link_connected", NoSeat)), Tld))
          BY <4>3, <5>1, AtAppend
        <5> QED BY <1>2, <3>2, <4>1, <5>2
      <4>5. ~ IsListed(l)
        <5>1. inbox[l] # <<>> /\ Head(inbox[l]) = "link_connected"
          BY <3>1, TakesShape
        <5>2. News(l) # {}
          BY <1>2, <5>1, AtTail DEF News
        <5> QED BY <5>2 DEF Listed
      <4>6. \A k \in DOMAIN clients' : clients'[k].link = l => clients'[k].seat = NoSeat
        BY <3>3, <3>4, <4>5 DEF IsListed
      <4>7. IsOpen(l)'
        BY <1>9, <3>1, <4>1
      <4>8. One(Tells(l)')
        BY <4>1 DEF One
      <4> QED BY <4>1, <4>4, <4>6, <4>7, <4>8 DEF Good
    <3> QED BY <1>4, <1>9, <3>1, <3>2, <3>5, <3>6
  <2>2. CASE HandleUserID(l)
    <3>1. l[1] \in Capsules /\ Takes(l, "c2s_tell_user_id") /\ Changed(clients')
      BY <2>2, UserIDShape
    <3>2. PICK k \in DOMAIN clients, h \in Links : Allocates(l, k, h)
      BY <2>2, UserIDShape
    <3>3. /\ h # l /\ \A r \in Links : r # l /\ r # h => outbox'[r] = outbox[r]
          /\ outbox'[h] = IF IsOpen(h) THEN Append(outbox[h], Reply("s2c_tell_user_id", l[1])) ELSE outbox[h]
          /\ \A j \in DOMAIN clients : clients'[j].seat = clients[j].seat
      BY <3>2 DEF Allocates
    <3>4. \A r : Same(r)
      BY <1>6, <3>1, <3>3
    <3>5. Reply("s2c_tell_user_id", l[1]) \in Replies \ Tld
      BY <3>1, PartyShape DEF Tld, Reply, Users
    <3>6. Told(h)' = Told(h)
      BY <1>8, <3>3, <3>5
    <3>7. inbox'[h] = inbox[h] /\ (IsOpen(h)' <=> IsOpen(h))
      BY <1>9, <3>1, <3>3
    <3>8. Agent(h) => Good(h)'
      <4>1. Tells(h)' = Tells(h) /\ Gone(h)' = Gone(h)
        BY <1>2, <3>7 DEF Gone
      <4> QED BY <1>1, <1>3, <3>4, <3>6, <3>7, <4>1 DEF Good
    <3>9. ~ Agent(l)
      BY <3>1, PartyShape
    <3> QED BY <1>4, <1>9, <3>1, <3>3, <3>4, <3>8, <3>9
  <2>3. CASE RefuseUserID(l)
    <3>1. Takes(l, "c2s_tell_user_id") /\ outbox' = Sent(outbox, l, Reply("s2c_rsp_seat_num", NoSeat))
          /\ clients' = Known(l)
      BY <2>3 DEF RefuseUserID
    <3>2. \A r \in Links : r # l => outbox'[r] = outbox[r]
      BY <3>1, AnswerShape, PartyShape DEF Seats
    <3>3. \A r : Same(r)
      BY <1>6, <3>1, KnownShape
    <3>4. ~ Agent(l)
      BY <3>1, FromCapsule, PartyShape
    <3> QED BY <1>4, <1>9, <3>1, <3>2, <3>3, <3>4
  <2>4. CASE HandleRecycle(l)
    <3>1. Takes(l, "c2s_device_status_changed") /\ outbox' = outbox
          /\ clients' = ReclaimVRHost(clients, l, l[1])
      BY <2>4 DEF HandleRecycle
    <3>2. \A r : Same(r)
      BY <1>6, <3>1, ReclaimShape
    <3>3. Agent(l)
      BY <3>1, FromCapsule
    <3>4. Told(l)' = Told(l)
      BY <1>2, <3>1
    <3>5. Good(l)'
      <4>1. IsOpen(l) /\ Gone(l)' = {} /\ One(Tells(l)') /\ (Tells(l)' # {} => Tells(l) # {})
        BY <1>7, <3>1, <3>3
      <4>2. IsOpen(l)' /\ One(Told(l))
        BY <1>1, <1>9, <3>1, <3>3, <4>1 DEF Good
      <4> QED BY <1>3, <3>2, <3>3, <3>4, <4>1, <4>2
    <3> QED BY <1>4, <1>9, <3>1, <3>2, <3>5
  <2>5. CASE HandleSeatNum(l)
    <3>1. Takes(l, "c2s_tell_seat_num") /\ outbox' = outbox
          /\ clients' = AssignSeatNumToVRHost(clients, l, l[1])
      BY <2>5 DEF HandleSeatNum
    <3>2. Agent(l)
      BY <3>1, FromCapsule
    <3>3. /\ Changed(clients')
          /\ \A k \in DOMAIN clients : clients[k].link # l => clients'[k] = clients[k]
      BY <3>1, <3>2, SeatShape
    <3>4. \A r : r # l => Same(r)
      BY <3>3 DEF Same, Changed
    <3>5. IsOpen(l) /\ Gone(l)' = {} /\ Tells(l) # {} /\ Tells(l)' = {}
      BY <1>7, <3>1, <3>2 DEF Tell
    <3>6. Told(l) = {} /\ Told(l)' = Told(l)
      BY <1>1, <1>2, <3>1, <3>2, <3>5 DEF Good
    <3>7. Good(l)'
      <4>1. IsOpen(l)' /\ One(Told(l)') /\ One(Tells(l)')
        BY <1>9, <3>1, <3>5, <3>6 DEF One
      <4> QED BY <3>5, <3>6, <4>1 DEF Good
    <3> QED BY <1>4, <1>9, <3>1, <3>4, <3>7
  <2>6. CASE HandleDisconnected(l)
    <3>1. Takes(l, "link_disconnected") /\ outbox' = outbox /\ clients' = DeleteRemoteClient(clients, l)
      BY <2>6 DEF HandleDisconnected
    <3>2. ~ Agent(l)
      BY <1>7, <3>1
    <3>3. \A r : Same(r)
      BY <3>1, DeleteShape DEF Same
    <3> QED BY <1>4, <1>9, <3>1, <3>2, <3>3
  <2> QED BY <2>1, <2>2, <2>3, <2>4, <2>5, <2>6 DEF HandleNetEvent
<1>11. CASE Restart
  <2>1. clients' = <<>> /\ DOMAIN clients' = {} /\ \A l \in Links : inbox'[l] = <<>> /\ outbox'[l] = <<>>
    BY <1>11 DEF Restart
  <2>2. \A l \in Links : Gone(l)' = {} /\ Tells(l)' = {} /\ Told(l)' = {} /\ ~ IsListed(l)'
    BY <1>2, <2>1, AtNone DEF Gone, IsListed
  <2>3. \A l \in Links : One(Tells(l)') /\ One(Told(l)')
    BY <2>2 DEF One
  <2> QED BY <2>1, <2>2, <2>3 DEF Good
<1>12. ASSUME NEW u \in Capsules,
              \/ RequestSeatNumber(u) \/ GetSeatNumResponseMsg(u)
              \/ CapsuleExits(u) \/ CapsuleGivesUp(u)
       PROVE  \A r \in Links : Agent(r) => Good(r)'
  <2>0. /\ u \in Parties /\ u \notin Agents /\ <<"c2s_tell_user_id">> \in Seq(AgentMail \union CapsuleMail)
        /\ clients' = clients
    <3>1. u \in Parties /\ u \notin Agents /\ <<"c2s_tell_user_id">> \in Seq(AgentMail \union CapsuleMail)
      BY <1>12, PartyShape DEF CapsuleMail
    <3>2. clients' = clients
      BY <1>12 DEF RequestSeatNumber, GetSeatNumResponseMsg, CapsuleExits, CapsuleGivesUp, Connects, HangsUp,
                   Gets, ctlVars
    <3> QED BY <3>1, <3>2
  <2>1. ASSUME NEW l, l[1] = u,
               \A r \in Links : r # l => /\ IsOpen(r)' <=> IsOpen(r)
                                         /\ inbox'[r] = inbox[r] /\ outbox'[r] = outbox[r]
        PROVE  \A r \in Links : Agent(r) => Good(r)'
    BY <1>4, <1>5, <2>0, <2>1
  <2>2. CASE RequestSeatNumber(u)
    <3>1. Connects(u, <<"c2s_tell_user_id">>) /\ outbox' = outbox
      BY <2>2 DEF RequestSeatNumber, Connects
    <3>2. PICK l \in Links :
             /\ l = <<u, conns[u] + 1>>
             /\ \A r \in Links : r # l => (IsOpen(r)' <=> IsOpen(r)) /\ inbox'[r] = inbox[r]
      BY <2>0, <3>1, ConnectsShape
    <3> QED BY <2>1, <3>1, <3>2
  <2>3. CASE GetSeatNumResponseMsg(u)
    <3>1. PICK m : Gets(u, m) /\ inbox' = inbox
      BY <2>3 DEF GetSeatNumResponseMsg
    <3>2. \A r \in Links : r # LinkOf(u) => (IsOpen(r)' <=> IsOpen(r)) /\ outbox'[r] = outbox[r]
      BY <2>0, <3>1, GetsShape, StillOpen DEF Gets
    <3>3. LinkOf(u)[1] = u
      BY DEF LinkOf
    <3> QED BY <2>1, <3>1, <3>2, <3>3
  <2>4. CASE CapsuleExits(u)
    <3>1. PICK l \in Links :
             /\ l[1] = u
             /\ \A r \in Links : r # l => /\ IsOpen(r)' <=> IsOpen(r)
                                          /\ inbox'[r] = inbox[r] /\ outbox'[r] = outbox[r]
      BY <2>0, <2>4, HangsUpShape DEF CapsuleExits
    <3> QED BY <2>1, <3>1
  <2>5. CASE CapsuleGivesUp(u)
    <3>1. UNCHANGED <<conns, up>> /\ inbox' = inbox /\ outbox' = outbox
      BY <2>5 DEF CapsuleGivesUp, netVars
    <3> QED BY <1>4, <1>5, <2>0, <3>1, StillOpen
  <2> QED BY <1>12, <2>2, <2>3, <2>4, <2>5
<1>13. ASSUME NEW a \in Agents, AgentStep(a) \/ LoseConnection(a) \/ SessionEnds(a)
       PROVE  \A r \in Links : Agent(r) => Good(r)'
  <2>0. a \in Parties /\ <<>> \in Seq(AgentMail \union CapsuleMail)
    BY <1>13, PartyShape
  <2>1. CASE ConnectHostController(a)
    <3>1. Connects(a, <<>>) /\ outbox' = outbox /\ clients' = clients
      BY <2>1 DEF ConnectHostController, Connects, ctlVars
    <3>2. PICK l \in Links :
             /\ l = <<a, conns[a] + 1>> /\ ~ IsOpen(l) /\ IsOpen(l)'
             /\ \A r \in Links : r # l => (IsOpen(r)' <=> IsOpen(r)) /\ inbox'[r] = inbox[r]
             /\ inbox'[l] = <<"link_connected">> \o <<>>
      BY <2>0, <3>1, ConnectsShape
    <3>3. Told(l)' = {}
      BY <1>2, <3>1, <3>2, AtNone DEF Mail
    <3>4. One(Tells(l)') /\ Gone(l)' = {}
      BY <1>2, <3>2, AtNew DEF Gone
    <3>5. ~ IsListed(l)
      <4>1. conns[l[1]] < l[2]
        BY <2>0, <3>2 DEF Types
      <4> QED BY <4>1 DEF Listed
    <3>6. \A k \in DOMAIN clients' : clients'[k].link # l
      BY <3>1, <3>5 DEF IsListed
    <3>7. One(Told(l)')
      BY <3>3 DEF One
    <3>8. Good(l)'
      BY <3>2, <3>3, <3>4, <3>6, <3>7 DEF Good
    <3> QED BY <1>4, <1>5, <3>1, <3>2, <3>8
  <2>2. ASSUME NEW m, Gets(a, m)
        PROVE  \E l \in Links :
                 /\ l = LinkOf(a) /\ l[1] = a /\ IsOpen(l) /\ IsOpen(l)'
                 /\ \A r \in Links : (IsOpen(r)' <=> IsOpen(r)) /\ (r # l => outbox'[r] = outbox[r])
                 /\ clients' = clients
                 /\ One(Told(l)') /\ (Told(l)' # {} => Told(l) # {})
                 /\ m \in Tld => Told(l) # {} /\ Told(l)' = {}
    <3>1. PICK l \in Links :
             /\ l = LinkOf(a) /\ l[1] = a /\ IsOpen(l)
             /\ Taken(outbox'[l], outbox[l], m)
             /\ \A r \in Links : r # l => outbox'[r] = outbox[r]
      BY <2>0, <2>2, GetsShape
    <3>2. clients' = clients /\ \A r \in Links : IsOpen(r)' <=> IsOpen(r)
      BY <2>2, StillOpen DEF Gets, ctlVars
    <3>5. outbox[l] \in Seq(Replies)
      BY <1>2
    <3>3. /\ One(At(outbox[l], Tld)) => One(At(outbox'[l], Tld))
          /\ At(outbox[l], Tld) = {} => At(outbox'[l], Tld) = {}
          /\ m \in Tld => At(outbox[l], Tld) # {}
          /\ m \in Tld /\ One(At(outbox[l], Tld)) => At(outbox'[l], Tld) = {}
      <4>1. PICK q, r : q \in Seq(Replies) /\ q = outbox[l] /\ r = outbox'[l] /\ Taken(r, q, m)
        BY <3>1, <3>5
      <4>2. /\ One(At(q, Tld)) => One(At(r, Tld))
            /\ At(q, Tld) = {} => At(r, Tld) = {}
            /\ m \in Tld => At(q, Tld) # {}
            /\ m \in Tld /\ One(At(q, Tld)) => At(r, Tld) = {}
        BY <4>1, AtTaken
      <4> QED BY <4>1, <4>2
    <3>4. One(Told(l)) /\ Told(l) = At(outbox[l], Tld) /\ Told(l)' = At(outbox'[l], Tld)
      BY <1>1, <1>2, <1>13, <3>1 DEF Good
    <3> QED BY <3>1, <3>2, <3>3, <3>4
  <2>3. CASE TellSeatNum(a)
    <3>1. Gets(a, Reply("link_connected", NoSeat))
          /\ inbox' = [inbox EXCEPT ![LinkOf(a)] = Append(inbox[LinkOf(a)], "c2s_tell_seat_num")]
      BY <2>3 DEF TellSeatNum
    <3>2. Reply("link_connected", NoSeat) \in Tld
      BY PartyShape DEF Tld, Reply
    <3>3. PICK l \in Links :
             /\ l = LinkOf(a) /\ l[1] = a /\ IsOpen(l) /\ IsOpen(l)'
             /\ \A r \in Links : (IsOpen(r)' <=> IsOpen(r)) /\ (r # l => outbox'[r] = outbox[r])
             /\ clients' = clients /\ Told(l) # {} /\ Told(l)' = {}
      BY <2>2, <3>1, <3>2
    <3>4. inbox'[l] = Append(inbox[l], "c2s_tell_seat_num") /\ \A r \in Links : r # l => inbox'[r] = inbox[r]
      BY <3>1, <3>3 DEF Types
    <3>5. Tells(l) = {} /\ Gone(l) = {}
          /\ \A k \in DOMAIN clients : clients[k].link = l => clients[k].seat = NoSeat
      BY <1>1, <1>13, <3>3 DEF Good
    <3>6. One(Tells(l)') /\ Gone(l)' = {}
      <4>1. "c2s_tell_seat_num" \in AgentMail \union CapsuleMail
        BY DEF AgentMail
      <4>2. "c2s_tell_seat_num" \in Tell
        BY DEF Tell
      <4>3. One(At(Append(inbox[l], "c2s_tell_seat_num"), Tell))
        BY <1>2, <3>5, <4>1, <4>2, AtAppend
      <4>4. At(Append(inbox[l], "c2s_tell_seat_num"), {"link_disconnected"}) = At(inbox[l], {"link_disconnected"})
        BY <1>2, <4>1, AtAppend
      <4> QED BY <1>2, <3>4, <3>5, <4>3, <4>4 DEF Gone
    <3>7. One(Told(l)')
      BY <3>3 DEF One
    <3>8. Good(l)'
      BY <3>3, <3>5, <3>6, <3>7 DEF Good
    <3> QED BY <1>4, <1>5, <3>3, <3>4, <3>8
  <2>4. CASE SaveUserID(a)
    <3>1. PICK u : Gets(a, Reply("s2c_tell_user_id", u)) /\ inbox' = inbox
      BY <2>4 DEF SaveUserID
    <3>2. PICK l \in Links :
             /\ l = LinkOf(a) /\ l[1] = a /\ IsOpen(l) /\ IsOpen(l)'
             /\ \A r \in Links : (IsOpen(r)' <=> IsOpen(r)) /\ (r # l => outbox'[r] = outbox[r])
             /\ clients' = clients
             /\ One(Told(l)') /\ (Told(l)' # {} => Told(l) # {})
      BY <2>2, <3>1
    <3>3. Tells(l)' = Tells(l) /\ Gone(l)' = Gone(l)
      BY <1>2, <3>1 DEF Gone
    <3>4. Good(l)'
      BY <1>1, <1>3, <1>5, <1>13, <3>2, <3>3 DEF Good
    <3> QED BY <1>4, <1>5, <3>1, <3>2, <3>4
  <2>5. CASE HandleDeviceStatus(a)
    <3>1. UNCHANGED <<conns, up>> /\ a \in up /\ outbox' = outbox /\ clients' = clients
          /\ inbox' = [inbox EXCEPT ![LinkOf(a)] = Append(inbox[LinkOf(a)], "c2s_device_status_changed")]
      BY <2>5 DEF HandleDeviceStatus, ctlVars
    <3>2. PICK l \in Links : l = LinkOf(a) /\ l[1] = a /\ IsOpen(l)
      BY <3>1, LinkShape
    <3>3. inbox'[l] = Append(inbox[l], "c2s_device_status_changed")
          /\ \A r \in Links : r # l => inbox'[r] = inbox[r]
      BY <3>1, <3>2 DEF Types
    <3>4. Tells(l)' = Tells(l) /\ Gone(l)' = Gone(l)
      <4>1. "c2s_device_status_changed" \in AgentMail \union CapsuleMail
        BY DEF AgentMail
      <4>2. At(Append(inbox[l], "c2s_device_status_changed"), Tell) = At(inbox[l], Tell)
        BY <1>2, <4>1, AtAppend DEF Tell
      <4>3. At(Append(inbox[l], "c2s_device_status_changed"), {"link_disconnected"})
              = At(inbox[l], {"link_disconnected"})
        BY <1>2, <4>1, AtAppend
      <4> QED BY <1>2, <3>3, <4>2, <4>3 DEF Gone
    <3>5. Told(l)' = Told(l) /\ (IsOpen(l)' <=> IsOpen(l))
      BY <1>2, <3>1, StillOpen
    <3>6. Good(l)'
      BY <1>1, <1>3, <1>5, <1>13, <3>1, <3>2, <3>4, <3>5 DEF Good
    <3> QED BY <1>4, <1>5, <3>1, <3>3, <3>6, StillOpen
  <2>6. ~ LoseConnection(a)
    BY <1>13 DEF LoseConnection
  <2>7. CASE SessionEnds(a)
    <3>1. UNCHANGED <<conns, up>> /\ inbox' = inbox /\ outbox' = outbox /\ clients' = clients
      BY <2>7 DEF SessionEnds, netVars, ctlVars
    <3> QED BY <1>4, <1>5, <3>1, StillOpen
  <2> QED BY <1>13, <2>1, <2>3, <2>4, <2>5, <2>6, <2>7 DEF AgentStep
<1> QED BY <1>10, <1>11, <1>12, <1>13 DEF Next

\* While no agent has lost its connection, a host is listed with its seat number
\* at most once, under its open link.
LEMMA OneReported ==
    ASSUME Types, Listed, Steady, NEW a \in Agents
    PROVE  /\ One(Reported(a))
           /\ \A k \in Reported(a) : /\ k \in DOMAIN clients /\ clients[k].link \in Links
                                     /\ IsOpen(clients[k].link) /\ clients[k].link = LinkOf(a)
<1>1. ASSUME NEW k \in Reported(a)
      PROVE  /\ k \in DOMAIN clients /\ clients[k].link \in Links
             /\ IsOpen(clients[k].link) /\ clients[k].link = LinkOf(a)
  <2>1. k \in DOMAIN clients /\ clients[k].seat = a
    BY <1>1 DEF Reported
  <2>2. clients[k] \in Client
    BY <2>1 DEF Types
  <2>3. clients[k].link \in Links /\ clients[k].link[1] = a
    BY <2>1, <2>2, PartyShape DEF Client, Listed
  <2>4. IsListed(clients[k].link)
    BY <2>1 DEF IsListed
  <2>5. IsOpen(clients[k].link)
    BY <2>3, <2>4 DEF Steady
  <2> QED BY <2>1, <2>3, <2>5, LinkShape
<1>2. ASSUME NEW i \in Reported(a), NEW j \in Reported(a) PROVE i = j
  BY <1>1, <1>2 DEF Listed
<1> QED BY <1>1, <1>2 DEF One

\* Whom the controller has for a seat is one user.
LEMMA GivenToOne ==
    ASSUME NEW a, NEW u, NEW v, GivenTo(a, u), GivenTo(a, v)
    PROVE  u = v
BY DEF GivenTo

\* The seats stay as they are when nobody is given one, and no session ends.
LEMMA SeatKept ==
    ASSUME NEW a \in Agents, SeatingOf(a),
           \A u \in Capsules : GivenTo(a, u) => GivenTo(a, u)',
           \A u \in Capsules : WrittenTo(a, u) => WrittenTo(a, u)',
           \A u \in Capsules : Holds(u, a)' => Holds(u, a),
           Ended(a)' => Ended(a),
           \A l \in Links : l[1] = a => One(Reports(l)') /\ (Reports(l)' # {} => flag'[a] # 1)
    PROVE  SeatingOf(a)'
BY DEF SeatingOf

\* The same in terms of the variables.
LEMMA HoldsKept ==
    ASSUME NEW a \in Agents, NEW u \in Capsules, seatOf'[u] = a => Holds(u, a),
           \A l \in Links : l[1] = u /\ At(outbox'[l], {Reply("s2c_rsp_seat_num", a)}) # {} => Holds(u, a)
    PROVE  Holds(u, a)' => Holds(u, a)
<1> SUFFICES ASSUME Holds(u, a)' PROVE Holds(u, a)
  OBVIOUS
<1>1. CASE seatOf'[u] = a
  BY <1>1
<1>2. CASE \E l \in Links : l[1] = u /\ At(outbox'[l], {Reply("s2c_rsp_seat_num", a)}) # {}
  BY <1>2
<1>3. Reply("s2c_rsp_seat_num", a)' = Reply("s2c_rsp_seat_num", a)
  BY DEF Reply
<1> QED BY <1>1, <1>2, <1>3 DEF Holds, Reply, At

LEMMA EndedKept ==
    ASSUME NEW a \in Agents, SeatingOf(a), flag'[a] \in {flag[a], 0},
           \A l \in Links : l[1] = a => One(Reports(l)') /\ (Reports(l)' # {} => Reports(l) # {})
    PROVE  /\ Ended(a)' => Ended(a)
           /\ \A l \in Links : l[1] = a => One(Reports(l)') /\ (Reports(l)' # {} => flag'[a] # 1)
BY DEF SeatingOf, Ended

\* Entries without a seat do not count, nor does their order.
LEMMA GivenKept ==
    ASSUME NEW a \in Agents, m_USM' = m_USM,
           \A k \in Reported(a) : \E j \in Reported(a)' : TRUE,
           \A j \in Reported(a)' : \E k \in Reported(a) :
              clients'[j].bound = clients[k].bound /\ clients'[j].user = clients[k].user
    PROVE  \A u \in Capsules : GivenTo(a, u) => GivenTo(a, u)'
<1> SUFFICES ASSUME NEW u \in Capsules, GivenTo(a, u) PROVE GivenTo(a, u)'
  OBVIOUS
<1>1. CASE Reported(a) = {}
  <2>1. Reported(a)' = {}
    BY <1>1
  <2> QED BY <1>1, <2>1 DEF GivenTo
<1>2. CASE Reported(a) # {}
  <2>1. Reported(a)' # {}
    BY <1>2
  <2>2. \A k \in Reported(a) : clients[k].bound /\ clients[k].user = u
    BY <1>2 DEF GivenTo
  <2>3. \A j \in Reported(a)' : clients'[j].bound /\ clients'[j].user = u
    BY <2>2
  <2> QED BY <2>1, <2>3 DEF GivenTo
<1> QED BY <1>1, <1>2

LEMMA AnswersKept ==
    ASSUME NEW a \in Agents, NEW u \in Capsules, seatOf'[u] = a => seatOf[u] = a,
           \A l \in Links : l[1] = u =>
              (At(outbox'[l], {Reply("s2c_rsp_seat_num", a)}) # {} =>
                 At(outbox[l], {Reply("s2c_rsp_seat_num", a)}) # {})
    PROVE  Holds(u, a)' => Holds(u, a)
<1>1. seatOf'[u] = a => Holds(u, a)
  BY DEF Holds
<1>2. \A l \in Links : l[1] = u /\ At(outbox'[l], {Reply("s2c_rsp_seat_num", a)}) # {} => Holds(u, a)
  BY DEF Holds
<1> QED BY <1>1, <1>2, HoldsKept

\* Another message on the way to a capsule gives it no seat.
LEMMA OtherAnswer ==
    ASSUME Types, NEW l \in Links, NEW m \in Replies, NEW r, m # r,
           outbox'[l] = IF IsOpen(l) THEN Append(outbox[l], m) ELSE outbox[l]
    PROVE  At(outbox'[l], {r}) = At(outbox[l], {r})
<1>1. outbox[l] \in Seq(Replies) /\ m \notin {r}
  BY DEF Types
<1>2. At(Append(outbox[l], m), {r}) = At(outbox[l], {r})
  BY <1>1, AtAppend
<1> QED BY <1>2

LEMMA TakesReports ==
    ASSUME Types, NEW l \in Links, NEW m, Takes(l, m), NEW a \in Agents, SeatingOf(a)
    PROVE  /\ Ended(a)' => Ended(a)
           /\ \A r \in Links : r[1] = a => One(Reports(r)') /\ (Reports(r)' # {} => flag'[a] # 1)
           /\ flag' = flag
           /\ l[1] = a /\ m = "c2s_device_status_changed" => Reports(l) # {} /\ Reports(l)' = {}
<1> DEFINE S == {"c2s_device_status_changed"}
<1>1. /\ inbox[l] \in Seq(AgentMail \union CapsuleMail)
      /\ inbox[l] # <<>> /\ Head(inbox[l]) = m /\ inbox'[l] = Tail(inbox[l])
      /\ \A r \in Links : r # l => inbox'[r] = inbox[r]
  BY TakesShape
<1>2. flag' = flag
  BY DEF Takes, agentVars
<1>3. /\ One(At(inbox[l], S)) => One(At(Tail(inbox[l]), S))
      /\ At(inbox[l], S) = {} => At(Tail(inbox[l]), S) = {}
      /\ m \in S => At(inbox[l], S) # {}
      /\ m \in S /\ One(At(inbox[l], S)) => At(Tail(inbox[l]), S) = {}
  BY <1>1, AtTail
<1>4. /\ One(Reports(l)) => One(Reports(l)')
      /\ Reports(l)' # {} => Reports(l) # {}
      /\ m \in S => Reports(l) # {}
      /\ m \in S /\ One(Reports(l)) => Reports(l)' = {}
  BY <1>1, <1>3 DEF Reports
<1>5. \A r \in Links : r # l => Reports(r)' = Reports(r)
  BY <1>1 DEF Reports
<1>6. \A r \in Links : r[1] = a => One(Reports(r)') /\ (Reports(r)' # {} => Reports(r) # {})
  BY <1>4, <1>5 DEF SeatingOf
<1>7. l[1] = a /\ m = "c2s_device_status_changed" => Reports(l) # {} /\ Reports(l)' = {}
  BY <1>4 DEF SeatingOf
<1> QED BY <1>2, <1>6, <1>7, EndedKept

LEMMA SeatingRun ==
    ASSUME Types, Mail, Listed, Asking, Steady, Seating, NEW l \in Links, HandleNetEvent(l),
           NEW a \in Agents
    PROVE  SeatingOf(a)'
<1> DEFINE R == Reply("s2c_rsp_seat_num", a)
<1>0. SeatingOf(a) /\ a # NoSeat /\ a \in Seats /\ a \in Parties /\ a \notin Capsules
  BY PartyShape DEF Seating, Seats
<1>1. clients \in Seq(Client)
  BY DEF Types
<1>2. ASSUME csv' = csv PROVE \A u \in Capsules : WrittenTo(a, u) => WrittenTo(a, u)'
  BY <1>2 DEF WrittenTo
<1>3. ASSUME NEW m, Takes(l, m), \A u \in Capsules : GivenTo(a, u) => GivenTo(a, u)',
             \A u \in Capsules : WrittenTo(a, u) => WrittenTo(a, u)',
             \A r \in Links : r[1] \in Capsules => (At(outbox'[r], {R}) # {} => At(outbox[r], {R}) # {})
      PROVE  SeatingOf(a)'
  <2>1. seatOf' = seatOf
    BY <1>3 DEF Takes, capsuleVars
  <2>2. \A u \in Capsules : Holds(u, a)' => Holds(u, a)
    BY <1>3, <2>1, AnswersKept
  <2> QED BY <1>0, <1>3, <2>2, TakesReports, SeatKept
<1>4. ASSUME NEW m \in Replies, m # R, outbox' = Sent(outbox, l, m)
      PROVE  \A r \in Links : At(outbox'[r], {R}) = At(outbox[r], {R})
  <2>1. /\ \A r \in Links : r # l => outbox'[r] = outbox[r]
        /\ outbox'[l] = IF IsOpen(l) THEN Append(outbox[l], m) ELSE outbox[l]
    BY <1>4, AnswerShape
  <2>2. At(outbox'[l], {R}) = At(outbox[l], {R})
    BY <1>4, <2>1, OtherAnswer
  <2> QED BY <2>1, <2>2
<1>5. ASSUME m_USM' = m_USM, Changed(clients'),
             \A k \in DOMAIN clients : /\ clients'[k].seat = a <=> clients[k].seat = a
                                       /\ clients[k].seat = a => /\ clients'[k].bound = clients[k].bound
                                                                 /\ clients'[k].user = clients[k].user
      PROVE  \A u \in Capsules : GivenTo(a, u) => GivenTo(a, u)'
  <2>1. Reported(a)' = Reported(a)
    BY <1>5 DEF Reported, Changed
  <2>2. \A k \in Reported(a) : clients'[k].bound = clients[k].bound /\ clients'[k].user = clients[k].user
    BY <1>5 DEF Reported
  <2> QED BY <1>5, <2>1, <2>2, GivenKept
<1> HIDE DEF R
<1>6. CASE HandleConnected(l)
  <2>1. /\ Takes(l, "link_connected") /\ outbox' = Sent(outbox, l, Reply("link_connected", NoSeat))
        /\ clients' = Append(clients, NewClient(l)) /\ m_USM' = m_USM /\ csv' = csv
    BY <1>6 DEF HandleConnected
  <2>2. Reply("link_connected", NoSeat) # R /\ Reply("link_connected", NoSeat) \in Replies
    BY PartyShape DEF R, Reply
  <2>3. /\ Len(clients) \in Nat /\ DOMAIN clients = 1..Len(clients)
        /\ DOMAIN clients' = 1..(Len(clients) + 1)
        /\ \A k \in DOMAIN clients : clients'[k] = clients[k]
        /\ clients'[Len(clients) + 1] = NewClient(l)
    BY <1>1, <2>1, AppendShape, PartyShape
  <2>4. Reported(a)' = Reported(a)
    <3>1. DOMAIN clients' = DOMAIN clients \union {Len(clients) + 1}
      BY <2>3
    <3>2. clients'[Len(clients) + 1].seat # a
      BY <1>0, <2>3 DEF NewClient
    <3> QED BY <2>3, <3>1, <3>2 DEF Reported
  <2>5. \A k \in Reported(a) : clients'[k].bound = clients[k].bound /\ clients'[k].user = clients[k].user
    BY <2>3 DEF Reported
  <2>6. \A u \in Capsules : GivenTo(a, u) => GivenTo(a, u)'
    BY <2>1, <2>4, <2>5, GivenKept
  <2> QED BY <1>2, <1>3, <1>4, <2>1, <2>2, <2>6
<1>7. CASE HandleDisconnected(l)
  <2>1. /\ Takes(l, "link_disconnected") /\ outbox' = outbox /\ m_USM' = m_USM /\ csv' = csv
        /\ clients' = DeleteRemoteClient(clients, l)
    BY <1>7 DEF HandleDisconnected
  <2>2. l[1] # a
    <3>1. inbox[l] \in Seq(AgentMail \union CapsuleMail) /\ inbox[l] # <<>> /\ Head(inbox[l]) = "link_disconnected"
      BY <2>1, TakesShape
    <3>2. At(inbox[l], {"link_disconnected"}) # {}
      BY <3>1, AtTail
    <3> QED BY <3>2 DEF Steady
  <2>3. /\ \A j \in DOMAIN clients' : \E k \in DOMAIN clients : clients'[j] = clients[k] /\ clients[k].link # l
        /\ \A k \in DOMAIN clients : clients[k].link # l => \E j \in DOMAIN clients' : clients'[j] = clients[k]
    BY <2>1, DeleteShape
  <2>4. \A k \in Reported(a) : clients[k].link # l
    BY <1>0, <2>2 DEF Reported, Listed
  <2>5. \A k \in Reported(a) : \E j \in Reported(a)' : TRUE
    BY <2>3, <2>4 DEF Reported
  <2>6. \A j \in Reported(a)' : \E k \in Reported(a) :
              clients'[j].bound = clients[k].bound /\ clients'[j].user = clients[k].user
    <3> SUFFICES ASSUME NEW j \in Reported(a)'
                 PROVE  \E k \in Reported(a) :
                           clients'[j].bound = clients[k].bound /\ clients'[j].user = clients[k].user
      OBVIOUS
    <3>1. j \in DOMAIN clients' /\ clients'[j].seat = a
      BY DEF Reported
    <3>2. PICK k \in DOMAIN clients : clients'[j] = clients[k]
      BY <2>3, <3>1
    <3>3. k \in Reported(a)
      BY <3>1, <3>2 DEF Reported
    <3> QED BY <3>2, <3>3
  <2>7. \A u \in Capsules : GivenTo(a, u) => GivenTo(a, u)'
    BY <2>1, <2>5, <2>6, GivenKept
  <2> QED BY <1>2, <1>3, <2>1, <2>7
<1>8. CASE HandleSeatNum(l)
  <2>1. /\ Takes(l, "c2s_tell_seat_num") /\ outbox' = outbox /\ m_USM' = m_USM /\ csv' = csv
        /\ clients' = AssignSeatNumToVRHost(clients, l, l[1])
    BY <1>8 DEF HandleSeatNum
  <2>2. l[1] \in Agents
    BY <2>1, FromCapsule
  <2>3. Tells(l) # {} /\ IsOpen(l)
    <3>1. inbox[l] \in Seq(AgentMail \union CapsuleMail) /\ inbox[l] # <<>> /\ Head(inbox[l]) = "c2s_tell_seat_num"
      BY <2>1, TakesShape
    <3>2. At(inbox[l], {"link_connected", "c2s_tell_seat_num"}) # {}
      BY <3>1, AtTail
    <3> QED BY <2>2, <3>1, <3>2 DEF Steady, Tells
  <2>4. \A k \in DOMAIN clients : clients[k].link = l => clients[k].seat = NoSeat
    BY <2>2, <2>3 DEF Steady
  <2>5. CASE clients' = clients
    <3>1. \A u \in Capsules : GivenTo(a, u) => GivenTo(a, u)'
      BY <1>1, <1>5, <2>1, <2>5 DEF Changed
    <3> QED BY <1>2, <1>3, <2>1, <3>1
  <2>6. ASSUME NEW k \in DOMAIN clients, clients[k].link = l, Changed(clients'),
               \A j \in DOMAIN clients : j # k => clients'[j] = clients[j],
               clients'[k].seat = l[1],
               m_USM[l[1]] # NoUser => clients'[k].bound /\ clients'[k].user = m_USM[l[1]]
        PROVE  SeatingOf(a)'
    <3>1. CASE l[1] # a
      <4>1. \A u \in Capsules : GivenTo(a, u) => GivenTo(a, u)'
        BY <1>0, <1>5, <2>1, <2>4, <2>6, <3>1
      <4> QED BY <1>2, <1>3, <2>1, <4>1
    <3>2. CASE l[1] = a
      <4>1. Reported(a) = {}
        <5> SUFFICES ASSUME NEW i \in Reported(a) PROVE FALSE
          OBVIOUS
        <5>1. i \in DOMAIN clients /\ clients[i].link = LinkOf(a) /\ clients[i].seat = a
          BY OneReported DEF Reported
        <5>2. l = LinkOf(a)
          BY <2>3, <3>2, LinkShape
        <5> QED BY <1>0, <2>4, <5>1, <5>2
      <4>2. Reported(a)' = {k}
        BY <2>6, <3>2, <4>1 DEF Reported, Changed
      <4>3. ASSUME NEW u \in Capsules, GivenTo(a, u) PROVE GivenTo(a, u)'
        <5>1. m_USM[a] = u /\ u # NoUser
          BY <4>1, <4>3, PartyShape DEF GivenTo
        <5>2. clients'[k].bound /\ clients'[k].user = u
          BY <2>6, <3>2, <5>1
        <5> QED BY <4>2, <5>2 DEF GivenTo
      <4> QED BY <1>2, <1>3, <2>1, <4>3
    <3> QED BY <3>1, <3>2
  <2>7. /\ Changed(clients')
        /\ \/ clients' = clients
           \/ \E k \in DOMAIN clients :
                 /\ clients[k].link = l
                 /\ \A j \in DOMAIN clients : j # k => clients'[j] = clients[j]
                 /\ clients'[k].seat = l[1]
                 /\ m_USM[l[1]] = NoUser => clients'[k].bound = clients[k].bound /\ clients'[k].user = clients[k].user
                 /\ m_USM[l[1]] # NoUser => clients'[k].bound /\ clients'[k].user = m_USM[l[1]]
    BY <2>1, <2>2, SeatShape
  <2> QED BY <2>5, <2>6, <2>7
<1>9. CASE HandleUserID(l)
  <2>1. /\ Takes(l, "c2s_tell_user_id") /\ l[1] \in Capsules /\ m_USM' = m_USM /\ Changed(clients')
    BY <1>9, UserIDShape
  <2>2. PICK k \in DOMAIN clients, h \in Links : Allocates(l, k, h)
    BY <1>9, UserIDShape
  <2>3. /\ h # l
        /\ ~ clients[k].bound /\ clients'[k].bound /\ clients'[k].user = l[1]
        /\ \A j \in DOMAIN clients :
              /\ clients'[j].seat = clients[j].seat
              /\ j # k => clients'[j].bound = clients[j].bound /\ clients'[j].user = clients[j].user
        /\ \A r \in Links : r # l /\ r # h => outbox'[r] = outbox[r]
        /\ outbox'[l] = IF IsOpen(l) THEN Append(outbox[l], Reply("s2c_rsp_seat_num", clients[k].seat))
                        ELSE outbox[l]
        /\ outbox'[h] = IF IsOpen(h) THEN Append(outbox[h], Reply("s2c_tell_user_id", l[1])) ELSE outbox[h]
    BY <2>2 DEF Allocates
  <2>4. csv' = Append(csv, <<clients[k].seat, l[1]>>) /\ <<clients[k].seat, l[1]>> \in Seats \X Capsules
    BY <2>2 DEF Allocates
  <2>5. \A v : WrittenTo(a, v)' <=> (IF clients[k].seat = a THEN l[1] ELSE ReadUserSeatMap(csv)[a]) = v
    <3>0. PICK ln \in Seats \X Capsules : ln = <<clients[k].seat, l[1]>> /\ ln[1] = clients[k].seat /\ ln[2] = l[1]
      BY <2>4
    <3>3. csv \in Seq(Seats \X Capsules) /\ csv' = Append(csv, ln)
      BY <2>4, <3>0 DEF Types
    <3>4. ReadUserSeatMap(Append(csv, ln))[a] = IF ln[1] = a THEN ln[2] ELSE ReadUserSeatMap(csv)[a]
      BY <3>3, ReadAppend
    <3>1. ReadUserSeatMap(csv')[a] = IF clients[k].seat = a THEN l[1] ELSE ReadUserSeatMap(csv)[a]
      BY <3>0, <3>3, <3>4
    <3>2. \A v : WrittenTo(a, v)' <=> ReadUserSeatMap(csv')[a] = v
      BY DEF WrittenTo
    <3> QED BY <3>1, <3>2
  <2>6. At(outbox'[h], {R}) = At(outbox[h], {R})
    <3>1. Reply("s2c_tell_user_id", l[1]) # R /\ Reply("s2c_tell_user_id", l[1]) \in Replies
      BY <2>1, PartyShape DEF R, Reply, Users
    <3> QED BY <2>3, <3>1, OtherAnswer
  <2>7. CASE clients[k].seat # a
    <3>1. \A u \in Capsules : GivenTo(a, u) => GivenTo(a, u)'
      BY <1>5, <2>1, <2>3, <2>7
    <3>2. \A u \in Capsules : WrittenTo(a, u) => WrittenTo(a, u)'
      BY <2>5, <2>7 DEF WrittenTo
    <3>3. At(outbox'[l], {R}) = At(outbox[l], {R})
      <4>1. Reply("s2c_rsp_seat_num", clients[k].seat) # R /\ Reply("s2c_rsp_seat_num", clients[k].seat) \in Replies
        BY <2>4, <2>7, PartyShape DEF R, Reply
      <4> QED BY <2>3, <4>1, OtherAnswer
    <3> QED BY <1>3, <2>1, <2>3, <2>6, <3>1, <3>2, <3>3
  <2>8. CASE clients[k].seat = a
    <3>1. k \in Reported(a) /\ Reported(a) = {k}
      BY <2>8, OneReported DEF Reported, One
    <3>2. \A v : ~ GivenTo(a, v)
      BY <2>3, <3>1 DEF GivenTo
    <3>3. ~ Ended(a) /\ \A v \in Capsules : ~ Holds(v, a)
      BY <1>0, <3>2 DEF SeatingOf
    <3>4. Reported(a)' = {k}
      BY <2>1, <2>3, <3>1 DEF Reported, Changed
    <3>5. GivenTo(a, l[1])' /\ WrittenTo(a, l[1])'
      BY <2>1, <2>3, <2>5, <2>8, <3>4 DEF GivenTo
    <3>6. ASSUME NEW v \in Capsules, v # l[1] PROVE ~ Holds(v, a)'
      <4>1. seatOf' = seatOf
        BY <2>1 DEF Takes, capsuleVars
      <4>2. \A r \in Links : r[1] = v => At(outbox'[r], {R}) = At(outbox[r], {R})
        BY <2>3, <2>6, <3>6
      <4> QED BY <3>3, <4>1, <4>2, AnswersKept DEF R
    <3>7. /\ ~ Ended(a)'
          /\ \A r \in Links : r[1] = a => One(Reports(r)') /\ (Reports(r)' # {} => flag'[a] # 1)
      BY <1>0, <2>1, <3>3, TakesReports
    <3> QED BY <3>5, <3>6, <3>7 DEF SeatingOf
  <2> QED BY <2>7, <2>8
<1>10. CASE RefuseUserID(l)
  <2>1. /\ Takes(l, "c2s_tell_user_id") /\ outbox' = Sent(outbox, l, Reply("s2c_rsp_seat_num", NoSeat))
        /\ m_USM' = m_USM /\ csv' = csv /\ clients' = Known(l)
    BY <1>10 DEF RefuseUserID
  <2>2. Reply("s2c_rsp_seat_num", NoSeat) # R /\ Reply("s2c_rsp_seat_num", NoSeat) \in Replies
    BY <1>0, PartyShape DEF R, Reply, Seats
  <2>3. \A u \in Capsules : GivenTo(a, u) => GivenTo(a, u)'
    BY <1>5, <2>1, KnownShape
  <2> QED BY <1>2, <1>3, <1>4, <2>1, <2>2, <2>3
<1>11. CASE HandleRecycle(l)
  <2>1. /\ Takes(l, "c2s_device_status_changed") /\ outbox' = outbox /\ m_USM' = m_USM /\ csv' = csv
        /\ clients' = ReclaimVRHost(clients, l, l[1])
    BY <1>11 DEF HandleRecycle
  <2>2. CASE l[1] # a
    <3>1. \A u \in Capsules : GivenTo(a, u) => GivenTo(a, u)'
      BY <1>5, <2>1, <2>2, ReclaimShape
    <3> QED BY <1>2, <1>3, <2>1, <3>1
  <2>3. CASE l[1] = a
    <3>1. Reports(l) # {} /\ Reports(l)' = {} /\ flag' = flag
      BY <1>0, <2>1, <2>3, TakesReports
    <3>2. Ended(a) /\ flag[a] # 1
      BY <1>0, <2>3, <3>1 DEF Ended, SeatingOf
    <3>3. \A u \in Capsules : ~ Holds(u, a)
      BY <1>0, <3>2 DEF SeatingOf
    <3>4. \A u \in Capsules : ~ Holds(u, a)'
      <4>1. seatOf' = seatOf
        BY <2>1 DEF Takes, capsuleVars
      <4> QED BY <2>1, <3>3, <4>1, AnswersKept
    <3>5. ~ Ended(a)'
      <4>1. ASSUME NEW r \in Links, r[1] = a, r # l PROVE Reports(r)' = {}
        <5>1. IsOpen(l)
          BY <2>1, <2>3, TakesShape DEF Steady
        <5>2. ~ IsOpen(r)
          BY <2>3, <4>1, <5>1, LinkShape
        <5>3. inbox[r] = <<>> /\ inbox'[r] = inbox[r]
          BY <2>1, <4>1, <5>2, TakesShape DEF Steady
        <5> QED BY <5>3, AtNone DEF Reports
      <4>2. \A r \in Links : r[1] = a => Reports(r)' = {}
        BY <3>1, <4>1
      <4> QED BY <3>1, <3>2, <4>2 DEF Ended
    <3>6. \A r \in Links : r[1] = a => One(Reports(r)') /\ (Reports(r)' # {} => flag'[a] # 1)
      BY <1>0, <2>1, TakesReports
    <3> QED BY <3>4, <3>5, <3>6 DEF SeatingOf
  <2> QED BY <2>2, <2>3
<1> QED BY <1>6, <1>7, <1>8, <1>9, <1>10, <1>11 DEF HandleNetEvent

LEMMA SeatingRestart ==
    ASSUME Seating, Restart, NEW a \in Agents PROVE SeatingOf(a)'
<1>0. SeatingOf(a)
  BY DEF Seating
<1>1. /\ clients' = <<>> /\ DOMAIN clients' = {} /\ m_USM' = ReadUserSeatMap(csv) /\ csv' = csv
      /\ flag' = flag /\ seatOf' = seatOf
      /\ \A l \in Links : inbox'[l] = <<>> /\ outbox'[l] = <<>>
  BY DEF Restart, agentVars, capsuleVars
<1>2. \A u : GivenTo(a, u)' <=> WrittenTo(a, u)
  <2>1. Reported(a)' = {}
    BY <1>1 DEF Reported
  <2> QED BY <1>1, <2>1 DEF GivenTo, WrittenTo
<1>3. \A u : WrittenTo(a, u)' <=> WrittenTo(a, u)
  BY <1>1 DEF WrittenTo
<1>4. \A u \in Capsules : Holds(u, a)' => Holds(u, a)
  BY <1>1, AtNone, AnswersKept
<1>5. \A l \in Links : Reports(l)' = {} /\ One(Reports(l)')
  BY <1>1, AtNone DEF Reports
<1>6. Ended(a)' => Ended(a)
  BY <1>1, <1>5 DEF Ended
<1> QED BY <1>0, <1>2, <1>3, <1>4, <1>5, <1>6 DEF SeatingOf

\* What capsules do gives no seat to anybody.
LEMMA SeatingCapsule ==
    ASSUME Types, Mail, Seating, NEW a \in Agents, NEW u \in Capsules,
           \/ RequestSeatNumber(u) \/ GetSeatNumResponseMsg(u) \/ CapsuleExits(u) \/ CapsuleGivesUp(u)
    PROVE  SeatingOf(a)'
<1> DEFINE R == Reply("s2c_rsp_seat_num", a)
<1>0. SeatingOf(a) /\ u \in Parties /\ u # a /\ a # NoSeat
      /\ <<"c2s_tell_user_id">> \in Seq(AgentMail \union CapsuleMail)
  <2>1. <<"c2s_tell_user_id">> \in Seq(AgentMail \union CapsuleMail)
    BY DEF CapsuleMail
  <2> QED BY <2>1, PartyShape DEF Seating
<1>1. UNCHANGED <<clients, m_USM, csv, flag>>
  BY DEF RequestSeatNumber, GetSeatNumResponseMsg, CapsuleExits, CapsuleGivesUp, Connects, HangsUp,
         Gets, ctlVars, agentVars
<1>2. ASSUME \A v \in Capsules : Holds(v, a)' => Holds(v, a),
             \A l \in Links : l[1] = a => inbox'[l] = inbox[l]
      PROVE  SeatingOf(a)'
  <2>1. \A v : /\ GivenTo(a, v)' <=> GivenTo(a, v)
               /\ WrittenTo(a, v)' <=> WrittenTo(a, v)
    BY <1>1 DEF GivenTo, WrittenTo, Reported
  <2>2. \A l \in Links : l[1] = a => Reports(l)' = Reports(l)
    BY <1>2 DEF Reports
  <2>3. /\ Ended(a)' => Ended(a)
        /\ \A l \in Links : l[1] = a => One(Reports(l)') /\ (Reports(l)' # {} => flag'[a] # 1)
    BY <1>0, <1>1, <2>2, EndedKept DEF SeatingOf
  <2> QED BY <1>0, <1>2, <2>1, <2>3, SeatKept
<1> HIDE DEF R
<1>3. CASE RequestSeatNumber(u)
  <2>1. Connects(u, <<"c2s_tell_user_id">>) /\ outbox' = outbox /\ seatOf' = seatOf
    BY <1>3 DEF RequestSeatNumber, Connects
  <2>2. PICK l \in Links : l = <<u, conns[u] + 1>> /\ \A r \in Links : r # l => inbox'[r] = inbox[r]
    BY <1>0, <2>1, ConnectsShape
  <2>3. \A v \in Capsules : Holds(v, a)' => Holds(v, a)
    BY <2>1, AnswersKept
  <2> QED BY <1>0, <1>2, <2>2, <2>3
<1>4. CASE GetSeatNumResponseMsg(u)
  <2>0. inbox' = inbox
    BY <1>4 DEF GetSeatNumResponseMsg
  <2>1. PICK m : Gets(u, m) /\ \/ seatOf' = seatOf
                               \/ \E s \in Seats : /\ m = Reply("s2c_rsp_seat_num", s)
                                                   /\ seatOf' = [seatOf EXCEPT ![u] = s]
    BY <1>4 DEF GetSeatNumResponseMsg, capsuleVars, Seats
  <2>2. PICK l \in Links :
             /\ l = LinkOf(u) /\ l[1] = u
             /\ outbox[l] \in Seq(Replies) /\ Taken(outbox'[l], outbox[l], m)
             /\ \A r \in Links : r # l => outbox'[r] = outbox[r]
    BY <1>0, <2>1, GetsShape
  <2>3. /\ At(outbox[l], {R}) = {} => At(outbox'[l], {R}) = {}
        /\ m \in {R} => At(outbox[l], {R}) # {}
    <3>1. PICK q, r : q \in Seq(Replies) /\ q = outbox[l] /\ r = outbox'[l] /\ Taken(r, q, m)
      BY <2>2
    <3>2. PICK S : S = {R}
      OBVIOUS
    <3>3. (At(q, S) = {} => At(r, S) = {}) /\ (m \in S => At(q, S) # {})
      BY <3>1, AtTaken
    <3> QED BY <3>1, <3>2, <3>3
  <2>4. ASSUME NEW v \in Capsules PROVE Holds(v, a)' => Holds(v, a)
    <3>1. \A r \in Links : At(outbox'[r], {R}) # {} => At(outbox[r], {R}) # {}
      BY <2>2, <2>3
    <3>2. seatOf'[v] = a => Holds(v, a)
      <4>1. CASE seatOf' = seatOf
        BY <4>1 DEF Holds
      <4>2. ASSUME NEW s \in Seats, m = Reply("s2c_rsp_seat_num", s), seatOf' = [seatOf EXCEPT ![u] = s],
                   seatOf'[v] = a
            PROVE  Holds(v, a)
        <5>1. CASE v # u
          <6>1. seatOf[v] = a
            BY <4>2, <5>1
          <6> QED BY <6>1 DEF Holds
        <5>2. CASE v = u
          <6>1. s = a
            BY <4>2, <5>2 DEF Types
          <6>2. m = R
            BY <4>2, <6>1 DEF R
          <6> QED BY <2>2, <2>3, <5>2, <6>2 DEF Holds, R
        <5> QED BY <5>1, <5>2
      <4> QED BY <2>1, <4>1, <4>2
    <3>3. \A r \in Links : r[1] = v /\ At(outbox'[r], {R}) # {} => Holds(v, a)
      BY <3>1 DEF Holds, R
    <3> QED BY <3>2, <3>3, HoldsKept DEF R
  <2> QED BY <1>2, <2>0, <2>4
<1>5. CASE CapsuleExits(u)
  <2>1. HangsUp(u) /\ seatOf' = seatOf
    BY <1>5 DEF CapsuleExits
  <2>2. PICK l \in Links :
             /\ l[1] = u /\ \A r \in Links : r # l => inbox'[r] = inbox[r] /\ outbox'[r] = outbox[r]
             /\ outbox'[l] = <<>>
    BY <1>0, <2>1, HangsUpShape
  <2>3. At(outbox'[l], {R}) = {}
    BY <2>2, AtNone
  <2>4. \A v \in Capsules : Holds(v, a)' => Holds(v, a)
    BY <2>1, <2>2, <2>3, AnswersKept DEF R
  <2> QED BY <1>0, <1>2, <2>2, <2>4
<1>6. CASE CapsuleGivesUp(u)
  <2>1. inbox' = inbox /\ outbox' = outbox /\ seatOf' = seatOf
    BY <1>6 DEF CapsuleGivesUp, netVars
  <2>2. \A v \in Capsules : Holds(v, a)' => Holds(v, a)
    BY <2>1, AnswersKept
  <2> QED BY <1>2, <2>1, <2>2
<1> QED BY <1>3, <1>4, <1>5, <1>6

\* What an agent does: after a session its host is still known to be its user's.
LEMMA SeatingAgent ==
    ASSUME Types, Mail, Asking, Seating, NEW a \in Agents, NEW b \in Agents,
           AgentStep(b) \/ SessionEnds(b)
    PROVE  SeatingOf(a)'
<1>0. SeatingOf(a) /\ b \in Parties /\ b \notin Capsules /\ a # NoSeat
      /\ <<>> \in Seq(AgentMail \union CapsuleMail)
  BY PartyShape DEF Seating
<1>1. UNCHANGED <<clients, m_USM, csv>>
  BY DEF AgentStep, ConnectHostController, TellSeatNum, SaveUserID, HandleDeviceStatus, SessionEnds,
         Connects, Gets, ctlVars
<1>2. \A v : /\ GivenTo(a, v)' <=> GivenTo(a, v)
             /\ WrittenTo(a, v)' <=> WrittenTo(a, v)
  BY <1>1 DEF GivenTo, WrittenTo, Reported
<1>3. \A l \in Links : inbox[l] \in Seq(AgentMail \union CapsuleMail)
  BY DEF Types
<1>4. ASSUME seatOf' = seatOf, \A l \in Links : l[1] # b => outbox'[l] = outbox[l],
             Ended(a)' => Ended(a),
             \A l \in Links : l[1] = a => One(Reports(l)') /\ (Reports(l)' # {} => flag'[a] # 1)
      PROVE  SeatingOf(a)'
  <2>1. \A v \in Capsules : Holds(v, a)' => Holds(v, a)
    BY <1>0, <1>4, AnswersKept
  <2> QED BY <1>0, <1>2, <1>4, <2>1, SeatKept
<1>5. ASSUME seatOf' = seatOf, \A l \in Links : l[1] # b => outbox'[l] = outbox[l],
             flag'[a] \in {flag[a], 0},
             \A l \in Links : l[1] = a => One(Reports(l)') /\ (Reports(l)' # {} => Reports(l) # {})
      PROVE  SeatingOf(a)'
  BY <1>0, <1>4, <1>5, EndedKept
<1>6. CASE ConnectHostController(b)
  <2>1. Connects(b, <<>>) /\ outbox' = outbox /\ seatOf' = seatOf /\ flag' = flag
    BY <1>6 DEF ConnectHostController, Connects, agentVars, capsuleVars
  <2>2. PICK l \in Links : /\ inbox'[l] = <<"link_connected">> \o <<>>
                           /\ \A r \in Links : r # l => inbox'[r] = inbox[r]
    BY <1>0, <2>1, ConnectsShape
  <2>3. Reports(l)' = {}
    BY <2>2, AtNew DEF Reports
  <2>4. \A r \in Links : r # l => Reports(r)' = Reports(r)
    BY <2>2 DEF Reports
  <2>5. \A r \in Links : r[1] = a => One(Reports(r)') /\ (Reports(r)' # {} => Reports(r) # {})
    BY <1>0, <2>3, <2>4 DEF SeatingOf, One
  <2> QED BY <1>5, <2>1, <2>5
<1>7. CASE TellSeatNum(b)
  <2>1. /\ Gets(b, Reply("link_connected", NoSeat)) /\ seatOf' = seatOf
        /\ inbox' = [inbox EXCEPT ![LinkOf(b)] = Append(inbox[LinkOf(b)], "c2s_tell_seat_num")]
        /\ flag' = [flag EXCEPT ![b] = 0]
    BY <1>7 DEF TellSeatNum, capsuleVars
  <2>2. PICK l \in Links : l = LinkOf(b) /\ l[1] = b /\ \A r \in Links : r # l => outbox'[r] = outbox[r]
    BY <1>0, <2>1, GetsShape
  <2>3. inbox'[l] = Append(inbox[l], "c2s_tell_seat_num") /\ \A r \in Links : r # l => inbox'[r] = inbox[r]
    BY <2>1, <2>2 DEF Types
  <2>4. Reports(l)' = Reports(l)
    BY <1>3, <2>3, AtAppend DEF Reports, AgentMail
  <2>5. \A r \in Links : Reports(r)' = Reports(r)
    BY <2>3, <2>4 DEF Reports
  <2>6. flag'[a] \in {flag[a], 0}
    BY <2>1 DEF Types
  <2>7. \A r \in Links : r[1] = a => One(Reports(r)') /\ (Reports(r)' # {} => Reports(r) # {})
    BY <1>0, <2>5 DEF SeatingOf
  <2> QED BY <1>5, <2>1, <2>2, <2>6, <2>7
<1>8. CASE SaveUserID(b)
  <2>1. PICK u : /\ Gets(b, Reply("s2c_tell_user_id", u)) /\ seatOf' = seatOf /\ inbox' = inbox
                 /\ flag' = [flag EXCEPT ![b] = 0]
    BY <1>8 DEF SaveUserID, capsuleVars
  <2>2. PICK l \in Links : l = LinkOf(b) /\ l[1] = b /\ \A r \in Links : r # l => outbox'[r] = outbox[r]
    BY <1>0, <2>1, GetsShape
  <2>3. \A r \in Links : Reports(r)' = Reports(r)
    BY <2>1 DEF Reports
  <2>4. flag'[a] \in {flag[a], 0}
    BY <2>1 DEF Types
  <2>5. \A r \in Links : r[1] = a => One(Reports(r)') /\ (Reports(r)' # {} => Reports(r) # {})
    BY <1>0, <2>3 DEF SeatingOf
  <2> QED BY <1>5, <2>1, <2>2, <2>4, <2>5
<1>9. CASE HandleDeviceStatus(b)
  <2>1. /\ b \in up /\ flag[b] = 1 /\ outbox' = outbox /\ seatOf' = seatOf
        /\ inbox' = [inbox EXCEPT ![LinkOf(b)] = Append(inbox[LinkOf(b)], "c2s_device_status_changed")]
        /\ flag' = [flag EXCEPT ![b] = 2]
    BY <1>9 DEF HandleDeviceStatus, capsuleVars
  <2>2. PICK l \in Links : l = LinkOf(b) /\ l[1] = b
    BY <2>1, LinkShape
  <2>3. inbox'[l] = Append(inbox[l], "c2s_device_status_changed")
        /\ \A r \in Links : r # l => inbox'[r] = inbox[r]
    BY <2>1, <2>2 DEF Types
  <2>4. \A r \in Links : r # l => Reports(r)' = Reports(r)
    BY <2>3 DEF Reports
  <2>5. CASE a # b
    <3>1. flag'[a] = flag[a]
      BY <2>1, <2>5 DEF Types
    <3>2. \A r \in Links : r[1] = a => One(Reports(r)') /\ (Reports(r)' # {} => Reports(r) # {})
      BY <1>0, <2>2, <2>4, <2>5 DEF SeatingOf
    <3> QED BY <1>5, <2>1, <3>1, <3>2
  <2>6. CASE a = b
    <3>1. \A r \in Links : r[1] = a => Reports(r) = {}
      BY <1>0, <2>1, <2>6 DEF SeatingOf
    <3>2. One(Reports(l)')
      <4>1. "c2s_device_status_changed" \in AgentMail \union CapsuleMail
        BY DEF AgentMail
      <4>2. At(inbox[l], {"c2s_device_status_changed"}) = {} /\ inbox[l] \in Seq(AgentMail \union CapsuleMail)
        BY <1>3, <2>2, <2>6, <3>1 DEF Reports
      <4>3. One(At(Append(inbox[l], "c2s_device_status_changed"), {"c2s_device_status_changed"}))
        BY <4>1, <4>2, AtAppend
      <4> QED BY <2>3, <4>3 DEF Reports
    <3>3. \A r \in Links : r[1] = a => One(Reports(r)')
      BY <2>4, <3>1, <3>2 DEF One
    <3>4. flag'[a] = 2 /\ Ended(a)
      BY <2>1, <2>6 DEF Types, Ended
    <3> QED BY <1>4, <2>1, <3>3, <3>4
  <2> QED BY <2>5, <2>6
<1>10. CASE SessionEnds(b)
  <2>1. /\ agentUser[b] \in Capsules /\ seatOf[agentUser[b]] = b /\ flag' = [flag EXCEPT ![b] = 1]
        /\ seatOf' = [seatOf EXCEPT ![agentUser[b]] = NoSeat]
        /\ inbox' = inbox /\ outbox' = outbox
    BY <1>10 DEF SessionEnds, netVars, Types, Users
  <2>2. PICK u \in Capsules : u = agentUser[b]
    BY <2>1
  <2>3. \A r \in Links : Reports(r)' = Reports(r)
    BY <2>1 DEF Reports
  <2>4. \A v \in Capsules : seatOf'[v] = a => seatOf[v] = a
    BY <1>0, <2>1 DEF Types
  <2>5. \A v \in Capsules : Holds(v, a)' => Holds(v, a)
    BY <2>1, <2>4, AnswersKept
  <2>6. CASE a # b
    <3>1. flag'[a] = flag[a]
      BY <2>1, <2>6 DEF Types
    <3>2. \A r \in Links : r[1] = a => One(Reports(r)') /\ (Reports(r)' # {} => Reports(r) # {})
      BY <1>0, <2>3 DEF SeatingOf
    <3> QED BY <1>0, <1>2, <2>5, <3>1, <3>2, EndedKept, SeatKept
  <2>7. CASE a = b
    <3>1. Holds(u, a)
      BY <2>1, <2>2, <2>7 DEF Holds
    <3>2. GivenTo(a, u) /\ WrittenTo(a, u) /\ ~ Ended(a)
      BY <1>0, <3>1 DEF SeatingOf
    <3>3. \A r \in Links : r[1] = a => Reports(r) = {}
      BY <3>2 DEF Ended
    <3>4. ASSUME NEW v \in Capsules PROVE ~ Holds(v, a)'
      <4>1. CASE v # u
        <5>1. ~ Holds(v, a)
          BY <1>0, <3>2, <4>1, GivenToOne DEF SeatingOf
        <5> QED BY <2>5, <5>1
      <4>2. CASE v = u
        <5>1. seatOf'[u] = NoSeat
          BY <2>1, <2>2 DEF Types
        <5>2. u \notin asking
          BY <1>0, <2>1, <2>2, <2>7 DEF Asking
        <5>3. ASSUME NEW l \in Links, l[1] = u PROVE At(outbox[l], {Reply("s2c_rsp_seat_num", a)}) = {}
          <6>1. Answers(l) = {}
            BY <5>2, <5>3 DEF Asking
          <6>2. Reply("s2c_rsp_seat_num", a) \in {m \in Replies : m.cmd = "s2c_rsp_seat_num"}
            BY PartyShape DEF Reply, Seats
          <6> QED BY <6>1, <6>2 DEF Answers, At
        <5>4. seatOf'[u] # a
          BY <1>0, <5>1
        <5> QED BY <2>1, <4>2, <5>3, <5>4 DEF Holds, Reply, At
      <4> QED BY <4>1, <4>2
    <3>5. GivenTo(a, u)' /\ WrittenTo(a, u)'
      BY <1>2, <3>2
    <3>6. \A r \in Links : r[1] = a => One(Reports(r)') /\ Reports(r)' = {}
      BY <2>3, <3>3 DEF One
    <3> QED BY <3>4, <3>5, <3>6 DEF SeatingOf
  <2> QED BY <2>6, <2>7
<1> QED BY <1>6, <1>7, <1>8, <1>9, <1>10 DEF AgentStep

LEMMA KeptStep == ASSUME Inv, Next PROVE Kept'
<1> SUFFICES ASSUME lost' = {} PROVE Steady' /\ Seating'
  BY DEF Kept
<1>1. lost \subseteq lost'
  BY DEF Next, Run, HandleNetEvent, HandleConnected, HandleDisconnected, HandleSeatNum, HandleUserID,
         RefuseUserID, HandleRecycle, Takes, Restart, AgentStep, ConnectHostController, TellSeatNum,
         SaveUserID, HandleDeviceStatus, LoseConnection, SessionEnds, RequestSeatNumber,
         GetSeatNumResponseMsg, CapsuleExits, CapsuleGivesUp, Connects, Gets
<1>2. Types /\ Mail /\ Listed /\ Asking /\ Steady /\ Seating
  BY <1>1 DEF Inv, Kept
<1>3. Steady'
  BY <1>2, SteadyStep
<1>4. ASSUME NEW a \in Agents PROVE SeatingOf(a)'
  <2>1. \A b \in Agents : ~ LoseConnection(b)
    BY DEF LoseConnection
  <2> QED BY <1>2, <1>4, <2>1, SeatingRun, SeatingRestart, SeatingAgent, SeatingCapsule DEF Next, Run
<1> QED BY <1>3, <1>4 DEF Seating

\* The last user id on its way to an agent.
LEMMA LastUserIs ==
    ASSUME NEW q \in Seq(Replies), NEW u
    PROVE  \/ LastUser(q, u) = u /\ \A k \in DOMAIN q : q[k].cmd # "s2c_tell_user_id"
           \/ \E k \in DOMAIN q :
                /\ LastUser(q, u) = q[k].arg /\ q[k].cmd = "s2c_tell_user_id"
                /\ \A j \in DOMAIN q : q[j].cmd = "s2c_tell_user_id" => j <= k
<1> DEFINE I == {k \in 1..Len(q) : q[k].cmd = "s2c_tell_user_id"}
           k == IF I # {} THEN Max(I) ELSE 0
<1>1. LastUser(q, u) = IF k = 0 THEN u ELSE q[k].arg
  BY DEF LastUser, SelectLastInSeq
<1>2. Len(q) \in Nat /\ DOMAIN q = 1..Len(q) /\ I \subseteq 1..Len(q)
  OBVIOUS
<1>3. CASE I = {}
  BY <1>1, <1>2, <1>3
<1>4. CASE I # {}
  <2>1. Max(I) \in I /\ \A i \in I : i <= Max(I)
    BY <1>2, <1>4, MaxOfIndices
  <2>2. Max(I) \in DOMAIN q /\ q[Max(I)].cmd = "s2c_tell_user_id" /\ k = Max(I) /\ k # 0
    BY <1>2, <1>4, <2>1
  <2>3. \A j \in DOMAIN q : q[j].cmd = "s2c_tell_user_id" => j <= Max(I)
    BY <1>2, <2>1
  <2> QED BY <1>1, <2>2, <2>3
<1> QED BY <1>3, <1>4

LEMMA LastUserAppend ==
    ASSUME NEW q \in Seq(Replies), NEW m \in Replies, NEW u
    PROVE  LastUser(Append(q, m), u) = IF m.cmd = "s2c_tell_user_id" THEN m.arg ELSE LastUser(q, u)
<1> DEFINE n == Len(q)
<1>1. PICK r \in Seq(Replies) : /\ r = Append(q, m) /\ n \in Nat
                                /\ DOMAIN q = 1..n /\ DOMAIN r = 1..(n + 1)
                                /\ (\A k \in DOMAIN q : r[k] = q[k]) /\ r[n + 1] = m
  BY AppendShape, ZenonT(30)
<1> HIDE DEF n
<1>2. \/ LastUser(q, u) = u /\ \A k \in DOMAIN q : q[k].cmd # "s2c_tell_user_id"
      \/ \E k \in DOMAIN q :
           /\ LastUser(q, u) = q[k].arg /\ q[k].cmd = "s2c_tell_user_id"
           /\ \A j \in DOMAIN q : q[j].cmd = "s2c_tell_user_id" => j <= k
  BY LastUserIs
<1>3. \/ LastUser(r, u) = u /\ \A k \in DOMAIN r : r[k].cmd # "s2c_tell_user_id"
      \/ \E k \in DOMAIN r :
           /\ LastUser(r, u) = r[k].arg /\ r[k].cmd = "s2c_tell_user_id"
           /\ \A j \in DOMAIN r : r[j].cmd = "s2c_tell_user_id" => j <= k
  BY LastUserIs
<1>4. CASE m.cmd = "s2c_tell_user_id"
  <2>1. n + 1 \in DOMAIN r /\ r[n + 1].cmd = "s2c_tell_user_id"
    BY <1>1, <1>4
  <2>2. PICK k \in DOMAIN r : /\ LastUser(r, u) = r[k].arg
                              /\ \A j \in DOMAIN r : r[j].cmd = "s2c_tell_user_id" => j <= k
    BY <1>3, <2>1
  <2>3. k = n + 1
    BY <1>1, <2>1, <2>2
  <2> QED BY <1>1, <1>4, <2>2, <2>3
<1>5. CASE m.cmd # "s2c_tell_user_id"
  <2>1. \A k \in DOMAIN r : r[k].cmd = "s2c_tell_user_id" => k \in DOMAIN q /\ r[k] = q[k]
    BY <1>1, <1>5
  <2>2. \A k \in DOMAIN q : k \in DOMAIN r /\ r[k] = q[k]
    BY <1>1
  <2>3. CASE \A k \in DOMAIN q : q[k].cmd # "s2c_tell_user_id"
    BY <1>1, <1>2, <1>3, <1>5, <2>1, <2>3
  <2>4. ASSUME NEW i \in DOMAIN q, LastUser(q, u) = q[i].arg, q[i].cmd = "s2c_tell_user_id",
               \A j \in DOMAIN q : q[j].cmd = "s2c_tell_user_id" => j <= i
        PROVE  LastUser(r, u) = LastUser(q, u)
    <3>1. PICK k \in DOMAIN r : /\ LastUser(r, u) = r[k].arg /\ r[k].cmd = "s2c_tell_user_id"
                                /\ \A j \in DOMAIN r : r[j].cmd = "s2c_tell_user_id" => j <= k
      BY <1>3, <2>2, <2>4
    <3>2. k \in DOMAIN q /\ r[k] = q[k] /\ i \in DOMAIN r /\ r[i].cmd = "s2c_tell_user_id"
      BY <2>1, <2>2, <2>4, <3>1
    <3>3. i <= k /\ k <= i
      BY <2>4, <3>1, <3>2
    <3>4. i = k
      BY <1>1, <3>2, <3>3
    <3> QED BY <2>4, <3>1, <3>2, <3>4
  <2> QED BY <1>1, <1>2, <1>5, <2>3, <2>4
<1> QED BY <1>4, <1>5

\* A message is taken that is not a user id behind another.
LEMMA LastUserTaken ==
    ASSUME NEW q \in Seq(Replies), NEW g \in DOMAIN q, ~ Overtakes(q, g), NEW u
    PROVE  LastUser(q, u) =
              LastUser(RemoveAt(q, g), IF q[g].cmd = "s2c_tell_user_id" THEN q[g].arg ELSE u)
<1>1. PICK r \in Seq(Replies), n \in Nat :
         /\ r = RemoveAt(q, g) /\ DOMAIN q = 1..n /\ g \in 1..n /\ DOMAIN r = 1..(n - 1)
         /\ \A i \in 1..(g - 1) : r[i] = q[i]
         /\ \A i \in g..(n - 1) : r[i] = q[i + 1]
  <2>1. /\ RemoveAt(q, g) \in Seq(Replies)
        /\ Len(q) \in Nat /\ DOMAIN q = 1..Len(q) /\ g \in 1..Len(q)
        /\ DOMAIN RemoveAt(q, g) = 1..(Len(q) - 1)
        /\ \A i \in 1..(g - 1) : RemoveAt(q, g)[i] = q[i]
        /\ \A i \in g..(Len(q) - 1) : RemoveAt(q, g)[i] = q[i + 1]
    BY RemoveShape
  <2> QED BY <2>1
<1>2. PICK v : v = IF q[g].cmd = "s2c_tell_user_id" THEN q[g].arg ELSE u
  OBVIOUS
<1>3. \/ LastUser(q, u) = u /\ \A k \in DOMAIN q : q[k].cmd # "s2c_tell_user_id"
      \/ \E k \in DOMAIN q :
           /\ LastUser(q, u) = q[k].arg /\ q[k].cmd = "s2c_tell_user_id"
           /\ \A j \in DOMAIN q : q[j].cmd = "s2c_tell_user_id" => j <= k
  BY LastUserIs
<1>4. \/ LastUser(r, v) = v /\ \A k \in DOMAIN r : r[k].cmd # "s2c_tell_user_id"
      \/ \E k \in DOMAIN r :
           /\ LastUser(r, v) = r[k].arg /\ r[k].cmd = "s2c_tell_user_id"
           /\ \A j \in DOMAIN r : r[j].cmd = "s2c_tell_user_id" => j <= k
  BY LastUserIs
<1>5. g \in Nat /\ (\A k \in DOMAIN q : k \in Nat) /\ \A k \in DOMAIN r : k \in Nat
  BY <1>1
<1>6. \A k \in DOMAIN r : /\ k < g => k \in DOMAIN q /\ r[k] = q[k]
                          /\ g <= k => k + 1 \in DOMAIN q /\ r[k] = q[k + 1]
  BY <1>1
<1>7. \A k \in DOMAIN q : /\ k < g => k \in DOMAIN r /\ r[k] = q[k]
                          /\ g < k => k - 1 \in DOMAIN r /\ r[k - 1] = q[k]
  <2> SUFFICES ASSUME NEW k \in DOMAIN q
               PROVE  /\ k < g => k \in DOMAIN r /\ r[k] = q[k]
                      /\ g < k => k - 1 \in DOMAIN r /\ r[k - 1] = q[k]
    OBVIOUS
  <2>1. ASSUME g < k PROVE k - 1 \in DOMAIN r /\ r[k - 1] = q[k]
    <3>1. k - 1 \in g..(n - 1) /\ (k - 1) + 1 = k /\ k - 1 \in 1..(n - 1)
      BY <1>1, <2>1
    <3> QED BY <1>1, <3>1
  <2> QED BY <1>1, <2>1
<1>8. q[g].cmd = "s2c_tell_user_id" => \A j \in DOMAIN q : j < g => q[j].cmd # "s2c_tell_user_id"
  <2>1. \A j \in DOMAIN q : j < g => j \in 1..(g - 1)
    BY <1>1
  <2> QED BY <2>1 DEF Overtakes
<1>9. CASE \A k \in DOMAIN r : r[k].cmd # "s2c_tell_user_id"
  <2>1. LastUser(r, v) = v
    BY <1>4, <1>9
  <2>2. \A k \in DOMAIN q : q[k].cmd = "s2c_tell_user_id" => k = g
    BY <1>5, <1>7, <1>9
  <2>3. LastUser(q, u) = v
    BY <1>2, <1>3, <2>2
  <2> QED BY <1>1, <1>2, <2>1, <2>3
<1>10. ASSUME NEW i \in DOMAIN r, LastUser(r, v) = r[i].arg, r[i].cmd = "s2c_tell_user_id",
              \A j \in DOMAIN r : r[j].cmd = "s2c_tell_user_id" => j <= i
       PROVE  LastUser(q, u) = LastUser(r, v)
  \* The place of the same message in q.
  <2>1. PICK p \in DOMAIN q : /\ q[p] = r[i] /\ (i < g => p = i) /\ (g <= i => p = i + 1)
    BY <1>5, <1>6, <1>10
  <2>2. PICK k \in DOMAIN q : /\ LastUser(q, u) = q[k].arg /\ q[k].cmd = "s2c_tell_user_id"
                              /\ \A j \in DOMAIN q : q[j].cmd = "s2c_tell_user_id" => j <= k
    BY <1>3, <1>10, <2>1
  <2>3. p <= k /\ k \in Nat /\ p \in Nat /\ i \in Nat /\ g \in Nat
    BY <1>5, <1>10, <2>1, <2>2
  <2>4. k # g
    <3>1. ASSUME k = g PROVE FALSE
      <4>1. ~ p < g
        BY <1>8, <1>10, <2>1, <2>2, <3>1
      <4>2. p # g
        BY <2>1, <2>3
      <4> QED BY <2>3, <3>1, <4>1, <4>2
    <3> QED BY <3>1
  <2>5. k = p
    <3>1. CASE k < g
      <4>1. k <= i
        BY <1>7, <1>10, <2>2, <3>1
      <4> QED BY <2>1, <2>3, <3>1, <4>1
    <3>2. CASE g < k
      <4>1. k - 1 <= i
        BY <1>7, <1>10, <2>2, <3>2
      <4> QED BY <2>1, <2>3, <3>2, <4>1
    <3> QED BY <2>3, <2>4, <3>1, <3>2
  <2> QED BY <1>10, <2>1, <2>2, <2>5
<1> QED BY <1>1, <1>2, <1>4, <1>9, <1>10

LEMMA KnowingStep == ASSUME Types, Mail, Listed, Knowing, Next PROVE Knowing'
<1> DEFINE Will(l) == LastUser(outbox[l], agentUser[l[1]])
           Knows(l, c) == c.link = l /\ c.bound => c.user = Will(l)
           SameClients == \A j \in DOMAIN clients' : clients'[j].bound =>
                             \E k \in DOMAIN clients : /\ clients[k].link = clients'[j].link
                                                       /\ clients[k].bound /\ clients[k].user = clients'[j].user
           Links2 == \A l \in Links : l[1] \in Agents /\ IsOpen(l)' /\ IsListed(l) /\ l \notin overtaken' =>
                             IsOpen(l) /\ Will(l)' = Will(l)
           AllKnow == \A l : l[1] \in Agents /\ IsOpen(l) /\ l \notin overtaken =>
                             \A k \in DOMAIN clients : Knows(l, clients[k])
<1>1. SUFFICES ASSUME restarts' = 0
               PROVE  AllKnow' /\ \A a \in Agents : m_USM'[a] = NoUser
  BY DEF Knowing, AgentKnowsItsUser
<1>2. restarts = 0 /\ ~ Restart
  <2>1. restarts \in Nat
    BY DEF Types
  <2>2. ~ Restart
    BY <1>1, <2>1 DEF Restart
  <2>3. Restart \/ restarts' = restarts
    BY DEF Next, Run, HandleNetEvent, HandleConnected, HandleDisconnected, HandleSeatNum, HandleUserID,
           RefuseUserID, HandleRecycle, Takes, AgentStep, ConnectHostController, TellSeatNum,
           SaveUserID, HandleDeviceStatus, LoseConnection, SessionEnds, RequestSeatNumber,
           GetSeatNumResponseMsg, CapsuleExits, CapsuleGivesUp, Connects, HangsUp, Gets
  <2> QED BY <1>1, <2>2, <2>3
<1>0. overtaken \subseteq overtaken'
  BY DEF Next, Run, Restart, HandleNetEvent, HandleConnected, HandleDisconnected, HandleSeatNum,
         HandleUserID, RefuseUserID, HandleRecycle, Takes, AgentStep, ConnectHostController,
         TellSeatNum, SaveUserID, HandleDeviceStatus, LoseConnection, SessionEnds, RequestSeatNumber,
         GetSeatNumResponseMsg, CapsuleExits, CapsuleGivesUp, Connects, HangsUp, Gets
<1>3. AllKnow /\ \A a \in Agents : m_USM[a] = NoUser
  BY <1>2 DEF Knowing, AgentKnowsItsUser
<1>4. ASSUME SameClients, Links2, \A k \in DOMAIN clients : clients[k].link \in Links
      PROVE  AllKnow'
  <2> SUFFICES ASSUME NEW l, l[1] \in Agents, IsOpen(l)', l \notin overtaken',
                      NEW j \in DOMAIN clients', clients'[j].link = l, clients'[j].bound
               PROVE  clients'[j].user = Will(l)'
    OBVIOUS
  <2>1. PICK k \in DOMAIN clients : /\ clients[k].link = l
                                    /\ clients[k].bound /\ clients[k].user = clients'[j].user
    BY <1>4
  <2>2. l \in Links /\ IsListed(l)
    BY <1>4, <2>1 DEF IsListed
  <2>3. IsOpen(l) /\ Will(l)' = Will(l)
    BY <1>4, <2>2
  <2>4. clients[k].user = Will(l)
    BY <1>0, <1>3, <2>1, <2>3
  <2> QED BY <2>1, <2>3, <2>4
<1>5. \A k \in DOMAIN clients : clients[k] \in Client /\ clients[k].link \in Links
  <2>1. \A k \in DOMAIN clients : clients[k] \in Client
    BY DEF Types
  <2> QED BY <2>1 DEF Client
<1>6. ASSUME clients' = clients PROVE SameClients
  BY <1>6
<1>7. ASSUME NEW l \in Links, NEW m \in Replies, m.cmd # "s2c_tell_user_id", agentUser' = agentUser,
             outbox'[l] = IF IsOpen(l) THEN Append(outbox[l], m) ELSE outbox[l]
      PROVE  Will(l)' = Will(l)
  <2>1. outbox[l] \in Seq(Replies)
    BY DEF Types
  <2>2. LastUser(Append(outbox[l], m), agentUser[l[1]]) = LastUser(outbox[l], agentUser[l[1]])
    BY <1>7, <2>1, LastUserAppend
  <2> QED BY <1>7, <2>2
<1>8. ASSUME NEW l \in Links, NEW m, Takes(l, m)
      PROVE  agentUser' = agentUser /\ \A r \in Links : IsOpen(r)' <=> IsOpen(r)
  <2>1. UNCHANGED <<conns, up>> /\ agentUser' = agentUser
    BY <1>8 DEF Takes, agentVars
  <2> QED BY <2>1, StillOpen
<1>9. ASSUME NEW l \in Links, outbox'[l] = outbox[l], agentUser' = agentUser PROVE Will(l)' = Will(l)
  BY <1>9
<1> HIDE DEF Will, SameClients, Links2, AllKnow
<1>10. ASSUME NEW l \in Links, HandleNetEvent(l)
       PROVE  AllKnow' /\ m_USM' = m_USM
  <2>1. ASSUME NEW m, Takes(l, m), outbox' = outbox PROVE Links2
    BY <1>8, <1>9, <2>1 DEF Links2
  <2>2. ASSUME NEW m, Takes(l, m), NEW r \in Replies, r.cmd # "s2c_tell_user_id", outbox' = Sent(outbox, l, r)
        PROVE  Links2
    <3>1. /\ \A q \in Links : q # l => outbox'[q] = outbox[q]
          /\ outbox'[l] = IF IsOpen(l) THEN Append(outbox[l], r) ELSE outbox[l]
      BY <2>2, AnswerShape
    <3>2. Will(l)' = Will(l)
      BY <1>7, <1>8, <2>2, <3>1
    <3> QED BY <1>8, <1>9, <2>2, <3>1, <3>2 DEF Links2
  <2>3. ASSUME Changed(clients'),
               \A k \in DOMAIN clients : /\ clients'[k].bound => clients[k].bound
                                         /\ clients'[k].bound => clients'[k].user = clients[k].user
        PROVE  SameClients
    BY <2>3 DEF SameClients, Changed
  <2>4. CASE HandleConnected(l)
    <3>1. /\ Takes(l, "link_connected") /\ outbox' = Sent(outbox, l, Reply("link_connected", NoSeat))
          /\ clients' = Append(clients, NewClient(l)) /\ m_USM' = m_USM
      BY <2>4 DEF HandleConnected
    <3>2. Reply("link_connected", NoSeat).cmd # "s2c_tell_user_id" /\ Reply("link_connected", NoSeat) \in Replies
      BY PartyShape DEF Reply
    <3>3. /\ Len(clients) \in Nat /\ DOMAIN clients = 1..Len(clients)
          /\ DOMAIN clients' = 1..(Len(clients) + 1)
          /\ \A k \in DOMAIN clients : clients'[k] = clients[k]
          /\ clients'[Len(clients) + 1] = NewClient(l)
      BY <3>1, AppendShape, PartyShape DEF Types
    <3>4. SameClients
      <4>1. DOMAIN clients' = DOMAIN clients \union {Len(clients) + 1}
        BY <3>3
      <4>2. ~ clients'[Len(clients) + 1].bound
        BY <3>3 DEF NewClient
      <4> QED BY <3>3, <4>1, <4>2 DEF SameClients
    <3> QED BY <1>4, <1>5, <2>2, <3>1, <3>2, <3>4
  <2>5. CASE HandleDisconnected(l)
    <3>1. /\ Takes(l, "link_disconnected") /\ outbox' = outbox /\ m_USM' = m_USM
          /\ clients' = DeleteRemoteClient(clients, l)
      BY <2>5 DEF HandleDisconnected
    <3>2. \A j \in DOMAIN clients' : \E k \in DOMAIN clients : clients'[j] = clients[k]
      BY <3>1, DeleteShape
    <3>3. SameClients
      BY <3>2 DEF SameClients
    <3> QED BY <1>4, <1>5, <2>1, <3>1, <3>3
  <2>6. CASE HandleSeatNum(l)
    <3>1. /\ Takes(l, "c2s_tell_seat_num") /\ outbox' = outbox /\ m_USM' = m_USM
          /\ clients' = AssignSeatNumToVRHost(clients, l, l[1])
      BY <2>6 DEF HandleSeatNum
    <3>2. l[1] \in Agents /\ m_USM[l[1]] = NoUser
      BY <1>3, <3>1, FromCapsule
    <3>3. /\ Changed(clients')
          /\ \/ clients' = clients
             \/ \E k \in DOMAIN clients :
                 /\ clients[k].link = l
                 /\ \A j \in DOMAIN clients : j # k => clients'[j] = clients[j]
                 /\ clients'[k].seat = l[1]
                 /\ m_USM[l[1]] = NoUser => clients'[k].bound = clients[k].bound /\ clients'[k].user = clients[k].user
                 /\ m_USM[l[1]] # NoUser => clients'[k].bound /\ clients'[k].user = m_USM[l[1]]
      BY <3>1, <3>2, SeatShape
    <3>4. \A k \in DOMAIN clients : clients'[k].bound = clients[k].bound /\ clients'[k].user = clients[k].user
      BY <3>2, <3>3
    <3> QED BY <1>4, <1>5, <2>1, <2>3, <3>1, <3>3, <3>4
  <2>7. CASE RefuseUserID(l)
    <3>1. /\ Takes(l, "c2s_tell_user_id") /\ outbox' = Sent(outbox, l, Reply("s2c_rsp_seat_num", NoSeat))
          /\ clients' = Known(l) /\ m_USM' = m_USM
      BY <2>7 DEF RefuseUserID
    <3>2. /\ Reply("s2c_rsp_seat_num", NoSeat).cmd # "s2c_tell_user_id"
          /\ Reply("s2c_rsp_seat_num", NoSeat) \in Replies
      BY PartyShape DEF Reply, Seats
    <3>3. SameClients
      BY <2>3, <3>1, KnownShape
    <3> QED BY <1>4, <1>5, <2>2, <3>1, <3>2, <3>3
  <2>8. CASE HandleRecycle(l)
    <3>1. /\ Takes(l, "c2s_device_status_changed") /\ outbox' = outbox /\ m_USM' = m_USM
          /\ clients' = ReclaimVRHost(clients, l, l[1])
      BY <2>8 DEF HandleRecycle
    <3>2. SameClients
      BY <2>3, <3>1, ReclaimShape
    <3> QED BY <1>4, <1>5, <2>1, <3>1, <3>2
  <2>9. CASE HandleUserID(l)
    <3>1. Takes(l, "c2s_tell_user_id") /\ l[1] \in Capsules /\ m_USM' = m_USM /\ Changed(clients')
      BY <2>9, UserIDShape
    <3>2. PICK k \in DOMAIN clients, h \in Links : Allocates(l, k, h)
      BY <2>9, UserIDShape
    <3>3. /\ h = clients[k].link /\ h # l /\ clients'[k].user = l[1]
          /\ \A j \in DOMAIN clients :
                j # k => clients'[j].bound = clients[j].bound /\ clients'[j].user = clients[j].user
          /\ \A r \in Links : r # l /\ r # h => outbox'[r] = outbox[r]
          /\ outbox'[h] = IF IsOpen(h) THEN Append(outbox[h], Reply("s2c_tell_user_id", l[1])) ELSE outbox[h]
      BY <3>2 DEF Allocates
    <3>4. IsOpen(h) => Will(h)' = l[1]
      <4>1. outbox[h] \in Seq(Replies) /\ Reply("s2c_tell_user_id", l[1]) \in Replies
        BY <3>1, PartyShape DEF Types, Users
      <4>2. LastUser(Append(outbox[h], Reply("s2c_tell_user_id", l[1])), agentUser[h[1]]) = l[1]
        BY <4>1, LastUserAppend DEF Reply
      <4> QED BY <1>8, <3>1, <3>3, <4>2 DEF Will
    <3>5. DOMAIN clients' = DOMAIN clients /\ \A j \in DOMAIN clients : clients'[j].link = clients[j].link
      BY <3>1 DEF Changed
    <3>6. ASSUME NEW r, r[1] \in Agents, IsOpen(r)', r \notin overtaken',
                 NEW j \in DOMAIN clients, clients'[j].link = r, clients'[j].bound
          PROVE  clients'[j].user = Will(r)'
      <4>0. r \in Links /\ r = clients[j].link
        BY <1>5, <3>5, <3>6
      <4>1. IsOpen(r)
        BY <1>8, <3>1, <3>6, <4>0
      <4>2. CASE j = k
        BY <3>3, <3>4, <4>0, <4>1, <4>2
      <4>3. CASE j # k
        <5>1. r # h
          BY <3>3, <4>0, <4>3 DEF Listed
        <5>2. Will(r)' = Will(r)
          <6>1. r # l
            BY <3>1, <3>6, PartyShape
          <6> QED BY <1>8, <1>9, <3>1, <3>3, <4>0, <5>1, <6>1
        <5>3. clients'[j].bound = clients[j].bound /\ clients'[j].user = clients[j].user
          BY <3>3, <4>3
        <5>4. clients[j].user = Will(r)
          BY <1>0, <1>3, <3>6, <4>0, <4>1, <5>3 DEF AllKnow
        <5> QED BY <5>2, <5>3, <5>4
      <4> QED BY <4>2, <4>3
    <3> QED BY <3>1, <3>5, <3>6 DEF AllKnow
  <2> QED BY <1>10, <2>4, <2>5, <2>6, <2>7, <2>8, <2>9 DEF HandleNetEvent
<1>11. ASSUME NEW p \in Parties, NEW first \in Seq(AgentMail \union CapsuleMail), Connects(p, first),
              agentUser' = agentUser
       PROVE  Links2
  <2>1. PICK l \in Links : /\ l = <<p, conns[p] + 1>>
                           /\ \A r \in Links : r # l => (IsOpen(r)' <=> IsOpen(r))
    BY <1>11, ConnectsShape
  <2>2. outbox' = outbox
    BY <1>11 DEF Connects
  <2>3. ~ IsListed(l)
    <3>1. conns[l[1]] < l[2]
      BY <2>1 DEF Types
    <3> QED BY <3>1 DEF Listed
  <2> QED BY <1>9, <1>11, <2>1, <2>2, <2>3 DEF Links2
<1>12. ASSUME NEW p \in Parties, HangsUp(p), agentUser' = agentUser
       PROVE  Links2
  <2>1. PICK l \in Links : ~ IsOpen(l)' /\ \A r \in Links : r # l => /\ IsOpen(r)' <=> IsOpen(r)
                                                                     /\ outbox'[r] = outbox[r]
    BY <1>12, HangsUpShape
  <2> QED BY <1>9, <1>12, <2>1 DEF Links2
<1>13. ASSUME NEW a \in Agents, NEW m, Gets(a, m),
              \A b \in Agents : b # a => agentUser'[b] = agentUser[b],
              agentUser'[a] = IF m.cmd = "s2c_tell_user_id" THEN m.arg ELSE agentUser[a]
       PROVE  Links2
  <2>1. PICK l \in Links : /\ l = LinkOf(a) /\ l[1] = a /\ IsOpen(l)
                           /\ outbox[l] \in Seq(Replies)
                           /\ \A r \in Links : r # l => outbox'[r] = outbox[r]
    BY <1>13, GetsShape, PartyShape
  <2>2. \A r \in Links : IsOpen(r)' <=> IsOpen(r)
    BY <1>13, StillOpen DEF Gets
  <2>3. l \notin overtaken' => Will(l)' = Will(l)
    <3>1. PICK k \in DOMAIN outbox[l] :
             /\ m = outbox[l][k] /\ outbox'[l] = RemoveAt(outbox[l], k)
             /\ l \notin overtaken' => ~ Overtakes(outbox[l], k)
      BY <1>13, <2>1 DEF Gets, Types
    <3>2. PICK q, u : q \in Seq(Replies) /\ q = outbox[l] /\ u = agentUser[a]
      BY <2>1
    <3>3. ~ Overtakes(q, k) =>
             LastUser(q, u) = LastUser(RemoveAt(q, k), IF q[k].cmd = "s2c_tell_user_id" THEN q[k].arg ELSE u)
      BY <3>1, <3>2, LastUserTaken
    <3> QED BY <1>13, <2>1, <3>1, <3>2, <3>3 DEF Will
  <2>4. ASSUME NEW r \in Links, r # l, r[1] \in Agents, IsOpen(r)' PROVE IsOpen(r) /\ Will(r)' = Will(r)
    <3>1. IsOpen(r) /\ r[1] # a
      BY <2>1, <2>2, <2>4, LinkShape
    <3> QED BY <1>13, <2>1, <2>4, <3>1 DEF Will
  <2> QED BY <2>1, <2>3, <2>4 DEF Links2
<1>14. ASSUME UNCHANGED <<conns, up>>, outbox' = outbox, agentUser' = agentUser PROVE Links2
  BY <1>9, <1>14, StillOpen DEF Links2
<1>15. ASSUME UNCHANGED ctlVars, Links2 PROVE AllKnow' /\ m_USM' = m_USM
  <2>1. clients' = clients /\ m_USM' = m_USM
    BY <1>15 DEF ctlVars
  <2> QED BY <1>4, <1>5, <1>6, <1>15, <2>1
<1>16. ASSUME NEW a \in Agents, AgentStep(a) \/ LoseConnection(a) \/ SessionEnds(a)
       PROVE  UNCHANGED ctlVars /\ Links2
  <2>0. a \in Parties /\ <<>> \in Seq(AgentMail \union CapsuleMail)
    BY <1>16, PartyShape
  <2>1. UNCHANGED ctlVars
    BY <1>16 DEF AgentStep, ConnectHostController, TellSeatNum, SaveUserID, HandleDeviceStatus,
                 LoseConnection, SessionEnds, Connects, HangsUp, Gets
  <2>2. CASE ConnectHostController(a)
    BY <1>11, <2>0, <2>1, <2>2 DEF ConnectHostController, agentVars
  <2>3. CASE TellSeatNum(a)
    <3>1. Gets(a, Reply("link_connected", NoSeat)) /\ agentUser' = agentUser
      BY <2>3 DEF TellSeatNum
    <3>2. Reply("link_connected", NoSeat).cmd # "s2c_tell_user_id"
      BY DEF Reply
    <3> QED BY <1>13, <1>16, <2>1, <3>1, <3>2
  <2>4. CASE SaveUserID(a)
    <3>1. PICK u \in Capsules : Gets(a, Reply("s2c_tell_user_id", u)) /\ agentUser' = [agentUser EXCEPT ![a] = u]
      BY <2>4 DEF SaveUserID
    <3>2. Reply("s2c_tell_user_id", u).cmd = "s2c_tell_user_id" /\ Reply("s2c_tell_user_id", u).arg = u
      BY DEF Reply
    <3>3. agentUser'[a] = u /\ \A b \in Agents : b # a => agentUser'[b] = agentUser[b]
      BY <3>1 DEF Types
    <3> QED BY <1>13, <1>16, <2>1, <3>1, <3>2, <3>3
  <2>5. CASE HandleDeviceStatus(a)
    BY <1>14, <2>1, <2>5 DEF HandleDeviceStatus
  <2>6. CASE LoseConnection(a)
    BY <1>12, <2>0, <2>1, <2>6 DEF LoseConnection, agentVars
  <2>7. CASE SessionEnds(a)
    BY <1>14, <2>1, <2>7 DEF SessionEnds, netVars
  <2> QED BY <1>16, <2>2, <2>3, <2>4, <2>5, <2>6, <2>7 DEF AgentStep
<1>17. ASSUME NEW u \in Capsules,
              \/ RequestSeatNumber(u) \/ GetSeatNumResponseMsg(u)
              \/ CapsuleExits(u) \/ CapsuleGivesUp(u)
       PROVE  UNCHANGED ctlVars /\ Links2
  <2>0. u \in Parties /\ u \notin Agents
    BY <1>17, PartyShape
  <2>1. UNCHANGED ctlVars
    BY <1>17 DEF RequestSeatNumber, GetSeatNumResponseMsg, CapsuleExits, CapsuleGivesUp, Connects, HangsUp, Gets
  <2>2. CASE RequestSeatNumber(u)
    <3>1. <<"c2s_tell_user_id">> \in Seq(AgentMail \union CapsuleMail)
      BY DEF CapsuleMail
    <3> QED BY <1>11, <2>0, <2>1, <2>2, <3>1 DEF RequestSeatNumber, agentVars
  <2>3. CASE GetSeatNumResponseMsg(u)
    <3>1. PICK m : Gets(u, m) /\ agentUser' = agentUser
      BY <2>3 DEF GetSeatNumResponseMsg, agentVars
    <3>2. \A r \in Links : r # LinkOf(u) => outbox'[r] = outbox[r]
      BY <2>0, <3>1, GetsShape
    <3>3. \A r \in Links : (IsOpen(r)' <=> IsOpen(r)) /\ (r[1] \in Agents => r # LinkOf(u))
      BY <2>0, <3>1, StillOpen DEF Gets, LinkOf
    <3> QED BY <1>9, <2>1, <3>1, <3>2, <3>3 DEF Links2
  <2>4. CASE CapsuleExits(u)
    BY <1>12, <2>0, <2>1, <2>4 DEF CapsuleExits, agentVars
  <2>5. CASE CapsuleGivesUp(u)
    BY <1>14, <2>1, <2>5 DEF CapsuleGivesUp, netVars, agentVars
  <2> QED BY <1>17, <2>2, <2>3, <2>4, <2>5
<1>18. AllKnow' /\ m_USM' = m_USM
  BY <1>2, <1>10, <1>15, <1>16, <1>17 DEF Next, Run
<1> QED BY <1>3, <1>18

LEMMA NextInv == Inv /\ [Next]_vars => Inv'
<1> SUFFICES ASSUME Inv, [Next]_vars PROVE Inv'
  OBVIOUS
<1>1. CASE Next
  BY <1>1, TypesStep, MailStep, ListedStep, AskingStep, KeptStep, KnowingStep DEF Inv
<1>2. CASE UNCHANGED vars
  <2>1. Types' /\ Listed'
    BY <1>2 DEF vars, Inv, Types, Listed, IsListed, News
  <2>2. \A l : IsOpen(l)' <=> IsOpen(l)
    BY <1>2, StillOpen DEF vars
  <2>3. Mail' /\ Asking'
    BY <1>2, <2>2 DEF vars, Inv, Mail, MailOf, Asking, Asks, Answers
  <2>4. Steady => Steady'
    BY <1>2, <2>2 DEF vars, Steady, IsListed, Tells, Told
  <2>5. ASSUME NEW a \in Agents PROVE SeatingOf(a) => SeatingOf(a)'
    <3>1. /\ \A u : Holds(u, a)' <=> Holds(u, a)
          /\ \A u : GivenTo(a, u)' <=> GivenTo(a, u)
          /\ \A u : WrittenTo(a, u)' <=> WrittenTo(a, u)
      BY <1>2 DEF vars, Holds, Reply, GivenTo, Reported, WrittenTo
    <3>2. (\A l : Reports(l)' = Reports(l)) /\ flag' = flag
      BY <1>2 DEF vars, Reports
    <3>3. Ended(a)' <=> Ended(a)
      BY <3>2 DEF Ended
    <3> QED BY <3>1, <3>2, <3>3 DEF SeatingOf
  <2>6. Knowing'
    BY <1>2, <2>2 DEF vars, Inv, Knowing, AgentKnowsItsUser
  <2> QED BY <1>2, <2>1, <2>3, <2>4, <2>5, <2>6 DEF vars, Inv, Kept, Seating
<1> QED BY <1>1, <1>2

LEMMA Always == Spec => []Inv
BY InitInv, NextInv, PTL DEF Spec
-----------------------------------------------------------------------------
(* What follows                                                            *)

\* No seat has two users at a time, in whatever order hosts report and capsules
\* ask and whenever the controller is restarted, as long as no agent has lost its
\* connection to a controller that went on running.
THEOREM SeatsOne == Spec => []SeatExclusiveUnlessLost
<1>1. Inv => SeatExclusiveUnlessLost
  <2> SUFFICES ASSUME Inv, lost = {}, NEW u \in Capsules, NEW v \in Capsules, u # v,
                      seatOf[u] # NoSeat, seatOf[u] = seatOf[v]
               PROVE  FALSE
    BY DEF SeatExclusiveUnlessLost, SeatExclusive
  <2>1. PICK a \in Agents : a = seatOf[u]
    BY DEF Inv, Types, Seats
  <2>2. Holds(u, a) /\ Holds(v, a)
    BY <2>1 DEF Holds
  <2>3. GivenTo(a, u) /\ GivenTo(a, v)
    BY <2>2 DEF Inv, Kept, Seating, SeatingOf
  <2> QED BY <2>3, GivenToOne
<1> QED BY <1>1, Always, PTL

\* Under the same condition the controller has, for each seat that is reported to
\* it, the user that has the seat, from its memory or from its file.
THEOREM SeatsRebuilt == Spec => []RebuiltUnlessLost
<1>1. Inv => RebuiltUnlessLost
  <2> SUFFICES ASSUME Inv, lost = {}, NEW u \in Capsules, NEW k \in DOMAIN clients,
                      seatOf[u] # NoSeat, clients[k].seat = seatOf[u]
               PROVE  clients[k].bound /\ clients[k].user = u
    BY DEF RebuiltUnlessLost, RebuiltFromTable
  <2>1. PICK a \in Agents : a = seatOf[u]
    BY DEF Inv, Types, Seats
  <2>2. Holds(u, a)
    BY <2>1 DEF Holds
  <2>3. GivenTo(a, u)
    BY <2>2 DEF Inv, Kept, Seating, SeatingOf
  <2>4. k \in Reported(a)
    BY <2>1 DEF Reported
  <2> QED BY <2>3, <2>4 DEF GivenTo
<1> QED BY <1>1, Always, PTL

\* Until the first restart the agent of a bound host knows its user, or the user
\* id is on its way and no other after it, however often the agent connects and
\* in whatever order messages reach the parties, but for a link on which the
\* agent took a user id before an older one.
THEOREM AgentsKnow == Spec => []AgentKnowsUnlessRestarted
<1>1. Inv => AgentKnowsUnlessRestarted
  BY DEF Inv, Knowing, AgentKnowsUnlessRestarted
<1> QED BY <1>1, Always, PTL

\* A capsule that asks is never given its own entry in the list, also when it was
\* listed as a host until now.
THEOREM NotItself == Spec => NeverItsOwnHost
<1> DEFINE Another == \A l \in Links :
              ~ Bound(l) /\ Bound(l)' /\ inbox[l] # <<>> /\ inbox'[l] = Tail(inbox[l])
                 => Head(inbox[l]) # "c2s_tell_user_id"
<1>1. Inv /\ [Next]_vars => Another
  BY BindsAnother DEF Inv
<1>2. Inv /\ [Next]_vars => [Another]_vars
  BY <1>1
<1> QED BY <1>2, Always, PTL DEF Spec, NeverItsOwnHost
=============================================================================
