--------------------------- MODULE VRHostController ---------------------------
(***************************************************************************)
(* Who sits where.  A capsule asks the VR host controller for a seat; the  *)
(* controller picks a VR host, tells the capsule its seat number and the   *)
(* agent on that host the id of the user.  When the session is over, the   *)
(* agent reports the host as recyclable and the controller takes it back.  *)
(*                                                                         *)
(* src/VRHostController (VRHostController, RemoteClientManager, CSVFile),  *)
(* src/VRClientAgent (ClientAgent, the service loop) and                   *)
(* src/CapsuleClient.  Each handler of the controller runs to its end on   *)
(* one thread, so it is one action.  What a party sends stays in order;    *)
(* what the controller sends it may be overtaken, for the sender threads   *)
(* take messages and send them in two steps: any message on its way to a   *)
(* party may be its next.  A restart is an orderly one, between two        *)
(* handlers and within one day (the table has a file per day).             *)
(***************************************************************************)
EXTENDS Integers, FiniteSets, SequencesExt

CONSTANTS Agents,       \* the VR hosts, each standing for its SeatNmber too
          Capsules,     \* the capsules, each standing for its user too
          NoSeat,       \* seat number -1
          NoUser,       \* an empty user id
          AgentConns,   \* bound: how often an agent connects
          CapsuleConns, \* bound: how often a capsule asks
          Drops,        \* whether an agent's connection may break
          MaxRestarts   \* bound: restarts of the controller

ASSUME PartiesAssumption ==
    /\ Agents \intersect Capsules = {}
    /\ NoSeat \notin Agents
    /\ NoUser \notin Capsules
ASSUME BoundsAssumption ==
    AgentConns \in Nat /\ CapsuleConns \in Nat /\ MaxRestarts \in Nat
ASSUME DropsAssumption == Drops \in BOOLEAN

Parties == Agents \union Capsules
MaxConns(p) == IF p \in Agents THEN AgentConns ELSE CapsuleConns

\* A connection: the party and the number of its connection.  The number
\* stands for the link id, which NetEventServer hands out.
Links == {l \in Parties \X (1..(AgentConns + CapsuleConns)) :
            l[2] <= MaxConns(l[1])}

Users == Capsules \union {NoUser}
Seats == Agents \union {NoSeat}
Replies == [cmd : {"link_connected", "s2c_rsp_seat_num", "s2c_tell_user_id"},
            arg : Seats \union Users]

VARIABLES
    clients,    \* RemoteClientManager: the vector of RemoteClients
    m_USM,      \* seat -> user, as read at the last start
    csv,        \* the lines <<seat, user>> of user_seat_map_<date>.csv
    conns,      \* per party: how many times it has connected
    up,         \* parties whose connection is open
    inbox,      \* per link: what the controller has still to handle
    outbox,     \* per link: what its party has still to handle
    flag,       \* per agent: RecycleFlag of its ini file
    agentUser,  \* per agent: UserID of its ini file
    asking,     \* capsules that wait for a seat number
    seatOf,     \* per capsule: the seat its user has
    restarts,   \* how often the controller was restarted
    lost,       \* history: agents whose connection to a controller that went
                \* on running has broken
    overtaken   \* history: links on which a user id came before an older one

ctlVars == <<clients, m_USM, csv>>
netVars == <<conns, up, inbox, outbox>>
agentVars == <<flag, agentUser>>
capsuleVars == <<asking, seatOf>>
vars == <<clients, m_USM, csv, conns, up, inbox, outbox, flag, agentUser,
          asking, seatOf, restarts, lost, overtaken>>

LinkOf(p) == <<p, conns[p]>>
IsOpen(l) == l[1] \in up /\ l[2] = conns[l[1]]

\* Send on a link: to a link that is closed the server drops the message.
Sent(boxes, l, m) ==
    IF IsOpen(l) THEN [boxes EXCEPT ![l] = Append(@, m)] ELSE boxes

Reply(c, a) == [cmd |-> c, arg |-> a]

Init ==
    /\ clients = <<>>
    /\ m_USM = [s \in Agents |-> NoUser]
    /\ csv = <<>>
    /\ conns = [p \in Parties |-> 0]
    /\ up = {}
    /\ inbox = [l \in Links |-> <<>>]
    /\ outbox = [l \in Links |-> <<>>]
    /\ flag = [a \in Agents |-> 0]
    /\ agentUser = [a \in Agents |-> NoUser]
    /\ asking = {}
    /\ seatOf = [u \in Capsules |-> NoSeat]
    /\ restarts = 0
    /\ lost = {} /\ overtaken = {}
-----------------------------------------------------------------------------
(* RemoteClientManager, as operators on its vector                         *)

\* RemoteClient::RemoteClient: a client is an agent until it says otherwise.
NewClient(l) ==
    [link |-> l, type |-> "VRClientAgent", bound |-> FALSE, seat |-> NoSeat,
     user |-> NoUser]

\* The index of the client, 0 for NULL.
FindClient(cs, l) == SelectInSeq(cs, LAMBDA c : c.link = l)

GetFreeRemoteClient(cs) ==
    SelectInSeq(cs, LAMBDA c : ~c.bound /\ c.type = "VRClientAgent")

UpdateClientType(cs, l) ==
    IF FindClient(cs, l) = 0 THEN cs
    ELSE [cs EXCEPT ![FindClient(cs, l)].type = "Capsule"]

\* What if deleting a client left it in the vector?
DeleteRemoteClient_Not(cs, l) == cs

DeleteRemoteClient(cs, l) ==
    IF FindClient(cs, l) = 0 THEN cs ELSE RemoveAt(cs, FindClient(cs, l))

\* RecreateUserSeatMap: a host whose seat is in the table is bound again.
RecreateUserSeatMap(c) ==
    IF c.seat = NoSeat \/ m_USM[c.seat] = NoUser THEN c
    ELSE [c EXCEPT !.user = m_USM[c.seat], !.bound = TRUE]

\* What if the table were not consulted?
AssignSeatNumToVRHost_NotRebuilt(cs, l, seat) ==
    IF FindClient(cs, l) = 0 THEN cs
    ELSE [cs EXCEPT ![FindClient(cs, l)].seat = seat]

AssignSeatNumToVRHost(cs, l, seat) ==
    IF FindClient(cs, l) = 0 THEN cs
    ELSE [cs EXCEPT ![FindClient(cs, l)] =
            RecreateUserSeatMap([@ EXCEPT !.seat = seat])]

\* What if the flag stayed set?
ReclaimVRHost_StaysBound(cs, l, seat) == cs

\* ReclaimVRHost: AssignUserID(NULL, 0) leaves the old user id in place
\* (CopyData returns early), so only the flag changes.
ReclaimVRHost(cs, l, seat) ==
    LET k == FindClient(cs, l)
    IN  IF k = 0 \/ cs[k].seat # seat THEN cs
        ELSE [cs EXCEPT ![k].bound = FALSE]

\* AllocateVRHostForUser, once a free host is found.
Bind(cs, k, u) == [cs EXCEPT ![k].user = u, ![k].bound = TRUE]

\* What if the first line of a seat counted?
ReadUserSeatMap_FirstLine(lines) ==
    [s \in Agents |->
        LET k == SelectInSeq(lines, LAMBDA ln : ln[1] = s)
        IN  IF k = 0 THEN NoUser ELSE lines[k][2]]

\* CSVFile::ReadUserSeatMap: the last line of a seat counts.
ReadUserSeatMap(lines) ==
    [s \in Agents |->
        LET k == SelectLastInSeq(lines, LAMBDA ln : ln[1] = s)
        IN  IF k = 0 THEN NoUser ELSE lines[k][2]]
-----------------------------------------------------------------------------
(* VRHostController::HandleNetEventFromClient                              *)

\* The next event or message of link l is m.
Takes(l, m) ==
    /\ inbox[l] # <<>>
    /\ Head(inbox[l]) = m
    /\ inbox' = [inbox EXCEPT ![l] = Tail(@)]
    /\ UNCHANGED <<conns, up, agentVars, capsuleVars, restarts, lost, overtaken>>

HandleConnected(l) ==
    /\ Takes(l, "link_connected")
    /\ clients' = Append(clients, NewClient(l))
    /\ outbox' = Sent(outbox, l, Reply("link_connected", NoSeat))
    /\ UNCHANGED <<m_USM, csv>>

HandleDisconnected(l) ==
    /\ Takes(l, "link_disconnected")
    /\ clients' = DeleteRemoteClient(clients, l)
    /\ UNCHANGED <<m_USM, csv, outbox>>

HandleSeatNum(l) ==
    /\ Takes(l, "c2s_tell_seat_num")
    /\ clients' = AssignSeatNumToVRHost(clients, l, l[1])
    /\ UNCHANGED <<m_USM, csv, outbox>>

\* What if the host were chosen before the type is updated?
Known_Late(l) == clients

\* "first update the type, then bind"
Known(l) == UpdateClientType(clients, l)

\* What if the user id went to the capsule, not to the agent?
HandleUserID_WrongLink(l) ==
    LET k == GetFreeRemoteClient(Known(l))
    IN  /\ Takes(l, "c2s_tell_user_id")
        /\ k # 0
        /\ clients' = Bind(Known(l), k, l[1])
        /\ outbox' = Sent(Sent(outbox, l,
                               Reply("s2c_rsp_seat_num", clients[k].seat)),
                          l, Reply("s2c_tell_user_id", l[1]))
        /\ csv' = Append(csv, <<clients[k].seat, l[1]>>)
        /\ UNCHANGED m_USM

\* A capsule names its user and a host is free: tell the capsule the seat,
\* the host's agent the user, and write the pair to the file.
HandleUserID(l) ==
    LET k == GetFreeRemoteClient(Known(l))
    IN  /\ Takes(l, "c2s_tell_user_id")
        /\ k # 0
        /\ clients' = Bind(Known(l), k, l[1])
        /\ outbox' = Sent(Sent(outbox, l,
                               Reply("s2c_rsp_seat_num", clients[k].seat)),
                          clients[k].link, Reply("s2c_tell_user_id", l[1]))
        /\ csv' = Append(csv, <<clients[k].seat, l[1]>>)
        /\ UNCHANGED m_USM

\* What if a capsule that gets no host were not told?
RefuseUserID_Silent(l) ==
    /\ Takes(l, "c2s_tell_user_id")
    /\ GetFreeRemoteClient(Known(l)) = 0
    /\ clients' = Known(l)
    /\ UNCHANGED <<m_USM, csv, outbox>>

\* No host is free: the seat number is -1.
RefuseUserID(l) ==
    /\ Takes(l, "c2s_tell_user_id")
    /\ GetFreeRemoteClient(Known(l)) = 0
    /\ clients' = Known(l)
    /\ outbox' = Sent(outbox, l, Reply("s2c_rsp_seat_num", NoSeat))
    /\ UNCHANGED <<m_USM, csv>>

HandleRecycle(l) ==
    /\ Takes(l, "c2s_device_status_changed")
    /\ clients' = ReclaimVRHost(clients, l, l[1])
    /\ UNCHANGED <<m_USM, csv, outbox>>

HandleNetEvent(l) ==
    \/ HandleConnected(l)
    \/ HandleDisconnected(l)
    \/ HandleSeatNum(l)
    \/ HandleUserID(l)
    \/ RefuseUserID(l)
    \/ HandleRecycle(l)

\* One turn of Run(), as far as it handles anything.
Run == \E l \in Links : HandleNetEvent(l)

\* The controller stops and starts again: every link is gone, and the table
\* is read from the file before the server starts.
Restart ==
    /\ restarts < MaxRestarts
    /\ restarts' = restarts + 1
    /\ clients' = <<>>
    /\ m_USM' = ReadUserSeatMap(csv)
    /\ up' = {}
    /\ inbox' = [l \in Links |-> <<>>]
    /\ outbox' = [l \in Links |-> <<>>]
    /\ UNCHANGED <<csv, conns, agentVars, capsuleVars, lost, overtaken>>
-----------------------------------------------------------------------------
(* VRClientAgent                                                           *)

\* Party p opens a new connection and sends what it sends at once.
Connects(p, first) ==
    /\ p \notin up
    /\ conns[p] < MaxConns(p)
    /\ conns' = [conns EXCEPT ![p] = @ + 1]
    /\ up' = up \union {p}
    /\ inbox' = [inbox EXCEPT ![LinkOf(p)'] = <<"link_connected">> \o first]
    /\ UNCHANGED <<outbox, ctlVars, restarts, lost, overtaken>>

\* The connection of p is gone; what it had sent still arrives.
HangsUp(p) ==
    /\ p \in up
    /\ up' = up \ {p}
    /\ inbox' = [inbox EXCEPT ![LinkOf(p)] = Append(@, "link_disconnected")]
    /\ outbox' = [outbox EXCEPT ![LinkOf(p)] = <<>>]
    /\ UNCHANGED <<conns, ctlVars, restarts, overtaken>>

\* The service loop finds no connection and makes a new one.
ConnectHostController(a) ==
    Connects(a, <<>>) /\ UNCHANGED <<agentVars, capsuleVars>>

\* The connection breaks; a new ClientAgent replaces the old with its queue.
LoseConnection(a) ==
    /\ Drops
    /\ HangsUp(a)
    /\ lost' = lost \union {a}
    /\ UNCHANGED <<agentVars, capsuleVars>>

\* The k-th message is a user id that has overtaken another.
Overtakes(msgs, k) ==
    /\ msgs[k].cmd = "s2c_tell_user_id"
    /\ \E j \in 1..(k - 1) : msgs[j].cmd = "s2c_tell_user_id"

\* Party p handles its next message, m, which a sender of the controller may have
\* sent before older ones that others had taken.
Gets(p, m) ==
    /\ p \in up
    /\ \E k \in DOMAIN outbox[LinkOf(p)] :
          /\ m = outbox[LinkOf(p)][k]
          /\ outbox' = [outbox EXCEPT ![LinkOf(p)] = RemoveAt(@, k)]
          /\ overtaken' = overtaken \union
                (IF Overtakes(outbox[LinkOf(p)], k) THEN {LinkOf(p)} ELSE {})
    /\ UNCHANGED <<ctlVars, conns, up, restarts, lost>>

\* HandleMessage, link_connected: tell the seat number, reset the flag.
TellSeatNum(a) ==
    /\ Gets(a, Reply("link_connected", NoSeat))
    /\ inbox' = [inbox EXCEPT ![LinkOf(a)] = Append(@, "c2s_tell_seat_num")]
    /\ flag' = [flag EXCEPT ![a] = 0]
    /\ UNCHANGED <<agentUser, capsuleVars>>

\* HandleMessage, s2c_tell_user_id: the user goes into the ini file.
SaveUserID(a) ==
    \E u \in Capsules :
        /\ Gets(a, Reply("s2c_tell_user_id", u))
        /\ agentUser' = [agentUser EXCEPT ![a] = u]
        /\ flag' = [flag EXCEPT ![a] = 0]
        /\ UNCHANGED <<inbox, capsuleVars>>

\* HandleDeviceStatus: report a host that may be recycled, once.
HandleDeviceStatus(a) ==
    /\ a \in up
    /\ flag[a] = 1
    /\ inbox' = [inbox EXCEPT ![LinkOf(a)] =
                    Append(@, "c2s_device_status_changed")]
    /\ flag' = [flag EXCEPT ![a] = 2]
    /\ UNCHANGED <<ctlVars, conns, up, outbox, agentUser, capsuleVars,
                   restarts, lost, overtaken>>

\* The VR application on the host (not in the repository): the session of the
\* user that the ini file names is over, and the host may be recycled.
SessionEnds(a) ==
    /\ agentUser[a] # NoUser
    /\ seatOf[agentUser[a]] = a
    /\ flag' = [flag EXCEPT ![a] = 1]
    /\ seatOf' = [seatOf EXCEPT ![agentUser[a]] = NoSeat]
    /\ UNCHANGED <<ctlVars, netVars, agentUser, asking, restarts, lost, overtaken>>
-----------------------------------------------------------------------------
(* CapsuleClient                                                           *)

\* connectServer and RequestSeatNumber: connect, send the user id, wait.
RequestSeatNumber(u) ==
    /\ u \notin asking
    /\ seatOf[u] = NoSeat
    /\ Connects(u, <<"c2s_tell_user_id">>)
    /\ asking' = asking \union {u}
    /\ UNCHANGED <<seatOf, agentVars>>

\* GetSeatNumResponseMsg: any other message is skipped.
GetSeatNumResponseMsg(u) ==
    /\ u \in asking
    /\ \/ /\ \E m \in Replies : m.cmd # "s2c_rsp_seat_num" /\ Gets(u, m)
          /\ UNCHANGED capsuleVars
       \/ \E s \in Agents \union {NoSeat} :
            /\ Gets(u, Reply("s2c_rsp_seat_num", s))
            /\ seatOf' = [seatOf EXCEPT ![u] = s]
            /\ asking' = asking \ {u}
    /\ UNCHANGED <<inbox, agentVars>>

\* The capsule's program ends, with or without an answer.
CapsuleExits(u) ==
    /\ HangsUp(u)
    /\ asking' = asking \ {u}
    /\ UNCHANGED <<seatOf, agentVars, lost>>

\* It ends when the controller has gone while it waits: Receive returns 0
\* bytes again and again, so it never gets an answer.
CapsuleGivesUp(u) ==
    /\ u \in asking \ up
    /\ asking' = asking \ {u}
    /\ UNCHANGED <<ctlVars, netVars, agentVars, seatOf, restarts, lost,
                   overtaken>>
-----------------------------------------------------------------------------

AgentStep(a) == \/ ConnectHostController(a)
                \/ TellSeatNum(a)
                \/ SaveUserID(a)
                \/ HandleDeviceStatus(a)

Next ==
    \/ Run
    \/ Restart
    \/ \E a \in Agents : AgentStep(a) \/ LoseConnection(a) \/ SessionEnds(a)
    \/ \E u \in Capsules : \/ RequestSeatNumber(u)
                           \/ GetSeatNumResponseMsg(u)
                           \/ CapsuleExits(u)
                           \/ CapsuleGivesUp(u)

Spec == Init /\ [][Next]_vars

\* The controller's Run() and the agent's service loop never stop, and a
\* capsule that waits reads what arrives.  Nobody has to ask, hang up, end a
\* session or restart.
Fairness ==
    /\ WF_vars(Run)
    /\ \A a \in Agents : WF_vars(AgentStep(a))
    /\ \A u \in Capsules : WF_vars(GetSeatNumResponseMsg(u))

FairSpec == Spec /\ Fairness
-----------------------------------------------------------------------------

\* A seat is given to one user at a time: until the session of a user is over
\* no other capsule is told the same seat number.
SeatExclusive ==
    \A u, v \in Capsules :
        u # v /\ seatOf[u] # NoSeat => seatOf[u] # seatOf[v]

\* While a user has a seat, the controller knows: the host that reported this
\* seat number is bound, and to this user, also when it reported it anew to a
\* controller that was restarted ("rebuild the mapping of SeatNumber and
\* UserID of the VR host object from the UserSeatMap table").
RebuiltFromTable ==
    \A u \in Capsules : \A k \in DOMAIN clients :
        seatOf[u] # NoSeat /\ clients[k].seat = seatOf[u] =>
            clients[k].bound /\ clients[k].user = u

\* The user an agent will know that knows u and has still to handle msgs.
LastUser(msgs, u) ==
    LET k == SelectLastInSeq(msgs, LAMBDA m : m.cmd = "s2c_tell_user_id")
    IN  IF k = 0 THEN u ELSE msgs[k].arg

\* The agent of a host that is bound knows the user, or is about to: the last
\* user id on its way to it is the one the controller has, unless a user id has
\* overtaken an older one on this link.
AgentKnowsItsUser ==
    \A k \in DOMAIN clients :
        LET l == clients[k].link
        IN  clients[k].bound /\ l[1] \in Agents /\ IsOpen(l) /\ l \notin overtaken =>
              clients[k].user = LastUser(outbox[l], agentUser[l[1]])

Bound(l) == \E k \in DOMAIN clients : clients[k].link = l /\ clients[k].bound

\* A capsule that asks is never its own VR host, although it counts as a host
\* from its link_connected until its user id is handled.
NeverItsOwnHost ==
    [][\A l \in Links :
         ~Bound(l) /\ Bound(l)' /\ inbox[l] # <<>> /\ inbox'[l] = Tail(inbox[l])
            => Head(inbox[l]) # "c2s_tell_user_id"]_vars

\* What is allocated to a user is a VR host ("allocate a VR host for the user
\* and return the VR host object").
HostIsVRHost ==
    \A k \in DOMAIN clients : clients[k].bound => clients[k].link[1] \in Agents

\* A capsule that asks gets an answer, a seat or -1 (or its program ends).
EveryAskAnswered == \A u \in Capsules : u \in asking ~> u \notin asking

\* A host whose session is over becomes free again for the next user.
RecycledHostIsFreed ==
    \A a \in Agents :
        flag[a] = 1 ~> \E k \in DOMAIN clients :
                          clients[k].seat = a /\ ~clients[k].bound
=============================================================================
