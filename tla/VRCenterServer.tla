---------------------------- MODULE VRCenterServer ----------------------------
(***************************************************************************)
(* The center server and the scene servers that it connects: what a scene  *)
(* server sends to it goes on to all others that are connected.            *)
(*                                                                         *)
(* A scene server has one NetEventClient, whose m_msgPack three threads    *)
(* use without a lock: the message loop ("app") and the timer build their  *)
(* messages in it, and the network thread copies each package that comes   *)
(* in there before it pushes it.  In the center server, HandleNetEvent     *)
(* puts a message into the send queue for each other user, and waits for   *)
(* room there; several sender threads take the messages and send them, in  *)
(* two steps, so that one may overtake another.  TCP keeps the order of    *)
(* each link; the event queues are FIFO (MessageQueueAB).                  *)
(*                                                                         *)
(* A package is a header and a body, each named after the message it was   *)
(* written for; a message is <<scene, thread>>, its sender.  What a torn    *)
(* package does to the framing of its own link is left out.                *)
(***************************************************************************)
EXTENDS Integers, SequencesExt

CONSTANTS Scenes,
          Apps,      \* scene servers whose message loop sends a message
          Timers,    \* and those whose timer sends one
          Leavers,   \* scene servers that may end
          SendMax,   \* MAX_SEND_MSGQ_LEN
          SenderNum, \* sender threads, hardware_concurrency() / 2
          Nothing

Messages == (Apps \X {"app"}) \union (Timers \X {"timer"})

ASSUME ScenesAssumption ==
    /\ Apps \subseteq Scenes /\ Timers \subseteq Scenes
    /\ Leavers \subseteq Scenes /\ {SendMax, SenderNum} \subseteq Nat \ {0}
    /\ Nothing \notin Scenes /\ Nothing \notin Messages

VARIABLES
    link,          \* of a scene server to the center: "down", "up" or "lost"
    sending,       \* where the sender of a message is
    net,           \* network threads that have copied and not yet pushed
    m_msgPack,     \* of each NetEventClient
    shared,        \* those of which two threads used m_msgPack at the same time
    received,      \* what each scene server has got, and from whom
    fromCenter,    \* on its way to a scene server
    events,        \* event queue of the center server
    users,         \* the UserManager
    rest,          \* users that ForwardMsgToOtherSceneServers has not yet got to
    m_linkid,      \* of the message it forwards
    sendQueue,     \* m_pSendMsgQueue of the center server
    taken          \* what its sender threads took and have not sent, the oldest first

clientVars == <<sending, net, m_msgPack, shared, received>>
wireVars == <<link, fromCenter>>
centerVars == <<events, users, rest, m_linkid, sendQueue, taken>>
vars == <<clientVars, wireVars, centerVars>>

Init ==
    /\ link = [s \in Scenes |-> "down"]
    /\ sending = [m \in Messages |-> "not yet"]
    /\ net = {} /\ shared = {}
    /\ m_msgPack = [s \in Scenes |-> [head |-> Nothing, body |-> Nothing]]
    /\ received = [s \in Scenes |-> <<>>]
    /\ fromCenter = [s \in Scenes |-> <<>>]
    /\ events = <<>> /\ users = <<>> /\ rest = <<>>
    /\ m_linkid = Nothing /\ sendQueue = <<>> /\ taken = <<>>
-----------------------------------------------------------------------------
(* A scene server and its NetEventClient                                   *)

\* Threads of s that are using m_msgPack, other than the sender of m.
Using(s, m) ==
    \/ s \in net /\ m # Nothing
    \/ \E n \in Messages \ {m} : n[1] = s /\ sending[n] \in {"header", "body"}

Overlaps(s, m) == shared' = shared \union (IF Using(s, m) THEN {s} ELSE {})

\* What s sends, or that it is gone, becomes an event of the center server.  (How long
\* that takes is left out: s cannot tell, and its own events stay in order.)
ToCenter(s, event) == events' = Append(events, [from |-> s, event |-> event])

\* The connection is made; the eventcb then gives the client to the timer.
Connect(s) ==
    /\ link[s] = "down" /\ link' = [link EXCEPT ![s] = "up"]
    /\ ToCenter(s, [kind |-> "connected"])
    /\ UNCHANGED <<clientVars, fromCenter, users, rest, m_linkid, sendQueue, taken>>

\* The process ends.
Leave(s) ==
    /\ s \in Leavers
    /\ link[s] = "up" /\ link' = [link EXCEPT ![s] = "lost"]
    /\ ToCenter(s, [kind |-> "disconnected"])
    /\ UNCHANGED <<clientVars, fromCenter, users, rest, m_linkid, sendQueue, taken>>

\* Send of the NetEventClient: WriteHeader, WriteBody, and then send, whose result
\* is ignored.  The timer only calls it once the connection is made.
WriteHeader(m) ==
    /\ sending[m] = "not yet" /\ link[m[1]] # "lost"
    /\ m[2] = "timer" => link[m[1]] = "up"
    /\ sending' = [sending EXCEPT ![m] = "header"]
    /\ m_msgPack' = [m_msgPack EXCEPT ![m[1]].head = m]
    /\ Overlaps(m[1], m)
    /\ UNCHANGED <<net, received, wireVars, centerVars>>

\* What if the body were not written?
WriteBody_Not(m) ==
    /\ sending[m] = "header" /\ link[m[1]] # "lost"
    /\ sending' = [sending EXCEPT ![m] = "body"]
    /\ UNCHANGED <<net, m_msgPack, received, shared, wireVars, centerVars>>

WriteBody(m) ==
    /\ sending[m] = "header" /\ link[m[1]] # "lost"
    /\ sending' = [sending EXCEPT ![m] = "body"]
    /\ m_msgPack' = [m_msgPack EXCEPT ![m[1]].body = m]
    /\ UNCHANGED <<net, received, shared, wireVars, centerVars>>

Send(m) ==
    /\ sending[m] = "body" /\ link[m[1]] # "lost"
    /\ sending' = [sending EXCEPT ![m] = "sent"]
    /\ IF link[m[1]] = "up"
       THEN ToCenter(m[1], [kind |-> "message", pack |-> m_msgPack[m[1]]])
       ELSE UNCHANGED events
    /\ UNCHANGED <<net, m_msgPack, received, shared, wireVars, users, rest, m_linkid,
                   sendQueue, taken>>

\* read_pack copies a package ...
ReadPack(s) ==
    /\ link[s] = "up" /\ s \notin net /\ fromCenter[s] # <<>>
    /\ m_msgPack' = [m_msgPack EXCEPT ![s] = Head(fromCenter[s]).pack]
    /\ net' = net \union {s}
    /\ Overlaps(s, Nothing)
    /\ UNCHANGED <<sending, received, wireVars, centerVars>>

\* ... and pushes the copy; HandleNetEventFromCenterSvr will take it.
PushPack(s) ==
    /\ link[s] = "up" /\ s \in net /\ net' = net \ {s}
    /\ received' = [received EXCEPT ![s] =
            Append(@, [from |-> Head(fromCenter[s]).from, pack |-> m_msgPack[s]])]
    /\ fromCenter' = [fromCenter EXCEPT ![s] = Tail(@)]
    /\ UNCHANGED <<sending, m_msgPack, shared, link, centerVars>>

SceneStep(s) == ReadPack(s) \/ PushPack(s)
SendStep(m) == WriteHeader(m) \/ WriteBody(m) \/ Send(m)
-----------------------------------------------------------------------------
(* The center server                                                       *)

\* HandleNetEvent is at this event, and not in the middle of forwarding one.
Handles(kind) ==
    events # <<>> /\ m_linkid = Nothing /\ Head(events).event.kind = kind

Known(s) == \E k \in DOMAIN users : users[k] = s

AddUser ==
    /\ Handles("connected")
    /\ users' = Append(users, Head(events).from)
    /\ events' = Tail(events)
    /\ UNCHANGED <<clientVars, wireVars, rest, m_linkid, sendQueue, taken>>

\* What if DeleteUser deleted the first user, whoever it is?
DeleteUser_First ==
    /\ Handles("disconnected")
    /\ users' = Tail(users)
    /\ events' = Tail(events)
    /\ UNCHANGED <<clientVars, wireVars, rest, m_linkid, sendQueue, taken>>

\* The first user with this id is erased.
DeleteUser ==
    /\ Handles("disconnected")
    /\ IF Known(Head(events).from)
       THEN \E k \in DOMAIN users :
            /\ users[k] = Head(events).from
            /\ \A j \in 1..(k - 1) : users[j] # users[k]
            /\ users' = SubSeq(users, 1, k - 1) \o SubSeq(users, k + 1, Len(users))
       ELSE UNCHANGED users
    /\ events' = Tail(events)
    /\ UNCHANGED <<clientVars, wireVars, rest, m_linkid, sendQueue, taken>>

\* ForwardMsgToOtherSceneServers begins.
ForwardBegins ==
    /\ Handles("message")
    /\ rest' = users /\ m_linkid' = Head(events).from
    /\ UNCHANGED <<clientVars, wireVars, events, users, sendQueue, taken>>

\* Send to a user: SetLinkID, and put, which waits for room.
SendTo(s) ==
    /\ Len(sendQueue) < SendMax
    /\ sendQueue' = Append(sendQueue, [to |-> s, from |-> Head(events).from,
                                       pack |-> Head(events).event.pack])
    /\ m_linkid' = s

\* What if the source were the link id of the message, which Send overwrites?
ForwardMsg_LinkID ==
    /\ m_linkid # Nothing /\ rest # <<>>
    /\ IF Head(rest) # m_linkid THEN SendTo(Head(rest)) ELSE UNCHANGED <<sendQueue, m_linkid>>
    /\ rest' = Tail(rest)
    /\ UNCHANGED <<clientVars, wireVars, events, users, taken>>

\* One turn of its loop: all users but the source.
ForwardMsg ==
    /\ m_linkid # Nothing /\ rest # <<>>
    /\ IF Head(rest) # Head(events).from THEN SendTo(Head(rest))
       ELSE UNCHANGED <<sendQueue, m_linkid>>
    /\ rest' = Tail(rest)
    /\ UNCHANGED <<clientVars, wireVars, events, users, taken>>

ForwardEnds ==
    /\ m_linkid # Nothing /\ rest = <<>>
    /\ m_linkid' = Nothing
    /\ events' = Tail(events)
    /\ UNCHANGED <<clientVars, wireVars, users, rest, sendQueue, taken>>

HandleNetEvent == AddUser \/ DeleteUser \/ ForwardBegins \/ ForwardMsg \/ ForwardEnds

\* sender_thread_task: a sender that has nothing to send takes the oldest message ...
TakeMessage ==
    /\ Len(taken) < SenderNum
    /\ sendQueue # <<>> /\ sendQueue' = Tail(sendQueue)
    /\ taken' = Append(taken, Head(sendQueue))
    /\ UNCHANGED <<clientVars, wireVars, events, users, rest, m_linkid>>

\* ... and DoSend, by any of the senders: nothing is sent over a link that is no more.
DoSend(k) ==
    /\ k \in DOMAIN taken /\ taken' = RemoveAt(taken, k)
    /\ LET msg == taken[k]
       IN  fromCenter' = IF link[msg.to] = "up"
                         THEN [fromCenter EXCEPT ![msg.to] =
                                 Append(@, [from |-> msg.from, pack |-> msg.pack])]
                         ELSE fromCenter
    /\ UNCHANGED <<clientVars, link, events, users, rest, m_linkid, sendQueue>>
-----------------------------------------------------------------------------

Next ==
    \/ \E s \in Scenes : Connect(s) \/ Leave(s) \/ SceneStep(s)
    \/ \E m \in Messages : SendStep(m)
    \/ HandleNetEvent \/ TakeMessage
    \/ \E k \in DOMAIN taken : DoSend(k)

Spec == Init /\ [][Next]_vars

\* Threads run, so that the oldest message taken is sent some time, and links
\* deliver; nobody has to connect or to send.
FairSpec ==
    /\ Spec /\ WF_vars(HandleNetEvent) /\ WF_vars(TakeMessage) /\ WF_vars(DoSend(1))
    /\ \A s \in Scenes : WF_vars(SceneStep(s))
-----------------------------------------------------------------------------

\* The package that the sender of m means to send.
Whole(m) == [head |-> m, body |-> m]
GetsWhole(s) == {k \in DOMAIN received[s] : {s, received[s][k].from} \intersect shared = {}}

\* Nothing that ForwardMsgToOtherSceneServers sends goes back to where it came
\* from, and no scene server gets a message twice, though Send overwrites the
\* link id of the message on each turn of the loop.  (Two threads in one m_msgPack
\* may send the same package twice.)
OnceToEachOther ==
    \A s \in Scenes : /\ \A k \in DOMAIN received[s] : received[s][k].from # s
                      /\ \A j, k \in GetsWhole(s) : received[s][j] = received[s][k] => j = k

\* What HandleNetEventFromCenterSvr takes is what another scene server wrote,
\* header and body, unless two threads were in m_msgPack at the same time in one of
\* the two: that is the only way in which packages are torn.
WholeUnlessShared ==
    \A s \in Scenes : \A k \in GetsWhole(s) :
        \E m \in Messages : /\ received[s][k].pack = Whole(m)
                            /\ received[s][k].from = m[1]

\* The center server has m to handle.
Holds(m) == \E k \in DOMAIN events :
    /\ events[k].from = m[1] /\ events[k].event.kind = "message"
    /\ events[k].event.pack = Whole(m)

Gets(s, m) == \E k \in DOMAIN received[s] : received[s][k] = [from |-> m[1], pack |-> Whole(m)]

\* A message that is in the event queue of the center server reaches each other user
\* that stays, whoever else leaves meanwhile, unless the threads of that scene
\* server interfere.
ReachesOthers ==
    \A m \in Messages : \A s \in Scenes \ {m[1]} :
        Holds(m) /\ Known(s) ~> Gets(s, m) \/ link[s] = "lost" \/ s \in shared
=============================================================================
