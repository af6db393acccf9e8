---------------------------- MODULE VRSceneServer -----------------------------
(***************************************************************************)
(* A scene server (src/VRSceneServer) and its clients.  Two threads work on *)
(* the list of players: the application's loop, which handles what clients *)
(* and the center server send, and a timer, which every 30 ms sends the    *)
(* positions that changed.  Both put what they send into the send queue of *)
(* NetEventServer (CommonMsgQueue, instantiated below), some of it while   *)
(* they hold the mutex of the list, and put blocks on a full queue.        *)
(* Several sender threads take the messages from the queue and send them,  *)
(* in two steps, so that one message may overtake another.                 *)
(*                                                                         *)
(* A handler is cut where another thread can come in: where it waits for   *)
(* the mutex and at every put.  What a thread still has to put is          *)
(* todo[t].  The events of the clients are a FIFO (LossyFifo, below its    *)
(* limit), a connection is named after its client, which connects once,    *)
(* and a client's seat number and user id after the client.                *)
(***************************************************************************)
EXTENDS Integers, Sequences, FiniteSets, SequencesExt, Functions

CONSTANTS Clients,
          External,   \* those that ask to be seen in other scenes
          Leavers,    \* those that may hang up
          m_maxSize,  \* of the send queue
          SenderNum,  \* sender threads, hardware_concurrency() / 2
          BatchMax,   \* TransformInfos that fit into a message
          MaxActs,    \* moves, requests and hang-ups of clients, messages of the
                      \* center server and the end of its link, together
          NoSeat      \* -1: a client that has not told its seat

ASSUME SceneAssumption ==
    /\ External \subseteq Clients /\ Leavers \subseteq Clients
    /\ {BatchMax, MaxActs} \subseteq Nat /\ SenderNum \in Nat \ {0}
    /\ NoSeat \notin Clients

VARIABLES
    \* the clients
    life,        \* "new", "up", "in" once it is greeted, or "gone"
    moves,       \* how often each has moved
    acts,        \* how many of what MaxActs bounds have happened
    known,       \* the seats each was told of
    seen,        \* the last position each got of every other
    \* the scene server
    events,      \* what the clients sent and the application has not handled
    players,     \* the vector of Players
    m_Mutex,     \* of the list: "free" or the thread that holds it
    pc,          \* where each thread is in its handler, and for which client
    todo,        \* what each thread has still to put
    buffer,      \* the transforms the timer collected
    m_queue,     \* the send queue ...
    putPc,       \* ... and the threads blocked in it
    taken,       \* the messages that sender threads took and have not sent,
                 \* the oldest first
    overtaken,   \* history: <<c, d>> when c got news of d before older ones
    \* the link to the center server
    centerLink,  \* "connecting", "up" or "lost"
    toCenter,    \* on its way there
    fromCenter   \* how many messages came from there and are not handled

clientVars == <<life, moves, acts, known, seen>>
appVars == <<players, m_Mutex, pc, todo>>
sendVars == <<m_queue, putPc, taken, overtaken>>
centerVars == <<centerLink, toCenter, fromCenter>>
vars == <<clientVars, events, appVars, buffer, sendVars, centerVars>>

Threads == {"app", "timer"}
Positions == 0 .. MaxActs

\* What goes to a client: whom or what it tells of is a set.
Message == [to : Clients,
            kind : {"link_connected", "client_list", "new_user_online",
                    "ply_leave", "transform", "global"},
            what : SUBSET (Clients \union {NoSeat} \union (Clients \X Positions))]

Q == INSTANCE CommonMsgQueue WITH
        Putters <- Threads, ForcePutters <- {}, Pollers <- 1 .. SenderNum, Getters <- {},
        Messages <- Message, getPc <- <<>>

Here(c) == life[c] \in {"up", "in"}
Idle == [at |-> "idle", who |-> NoSeat]
Msg(c, kind, what) == [to |-> c, kind |-> kind, what |-> what]

Init ==
    /\ life = [c \in Clients |-> "new"]
    /\ moves = [c \in Clients |-> 0]
    /\ acts = 0
    /\ known = [c \in Clients |-> {}]
    /\ seen = [c \in Clients |-> [d \in Clients |-> 0]]
    /\ events = <<>>
    /\ players = <<>>
    /\ m_Mutex = "free"
    /\ pc = [t \in Threads |-> Idle]
    /\ todo = [t \in Threads |-> <<>>]
    /\ buffer = {}
    /\ Q!Init
    /\ taken = <<>>
    /\ overtaken = {}
    /\ centerLink = "connecting"
    /\ toCenter = <<>>
    /\ fromCenter = 0
-----------------------------------------------------------------------------

\* A player without a seat yet and of type VIP; it has not moved.
NewPlayer(c) ==
    [link |-> c, seat |-> NoSeat, type |-> "VIP", pos |-> 0, update |-> FALSE]

\* FindPlayer; a link is in the list once.
IsPlayer(c) == \E i \in DOMAIN players : players[i].link = c
Player(c) == CHOOSE p \in Range(players) : p.link = c
Others(c) ==
    LET i == SelectInSeq(players, LAMBDA p : p.link = c)
    IN  IF i = 0 THEN players ELSE RemoveAt(players, i)

\* The list after change(p) of the players that satisfy those(p).
Changed(those(_), change(_)) ==
    [i \in DOMAIN players |-> IF those(players[i]) THEN change(players[i]) ELSE players[i]]

\* The messages a loop over some players puts, one for each.
ToEach(ps, kind, what) == [i \in DOMAIN ps |-> Msg(ps[i].link, kind, what)]

\* Where a thread goes in its handler, and what it has to put before it goes on.
Goes(t, at, who, messages) ==
    /\ todo[t] = <<>>
    /\ pc' = [pc EXCEPT ![t] = [at |-> at, who |-> who]]
    /\ todo' = [todo EXCEPT ![t] = messages]
Returns(t, messages) == Goes(t, "idle", NoSeat, messages)

\* The application handles the oldest event.
First == Head(events)
Handles(kind) ==
    /\ pc["app"] = Idle
    /\ events # <<>> /\ First.kind = kind
    /\ events' = Tail(events)

\* A scoped_lock whose holder lets go of the mutex before it sends anything.
Locked == m_Mutex = "free" /\ UNCHANGED m_Mutex
Rest == UNCHANGED <<clientVars, buffer, sendVars>>
-----------------------------------------------------------------------------

\* link_connected: AddPlayer under the mutex, the greeting without it ...
HandleConnected ==
    /\ Handles("link_connected")
    /\ Locked
    /\ players' = Append(players, NewPlayer(First.who))
    /\ Goes("app", "greeting", First.who, <<Msg(First.who, "link_connected", {})>>)
    /\ Rest /\ UNCHANGED centerVars

\* ... and SendUserInfoList, which holds it while it sends.
SendUserInfoList ==
    LET c == pc["app"].who
        vips == {p \in Range(players) : p.type = "VIP" /\ p.link # c}
    IN  /\ pc["app"].at = "greeting"
        /\ m_Mutex = "free"
        /\ m_Mutex' = "app"
        /\ Goes("app", "sending", c,
                IF vips = {} THEN <<>>
                ELSE <<Msg(c, "client_list", {p.seat : p \in vips})>>)
        /\ UNCHANGED <<players, events>> /\ Rest /\ UNCHANGED centerVars

\* The end of a scoped_lock that was held while taken.
Unlock ==
    /\ pc["app"].at = "sending"
    /\ m_Mutex' = "free"
    /\ Returns("app", <<>>)
    /\ UNCHANGED <<players, events>> /\ Rest /\ UNCHANGED centerVars

\* What if SendPlayerLeaveMsg held the mutex, as the other loops do?
HandleDisconnected_Locked ==
    /\ Handles("link_disconnected")
    /\ m_Mutex = "free"
    /\ m_Mutex' = "app"
    /\ Goes("app", "leaving", First.who,
            ToEach(players, "ply_leave", {Player(First.who).seat}))
    /\ UNCHANGED players /\ Rest /\ UNCHANGED centerVars

\* link_disconnected: SendPlayerLeaveMsg tells everybody, the player itself
\* too, without the mutex ...
HandleDisconnected ==
    /\ Handles("link_disconnected")
    /\ IF IsPlayer(First.who)
       THEN Goes("app", "leaving", First.who,
                 ToEach(players, "ply_leave", {Player(First.who).seat}))
       ELSE Returns("app", <<>>)
    /\ UNCHANGED <<players, m_Mutex>> /\ Rest /\ UNCHANGED centerVars

\* What if DeletePlayer did not take the mutex?
DeletePlayer_Unlocked ==
    /\ pc["app"].at = "leaving"
    /\ players' = Others(pc["app"].who)
    /\ Returns("app", <<>>)
    /\ UNCHANGED <<events, m_Mutex>> /\ Rest /\ UNCHANGED centerVars

\* ... and DeletePlayer takes it.
DeletePlayer ==
    /\ pc["app"].at = "leaving"
    /\ Locked
    /\ players' = Others(pc["app"].who)
    /\ Returns("app", <<>>)
    /\ UNCHANGED events /\ Rest /\ UNCHANGED centerVars

\* What if news of a user only went to the VIPs?
BroadcastNewUserOnline_ToVIPs(p) ==
    IF p.type = "VIP"
    THEN ToEach(SelectSeq(Others(p.link), LAMBDA q : q.type = "VIP"),
                "new_user_online", {p.seat})
    ELSE <<>>

\* BroadcastNewUserOnline: to all others, if the user is a VIP.
BroadcastNewUserOnline(p) ==
    IF p.type = "VIP" THEN ToEach(Others(p.link), "new_user_online", {p.seat}) ELSE <<>>

\* c2s_tell_user_info: UpdateUserInfo under the mutex, the broadcast without.
HandleUserInfo ==
    LET c == First.who
        told(p) == [p EXCEPT !.seat = c]
    IN  /\ Handles("user_info")
        /\ Locked
        /\ players' = Changed(LAMBDA p : p.link = c, told)
        /\ Returns("app", IF IsPlayer(c)
                          THEN BroadcastNewUserOnline(told(Player(c)))
                          ELSE <<>>)
        /\ Rest /\ UNCHANGED centerVars

\* ID_User_Transform: UpdatePlayerTransform.
HandleTransform ==
    LET moved(p) == [p EXCEPT !.pos = First.pos, !.update = TRUE]
    IN  /\ Handles("transform")
        /\ Locked
        /\ players' = Changed(LAMBDA p : p.link = First.who, moved)
        /\ Returns("app", <<>>)
        /\ Rest /\ UNCHANGED centerVars

\* NetEventClient::Send: a link that is not there swallows the message.
SendToCenter(kind, what) ==
    toCenter' = IF centerLink = "up" THEN Append(toCenter, [kind |-> kind, what |-> what])
                ELSE toCenter

\* c2s_seen_external, c2s_stop_seen_external: UpdateUserTypeByUserID finds the
\* user by its id; the profile goes to the center server.
HandleSeen(kind, type) ==
    LET c == First.who
        become(p) == [p EXCEPT !.type = type]
    IN  /\ Handles(kind)
        /\ Locked
        /\ players' = Changed(LAMBDA p : p.seat = c, become)
        /\ IF \E p \in Range(players) : p.seat = c
           THEN SendToCenter("profile", {c}) ELSE UNCHANGED toCenter
        /\ Returns("app", <<>>)
        /\ UNCHANGED <<centerLink, fromCenter>> /\ Rest

\* SendMsg: to everybody, holding the mutex.
SendMsg ==
    /\ m_Mutex = "free"
    /\ m_Mutex' = "app"
    /\ Goes("app", "sending", NoSeat, ToEach(players, "global", {}))
    /\ UNCHANGED players /\ Rest

\* ID_Global_Transform from a client.
HandleGlobalTransform ==
    /\ Handles("global_transform")
    /\ SendMsg
    /\ UNCHANGED centerVars

\* What the center server forwards, ID_Global_Notify or ID_Global_Transform.
\* m_bConnectCenterSvr is set when the link is made and stays set.
HandleNetEventFromCenterSvr ==
    /\ pc["app"] = Idle
    /\ centerLink # "connecting"
    /\ fromCenter > 0
    /\ fromCenter' = fromCenter - 1
    /\ SendMsg
    /\ UNCHANGED <<events, centerLink, toCenter>>

\* Run(), between two puts.
App ==
    \/ HandleConnected
    \/ SendUserInfoList
    \/ Unlock
    \/ HandleDisconnected
    \/ DeletePlayer
    \/ HandleUserInfo
    \/ HandleTransform
    \/ HandleSeen("seen_external", "ExternalVIP")
    \/ HandleSeen("stop_seen_external", "VIP")
    \/ HandleGlobalTransform
    \/ HandleNetEventFromCenterSvr
-----------------------------------------------------------------------------

\* The first BatchMax players of a type whose transform is to be sent.
Due(type) ==
    LET due == {i \in DOMAIN players : players[i].update /\ players[i].type = type}
    IN  {players[i] : i \in {i \in due : Cardinality({j \in due : j < i}) < BatchMax}}

Sent(p) == [p EXCEPT !.update = FALSE]
Transforms(ps) == {<<p.link, p.pos>> : p \in ps}

\* What if the flag were cleared of whatever was looked at?
SendTransformDataByUserType_ClearsAll(type) ==
    /\ players' = Changed(LAMBDA p : TRUE, Sent)
    /\ buffer' = Transforms(Due(type))
    /\ Goes("timer", type, NoSeat,
            IF buffer' = {} THEN <<>> ELSE ToEach(players, "transform", buffer'))

\* The handler's loops over the players, up to the puts.
SendTransformDataByUserType(type) ==
    /\ LET due == Due(type)
       IN  /\ players' = Changed(LAMBDA p : p \in due, Sent)
           /\ buffer' = Transforms(due)
    /\ Goes("timer", type, NoSeat,
            IF buffer' = {} THEN <<>> ELSE ToEach(players, "transform", buffer'))

\* The handler of the timer locks, sends the transforms of the VIPs, then of
\* the external VIPs, those to the center server too, and unlocks.  A handler
\* that finds nothing to send changes nothing and is left out.
TimerLocks ==
    /\ pc["timer"] = Idle
    /\ \E p \in Range(players) : p.update
    /\ m_Mutex = "free"
    /\ m_Mutex' = "timer"
    /\ SendTransformDataByUserType("VIP")
    /\ UNCHANGED <<clientVars, events, sendVars, centerVars>>

TimerGoesOn ==
    /\ pc["timer"].at = "VIP"
    /\ SendTransformDataByUserType("ExternalVIP")
    /\ UNCHANGED <<m_Mutex, clientVars, events, sendVars, centerVars>>

TimerUnlocks ==
    /\ pc["timer"].at = "ExternalVIP"
    /\ IF buffer # {} THEN SendToCenter("transform", buffer) ELSE UNCHANGED toCenter
    /\ m_Mutex' = "free"
    /\ buffer' = {}
    /\ Returns("timer", <<>>)
    /\ UNCHANGED <<players, clientVars, events, sendVars, centerLink, fromCenter>>

Timer == TimerLocks \/ TimerGoesOn \/ TimerUnlocks
-----------------------------------------------------------------------------

\* NetEventServer::Send: the next message of a thread, which may block.
Send(t) ==
    /\ todo[t] # <<>>
    /\ Q!Put(t, Head(todo[t]))
    /\ todo' = IF putPc'[t] = "wait" THEN todo ELSE [todo EXCEPT ![t] = Tail(@)]
    /\ UNCHANGED <<clientVars, events, players, m_Mutex, pc, buffer, taken,
                   overtaken, centerVars>>

SpuriousWakeup ==
    /\ Q!SpuriousWakeup
    /\ UNCHANGED <<clientVars, events, appVars, buffer, taken, overtaken, centerVars>>

\* A client keeps the list of the seats it is told of, and tells its own when
\* it is greeted.
Receive(m) ==
    LET c == m.to
        move(d) == {b[2] : b \in {x \in m.what : x[1] = d}}
    IN  /\ known' = [known EXCEPT ![c] =
                        IF m.kind \in {"client_list", "new_user_online"} THEN @ \union m.what
                        ELSE IF m.kind = "ply_leave" THEN @ \ m.what
                        ELSE @]
        /\ seen' = IF m.kind = "transform"
                   THEN [seen EXCEPT ![c] = [d \in Clients |->
                            IF move(d) = {} THEN @[d] ELSE CHOOSE n \in move(d) : TRUE]]
                   ELSE seen
        /\ life' = IF m.kind = "link_connected" THEN [life EXCEPT ![c] = "in"] ELSE life
        /\ events' = IF m.kind = "link_connected"
                     THEN Append(events, [kind |-> "user_info", who |-> c, pos |-> 0])
                     ELSE events

\* A message tells client c of client d.
Mentions(m, c, d) ==
    m.to = c /\ m.kind \in {"client_list", "new_user_online", "ply_leave"} /\ d \in m.what

\* sender_thread_task: a sender that has nothing to send takes the oldest
\* message (the senders do not differ) ...
TakeMessage ==
    /\ Len(taken) < SenderNum
    /\ m_queue # <<>>
    /\ Q!Poll(Len(taken) + 1)
    /\ taken' = Append(taken, Head(m_queue))
    /\ UNCHANGED <<clientVars, events, appVars, buffer, overtaken, centerVars>>

\* ... and DoSend: it goes to its client, if that one is there.  Any of the
\* senders may be the next to come so far.
DoSend(k) ==
    LET m == taken[k]
        older == {taken[j] : j \in 1 .. k - 1}
    IN  /\ k \in DOMAIN taken
        /\ taken' = RemoveAt(taken, k)
        /\ overtaken' = overtaken \union
                {<<m.to, d>> : d \in {d \in Clients \ {m.to} :
                    Mentions(m, m.to, d) /\ \E o \in older : Mentions(o, m.to, d)}}
        /\ IF Here(m.to) THEN Receive(m) ELSE UNCHANGED <<life, known, seen, events>>
        /\ UNCHANGED <<moves, acts, appVars, buffer, m_queue, putPc, centerVars>>
-----------------------------------------------------------------------------

\* What a client does of its own accord; NetEventServer reports it.
Tells(c, kind, n) == events' = Append(events, [kind |-> kind, who |-> c, pos |-> n])
Acts == acts < MaxActs /\ acts' = acts + 1
ClientRest == UNCHANGED <<known, seen, appVars, buffer, sendVars, centerVars>>

Connect(c) ==
    /\ life[c] = "new"
    /\ life' = [life EXCEPT ![c] = "up"]
    /\ Tells(c, "link_connected", 0)
    /\ ClientRest /\ UNCHANGED <<moves, acts>>

HangUp(c) ==
    /\ Here(c) /\ c \in Leavers
    /\ Acts
    /\ life' = [life EXCEPT ![c] = "gone"]
    /\ Tells(c, "link_disconnected", 0)
    /\ ClientRest /\ UNCHANGED moves

Move(c) ==
    /\ life[c] = "in"
    /\ Acts
    /\ moves' = [moves EXCEPT ![c] = @ + 1]
    /\ Tells(c, "transform", moves[c] + 1)
    /\ ClientRest /\ UNCHANGED life

Ask(c, kind) ==
    /\ life[c] = "in"
    /\ Acts
    /\ kind # "global_transform" => c \in External
    /\ Tells(c, kind, 0)
    /\ ClientRest /\ UNCHANGED <<life, moves>>

ClientActs(c) ==
    \/ Connect(c)
    \/ HangUp(c)
    \/ Move(c)
    \/ \E kind \in {"seen_external", "stop_seen_external", "global_transform"} : Ask(c, kind)

\* The center server and the link to it, which is made once.
CenterRest == UNCHANGED <<clientVars, events, appVars, buffer, sendVars>>
CenterConnects ==
    /\ centerLink = "connecting"
    /\ centerLink' = "up"
    /\ CenterRest /\ UNCHANGED <<toCenter, fromCenter>>
CenterCloses ==
    /\ centerLink = "up"
    /\ Acts
    /\ centerLink' = "lost" /\ toCenter' = <<>>
    /\ UNCHANGED <<life, moves, known, seen, events, appVars, buffer, sendVars, fromCenter>>
CenterTakes ==
    /\ toCenter # <<>>
    /\ toCenter' = Tail(toCenter)
    /\ CenterRest /\ UNCHANGED <<centerLink, fromCenter>>
CenterSends ==
    /\ centerLink = "up"
    /\ Acts
    /\ fromCenter' = fromCenter + 1
    /\ UNCHANGED <<life, moves, known, seen, events, appVars, buffer, sendVars,
                   centerLink, toCenter>>
Center == CenterConnects \/ CenterCloses \/ CenterTakes \/ CenterSends

Next ==
    \/ App
    \/ Timer
    \/ \E t \in Threads : Send(t)
    \/ SpuriousWakeup
    \/ TakeMessage
    \/ \E k \in DOMAIN taken : DoSend(k)
    \/ \E c \in Clients : ClientActs(c)
    \/ Center

\* The loops of the threads run for ever, each whenever it is not blocked; a
\* sender comes to send what it took, so the oldest message taken is sent some
\* time.  Clients and the center server do what they like.
Fairness ==
    /\ WF_vars(App \/ Send("app"))
    /\ WF_vars(Timer \/ Send("timer"))
    /\ WF_vars(TakeMessage)
    /\ WF_vars(DoSend(1))

Spec == Init /\ [][Next]_vars
FairSpec == Spec /\ Fairness
-----------------------------------------------------------------------------

\* While the timer sends, blocked or not, the list stands still: it sends to
\* players that are in the list, and what it sends is where they are now and
\* still of the type it is taken (so no transform of a user who is not to be
\* seen outside goes to the center server).
BatchIsCurrent ==
    /\ \A m \in Range(todo["timer"]) : IsPlayer(m.to)
    /\ \A b \in buffer : \E p \in Range(players) :
          p.link = b[1] /\ p.pos = b[2] /\ p.type = pc["timer"].at

\* Neither thread is left for ever in a loop of Sends, with or without the
\* mutex, although the other one fills the same bounded queue.
SendReturns == \A t \in Threads : []<>(todo[t] = <<>>)

\* Every event of a client is handled in the end: the application, which waits
\* for the mutex in most handlers, is not kept out by the timer or by itself.
EventsHandled == []<>(events = <<>>)

\* A client that is in the scene when another one moves gets to see, at some
\* time, where that one is, whatever type of user moved, unless one of them
\* leaves.
MoveReachesAll ==
    \A c \in Clients : \A d \in Clients \ {c} :
        (/\ IsPlayer(c) /\ IsPlayer(d)
         /\ events # <<>> /\ First.kind = "transform" /\ First.who = d)
            ~> (seen[c][d] = moves[d] \/ life[c] = "gone" \/ life[d] = "gone")

AtRest ==
    /\ events = <<>> /\ m_queue = <<>> /\ taken = <<>>
    /\ \A t \in Threads : pc[t] = Idle /\ todo[t] = <<>>

\* Nothing keeps two messages to one client apart that two senders have taken:
\* the later one may be sent first, and "d has left" before "d is here" leaves
\* c with a player who is gone.  That is the only way it goes wrong.  When
\* everything is handled and sent, every client in the scene that did not get
\* the news of d in the wrong order knows d if d is there, and does not know d
\* if d has left, however joining, leaving and the puts of the two threads
\* interleave.  Users that asked to be seen outside are not announced to those
\* who come later, and may be missing.
PresenceRightUnlessOvertaken ==
    AtRest => \A c, d \in Clients :
        c # d /\ life[c] = "in" /\ <<c, d>> \notin overtaken =>
            /\ d \in known[c] => life[d] = "in"
            /\ life[d] = "in" /\ d \notin External => d \in known[c]
=============================================================================
