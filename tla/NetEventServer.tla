---------------------------- MODULE NetEventServer ----------------------------
(***************************************************************************)
(* The connection table of NetEventServer (src/NetEventService): how a     *)
(* socket becomes a Channel with a link id, how the application above      *)
(* learns of it, how messages find their way back to the socket, and how   *)
(* all of it is undone when the client hangs up.                           *)
(*                                                                         *)
(* Threads: the dispatch thread that accepts; ThreadNum receiver threads,  *)
(* each with its libevent loop; sender threads; and the application's      *)
(* thread.  A handler is cut where it takes or leaves a mutex and where it *)
(* touches what another thread touches without one.                        *)
(*                                                                         *)
(* The queue of events to the application (MessageQueueAB) is the FIFO     *)
(* that LossyFifo promises, here shorter than its limit; the queue of      *)
(* messages to send is CommonMsgQueue with its blocking put.               *)
(***************************************************************************)
EXTENDS ChannelManager, FiniteSets, SequencesExt

CONSTANTS Conns,       \* the sockets that clients connect
          NoConn,      \* a NULL channel
          ThreadNum,   \* m_thread_num
          Senders,     \* the sender threads
          SendMax,     \* m_maxSize of m_pSendMsgQueue (8192)
          MaxData      \* bound on the packages the clients send

ASSUME NoConnAssumption == NoConn \notin Conns
ASSUME ThreadNumAssumption == ThreadNum \in Nat \ {0}
ASSUME BoundsAssumption == SendMax \in Nat \ {0} /\ MaxData \in Nat

Receivers == 0..(ThreadNum - 1)

VARIABLES
    m_last_thread,    \* the receiver that got the last connection
    ringing,          \* listener_cb has queued a connection, not yet notified
    conn_queue,       \* per receiver: sockets waiting for a Channel
    notify,           \* per receiver: bytes in its notification socket
    rx,               \* per receiver: [pc, conn, id] of the callback it is in
    armed,            \* per receiver: sockets whose callbacks are enabled
    m_Channels,       \* the table: link id -> Channel or NoConn
    m_fd,             \* per socket: "none", "open" or "closed"
    obj,              \* per socket: its Channel: "none", "live" or "freed"
    m_channelID,      \* per Channel: its link id
    hungUp,           \* sockets whose client has gone
    sent,             \* packages the clients have sent
    events,           \* m_pMsgQueueAB: events for the application
    players,          \* the application's list of clients
    reply,            \* the message its thread is putting, <<>> if none
    m_pSendMsgQueue,  \* messages to send
    tx                \* per sender: [pc, msg, conn] of its loop

connVars == <<m_fd, obj, m_channelID>>
appVars == <<players, reply>>
sendVars == <<m_pSendMsgQueue, tx>>
acceptVars == <<m_last_thread, ringing>>
vars == <<m_ids, m_last_thread, ringing, conn_queue, notify, rx, armed,
          m_Channels, m_fd, obj, m_channelID, hungUp, sent, events, players,
          reply, m_pSendMsgQueue, tx>>

\* Where a receiver holds conn_mtx of its own queue: the whole of notify_cb.
InNotify == {"alloc", "check", "install", "announce", "enable"}
\* Where it holds m_channel_mtx: the whole of Close.
InClose == {"release", "report", "delete", "clear"}

ConnMtxFree(r) == rx[r].pc \notin InNotify
ChannelMtxFree == /\ \A r \in Receivers : rx[r].pc \notin InClose
                  /\ \A s \in Senders : tx[s].pc # "sending"

Event(what, k, c) == [kind |-> what, link |-> k, conn |-> c]
Idle == [pc |-> "loop", conn |-> NoConn, id |-> -1]
Polling == [pc |-> "poll", link |-> -1, conn |-> NoConn]

Goto(r, where) == rx' = [rx EXCEPT ![r].pc = where]
Return(r) == rx' = [rx EXCEPT ![r] = Idle]

Init ==
    /\ PoolInit
    /\ m_last_thread = -1
    /\ ringing = FALSE
    /\ conn_queue = [r \in Receivers |-> <<>>]
    /\ notify = [r \in Receivers |-> 0]
    /\ rx = [r \in Receivers |-> Idle]
    /\ armed = [r \in Receivers |-> {}]
    /\ m_Channels = [k \in Ids |-> NoConn]
    /\ m_fd = [c \in Conns |-> "none"]
    /\ obj = [c \in Conns |-> "none"]
    /\ m_channelID = [c \in Conns |-> -1]
    /\ hungUp = {}
    /\ sent = 0
    /\ events = <<>>
    /\ players = <<>>
    /\ reply = <<>>
    /\ m_pSendMsgQueue = <<>>
    /\ tx = [s \in Senders |-> Polling]
-----------------------------------------------------------------------------
\* The clients and the dispatch thread.

\* listener_cb: round robin over the receivers, push under conn_mtx.
Accept(c) ==
    LET r == (m_last_thread + 1) % ThreadNum
    IN  /\ ~ ringing
        /\ m_fd[c] = "none"
        /\ ConnMtxFree(r)
        /\ m_last_thread' = r
        /\ conn_queue' = [conn_queue EXCEPT ![r] = Append(@, c)]
        /\ m_fd' = [m_fd EXCEPT ![c] = "open"]
        /\ ringing' = TRUE
        /\ UNCHANGED <<m_ids, notify, rx, armed, m_Channels, obj, m_channelID,
                       hungUp, sent, events, appVars, sendVars>>

\* What if the byte were lost (the socket does not block)?
Notify_Lost ==
    /\ ringing
    /\ ringing' = FALSE
    /\ UNCHANGED <<m_ids, m_last_thread, conn_queue, notify, rx, armed,
                   m_Channels, connVars, hungUp, sent, events, appVars,
                   sendVars>>

\* ... and then one byte into the receiver's notification socket.
Notify ==
    /\ ringing
    /\ ringing' = FALSE
    /\ notify' = [notify EXCEPT ![m_last_thread] = @ + 1]
    /\ UNCHANGED <<m_ids, m_last_thread, conn_queue, rx, armed, m_Channels,
                   connVars, hungUp, sent, events, appVars, sendVars>>

\* A client closes or loses its connection.
HangUp(c) ==
    /\ m_fd[c] = "open"
    /\ c \notin hungUp
    /\ hungUp' = hungUp \union {c}
    /\ UNCHANGED <<m_ids, acceptVars, conn_queue, notify, rx, armed,
                   m_Channels, connVars, sent, events, appVars, sendVars>>
-----------------------------------------------------------------------------
\* notify_cb and CreateChannel, on receiver r.

\* What if notify_cb ran without a byte to read?
NotifyCb_NoByte(r) ==
    /\ rx[r].pc = "loop"
    /\ notify' = [notify EXCEPT ![r] = @ - 1]
    /\ Goto(r, "pop")
    /\ UNCHANGED <<m_ids, acceptVars, conn_queue, armed, m_Channels, connVars,
                   hungUp, sent, events, appVars, sendVars>>

\* recv of the byte, before the lock.
NotifyCb(r) ==
    /\ rx[r].pc = "loop"
    /\ notify[r] > 0
    /\ notify' = [notify EXCEPT ![r] = @ - 1]
    /\ Goto(r, "pop")
    /\ UNCHANGED <<m_ids, acceptVars, conn_queue, armed, m_Channels, connVars,
                   hungUp, sent, events, appVars, sendVars>>

\* What if one notification emptied the queue of connections?
PopConn_All(r) ==
    /\ rx[r].pc = "pop"
    /\ conn_queue[r] # <<>>
    /\ conn_queue' = [conn_queue EXCEPT ![r] = <<>>]
    /\ rx' = [rx EXCEPT ![r] =
                [pc |-> "alloc", conn |-> Head(conn_queue[r]), id |-> -1]]
    /\ UNCHANGED <<m_ids, acceptVars, notify, armed, m_Channels, connVars,
                   hungUp, sent, events, appVars, sendVars>>

\* Lock conn_mtx (the listener may hold it only inside Accept), front, pop.
PopConn(r) ==
    /\ rx[r].pc = "pop"
    /\ conn_queue[r] # <<>>
    /\ conn_queue' = [conn_queue EXCEPT ![r] = Tail(@)]
    /\ rx' = [rx EXCEPT ![r] =
                [pc |-> "alloc", conn |-> Head(conn_queue[r]), id |-> -1]]
    /\ UNCHANGED <<m_ids, acceptVars, notify, armed, m_Channels, connVars,
                   hungUp, sent, events, appVars, sendVars>>

\* CreateChannel, its first half: without a free id the client is turned away.
AllocID(r) ==
    LET c == rx[r].conn
    IN  /\ rx[r].pc = "alloc"
        /\ \/ /\ NoFreeID
              /\ m_fd' = [m_fd EXCEPT ![c] = "closed"]
              /\ Return(r)
              /\ UNCHANGED m_ids
           \/ \E id \in Ids :
                /\ GetFreeID(id)
                /\ rx' = [rx EXCEPT ![r] = [@ EXCEPT !.pc = "check", !.id = id]]
                /\ UNCHANGED m_fd
        /\ UNCHANGED <<acceptVars, conn_queue, notify, armed, m_Channels, obj,
                       m_channelID, hungUp, sent, events, appVars, sendVars>>

\* NULL != c && c->IsUsed(): nothing ever sets m_bUsedFlag, so FALSE; but the
\* Channel may have been freed, and then the flag reads as anything.
IsUsed(c) == IF c # NoConn /\ obj[c] = "freed" THEN BOOLEAN ELSE {FALSE}

\* The test of the slot, which m_channel_mtx does not protect here.  The code
\* reads the slot twice, for NULL and for the flag.  If the first read finds NULL,
\* or both find a Channel, it is as if it had read once; Close clearing the slot
\* between the two, a call on NULL, is left out.  It needs a slot that is not
\* empty, which FreshIdNotInUse excludes below the limit of connections.
CheckSlot(r) ==
    LET old == m_Channels[rx[r].id]
    IN  /\ rx[r].pc = "check"
        /\ \/ /\ FALSE \in IsUsed(old)
              /\ Goto(r, "install")
              /\ UNCHANGED <<m_fd, events>>
           \/ /\ TRUE \in IsUsed(old)
              /\ events' = Append(events, Event("exists", -1, rx[r].conn))
              /\ m_fd' = [m_fd EXCEPT ![rx[r].conn] = "closed"]
              /\ Return(r)
        /\ UNCHANGED <<m_ids, acceptVars, conn_queue, notify, armed,
                       m_Channels, obj, m_channelID, hungUp, sent, appVars,
                       sendVars>>

\* new Channel, and m_Channels[cid] = c, again without m_channel_mtx.
Install(r) ==
    LET c == rx[r].conn
    IN  /\ rx[r].pc = "install"
        /\ obj' = [obj EXCEPT ![c] = "live"]
        /\ m_channelID' = [m_channelID EXCEPT ![c] = rx[r].id]
        /\ m_Channels' = [m_Channels EXCEPT ![rx[r].id] = c]
        /\ Goto(r, "announce")
        /\ UNCHANGED <<m_ids, acceptVars, conn_queue, notify, armed, m_fd,
                       hungUp, sent, events, appVars, sendVars>>

\* Back in notify_cb: the application is told.
Announce(r) ==
    LET c == rx[r].conn
    IN  /\ rx[r].pc = "announce"
        /\ events' = Append(events, Event("connected", m_channelID[c], c))
        /\ Goto(r, "enable")
        /\ UNCHANGED <<m_ids, acceptVars, conn_queue, notify, armed,
                       m_Channels, connVars, hungUp, sent, appVars, sendVars>>

\* bufferevent_setcb and bufferevent_enable; conn_mtx is unlocked.
Enable(r) ==
    /\ rx[r].pc = "enable"
    /\ armed' = [armed EXCEPT ![r] = @ \union {rx[r].conn}]
    /\ Return(r)
    /\ UNCHANGED <<m_ids, acceptVars, conn_queue, notify, m_Channels, connVars,
                   hungUp, sent, events, appVars, sendVars>>
-----------------------------------------------------------------------------
\* conn_readcb and conn_eventcb, on receiver r.

\* DoRead finds one package, and ReadPackage stamps it with the link id.
ReadCb(r, c) ==
    /\ rx[r].pc = "loop"
    /\ c \in armed[r]
    /\ sent < MaxData
    /\ sent' = sent + 1
    /\ events' = Append(events, Event("data", m_channelID[c], c))
    /\ UNCHANGED <<m_ids, acceptVars, conn_queue, notify, rx, armed,
                   m_Channels, connVars, hungUp, appVars, sendVars>>

\* What if conn_eventcb only logged?
EventCb_LogOnly(r, c) ==
    /\ rx[r].pc = "loop"
    /\ c \in armed[r] \intersect hungUp
    /\ armed' = [armed EXCEPT ![r] = @ \ {c}]
    /\ UNCHANGED <<m_ids, acceptVars, conn_queue, notify, rx, m_Channels,
                   connVars, hungUp, sent, events, appVars, sendVars>>

\* conn_eventcb on end of file or error (libevent reports it once).
EventCb(r, c) ==
    /\ rx[r].pc = "loop"
    /\ c \in armed[r] \intersect hungUp
    /\ rx' = [rx EXCEPT ![r] =
                [pc |-> "close", conn |-> c, id |-> m_channelID[c]]]
    /\ armed' = [armed EXCEPT ![r] = @ \ {c}]
    /\ UNCHANGED <<m_ids, acceptVars, conn_queue, notify, m_Channels, connVars,
                   hungUp, sent, events, appVars, sendVars>>

\* Close(cid): lock m_channel_mtx, look the id up, and close the socket of
\* the Channel that is there.
CloseChannel(r) ==
    LET c == m_Channels[rx[r].id]
    IN  /\ rx[r].pc = "close"
        /\ ChannelMtxFree
        /\ \/ /\ c = NoConn
              /\ Return(r)
              /\ UNCHANGED m_fd
           \/ /\ c # NoConn /\ m_fd[c] # "closed"
              /\ m_fd' = [m_fd EXCEPT ![c] = "closed"]
              /\ rx' = [rx EXCEPT ![r] = [@ EXCEPT !.pc = "release", !.conn = c]]
           \/ /\ c # NoConn /\ m_fd[c] = "closed"
              /\ rx' = [rx EXCEPT ![r] = [@ EXCEPT !.pc = "delete", !.conn = c]]
              /\ UNCHANGED m_fd
        /\ UNCHANGED <<m_ids, acceptVars, conn_queue, notify, armed,
                       m_Channels, obj, m_channelID, hungUp, sent, events,
                       appVars, sendVars>>

\* CloseSocket gives the id back ...
Release(r) ==
    /\ rx[r].pc = "release"
    /\ ReleaseID(m_channelID[rx[r].conn])
    /\ Goto(r, "report")
    /\ UNCHANGED <<acceptVars, conn_queue, notify, armed, m_Channels, connVars,
                   hungUp, sent, events, appVars, sendVars>>

\* What if CloseSocket did not tell the application?
Report_Silent(r) ==
    /\ rx[r].pc = "report"
    /\ Goto(r, "delete")
    /\ UNCHANGED <<m_ids, acceptVars, conn_queue, notify, armed, m_Channels,
                   connVars, hungUp, sent, events, appVars, sendVars>>

\* ... before it tells the application ...
Report(r) ==
    LET c == rx[r].conn
    IN  /\ rx[r].pc = "report"
        /\ events' = Append(events, Event("disconnected", m_channelID[c], c))
        /\ Goto(r, "delete")
        /\ UNCHANGED <<m_ids, acceptVars, conn_queue, notify, armed,
                       m_Channels, connVars, hungUp, sent, appVars, sendVars>>

\* ... and Close deletes the Channel ...
Delete(r) ==
    /\ rx[r].pc = "delete"
    /\ obj' = [obj EXCEPT ![rx[r].conn] = "freed"]
    /\ Goto(r, "clear")
    /\ UNCHANGED <<m_ids, acceptVars, conn_queue, notify, armed, m_Channels,
                   m_fd, m_channelID, hungUp, sent, events, appVars, sendVars>>

\* What if Close left the slot as it is?
ClearSlot_Not(r) ==
    /\ rx[r].pc = "clear"
    /\ Return(r)
    /\ UNCHANGED <<m_ids, acceptVars, conn_queue, notify, armed, m_Channels,
                   connVars, hungUp, sent, events, appVars, sendVars>>

\* ... and clears the slot, whoever is in it by now; m_channel_mtx is unlocked.
ClearSlot(r) ==
    /\ rx[r].pc = "clear"
    /\ m_Channels' = [m_Channels EXCEPT ![rx[r].id] = NoConn]
    /\ Return(r)
    /\ UNCHANGED <<m_ids, acceptVars, conn_queue, notify, armed, connVars,
                   hungUp, sent, events, appVars, sendVars>>
-----------------------------------------------------------------------------
\* The application's thread (VRHostController::HandleNetEventFromClient).

\* What if the application kept the clients that left?
HandleEvent_Keeps ==
    LET e == Head(events)
    IN  /\ reply = <<>>
        /\ events # <<>>
        /\ events' = Tail(events)
        /\ IF e.kind = "connected"
             THEN /\ players' = Append(players, [link |-> e.link, conn |-> e.conn])
                  /\ reply' = <<e.link>>
             ELSE UNCHANGED appVars
        /\ UNCHANGED <<m_ids, acceptVars, conn_queue, notify, rx, armed,
                       m_Channels, connVars, hungUp, sent, sendVars>>

\* The next event, once the reply to the last one is in the send queue.
HandleEvent ==
    LET e == Head(events)
    IN  /\ reply = <<>>
        /\ events # <<>>
        /\ events' = Tail(events)
        /\ \/ /\ e.kind = "connected"
              /\ players' = Append(players, [link |-> e.link, conn |-> e.conn])
              /\ reply' = <<e.link>>
           \/ /\ e.kind = "disconnected"
              /\ players' = RemoveFirstMatch(players, LAMBDA p : p.link = e.link)
              /\ UNCHANGED reply
           \/ /\ e.kind \in {"data", "exists"}
              /\ UNCHANGED appVars
        /\ UNCHANGED <<m_ids, acceptVars, conn_queue, notify, rx, armed,
                       m_Channels, connVars, hungUp, sent, sendVars>>

\* Send: m_pSendMsgQueue->put blocks while the queue is full.
Put ==
    /\ reply # <<>>
    /\ Len(m_pSendMsgQueue) < SendMax
    /\ m_pSendMsgQueue' = m_pSendMsgQueue \o reply
    /\ reply' = <<>>
    /\ UNCHANGED <<m_ids, acceptVars, conn_queue, notify, rx, armed,
                   m_Channels, connVars, hungUp, sent, events, players, tx>>
-----------------------------------------------------------------------------
\* sender_thread_task and DoSend, on sender s.

\* What if the message taken stayed in the queue?
TakeMsg_NoPop(s) ==
    /\ tx[s].pc = "poll"
    /\ m_pSendMsgQueue # <<>>
    /\ tx' = [tx EXCEPT ![s] =
                [pc |-> "lookup", link |-> Head(m_pSendMsgQueue), conn |-> NoConn]]
    /\ UNCHANGED <<m_ids, acceptVars, conn_queue, notify, rx, armed,
                   m_Channels, connVars, hungUp, sent, events, appVars,
                   m_pSendMsgQueue>>

TakeMsg(s) ==
    /\ tx[s].pc = "poll"
    /\ m_pSendMsgQueue # <<>>
    /\ m_pSendMsgQueue' = Tail(m_pSendMsgQueue)
    /\ tx' = [tx EXCEPT ![s] =
                [pc |-> "lookup", link |-> Head(m_pSendMsgQueue), conn |-> NoConn]]
    /\ UNCHANGED <<m_ids, acceptVars, conn_queue, notify, rx, armed,
                   m_Channels, connVars, hungUp, sent, events, appVars>>

\* DoSend of s finds c in the table, or drops the message
\* (send_target_not_exist) when there is none.
Found(s, c) ==
    /\ tx[s].pc = "lookup"
    /\ tx' = [tx EXCEPT ![s] =
                IF c = NoConn THEN Polling
                ELSE [@ EXCEPT !.pc = "sending", !.conn = c]]
    /\ UNCHANGED <<m_ids, acceptVars, conn_queue, notify, rx, armed,
                   m_Channels, connVars, hungUp, sent, events, appVars,
                   m_pSendMsgQueue>>

\* What if DoSend did not lock?
Lookup_Unlocked(s) == Found(s, m_Channels[tx[s].link])

\* DoSend: lock m_channel_mtx and look the Channel up.
Lookup(s) == ChannelMtxFree /\ Found(s, m_Channels[tx[s].link])

\* What if SendData used bufferevent_write?  It takes the lock of the
\* bufferevent, which a receiver holds while it is in a callback of it.
SendData_Bufferevent(s) ==
    /\ tx[s].pc = "sending"
    /\ \A r \in Receivers : rx[r].pc = "close" => rx[r].conn # tx[s].conn
    /\ tx' = [tx EXCEPT ![s] = Polling]
    /\ UNCHANGED <<m_ids, acceptVars, conn_queue, notify, rx, armed,
                   m_Channels, connVars, hungUp, sent, events, appVars,
                   m_pSendMsgQueue>>

\* Channel::SendData, on the socket and not on the bufferevent, whose lock the
\* receiver holds in its callbacks; m_channel_mtx is unlocked.
SendData(s) ==
    /\ tx[s].pc = "sending"
    /\ tx' = [tx EXCEPT ![s] = Polling]
    /\ UNCHANGED <<m_ids, acceptVars, conn_queue, notify, rx, armed,
                   m_Channels, connVars, hungUp, sent, events, appVars,
                   m_pSendMsgQueue>>
-----------------------------------------------------------------------------
\* A receiver goes on with the callback it is in.
Continue(r) ==
    \/ PopConn(r) \/ AllocID(r) \/ CheckSlot(r) \/ Install(r) \/ Announce(r)
    \/ Enable(r) \/ CloseChannel(r) \/ Release(r) \/ Report(r) \/ Delete(r)
    \/ ClearSlot(r)

Receiver(r) ==
    \/ NotifyCb(r)
    \/ Continue(r)
    \/ \E c \in Conns : ReadCb(r, c) \/ EventCb(r, c)

Sender(s) == TakeMsg(s) \/ Lookup(s) \/ SendData(s)

Next ==
    \/ \E c \in Conns : Accept(c) \/ HangUp(c)
    \/ Notify
    \/ \E r \in Receivers : Receiver(r)
    \/ HandleEvent \/ Put
    \/ \E s \in Senders : Sender(s)

Spec == Init /\ [][Next]_vars

\* Every loop runs for ever and every callback ends: a thread inside a handler
\* goes on, a receiver serves its notification socket and a hang-up that it
\* can see, the application and the senders loop.  The clients owe nothing.
\* A thread that wants m_channel_mtx gets it in the end if it becomes free
\* again and again (SF): its holders only run straight-line code.
Fairness ==
    /\ WF_vars(Notify)
    /\ \A r \in Receivers :
         /\ WF_vars(NotifyCb(r))
         /\ WF_vars(Continue(r))
         /\ SF_vars(CloseChannel(r))
         /\ \A c \in Conns : SF_vars(EventCb(r, c))
    /\ WF_vars(HandleEvent)
    /\ WF_vars(Put)
    /\ \A s \in Senders : WF_vars(TakeMsg(s) \/ SendData(s)) /\ SF_vars(Lookup(s))

FairSpec == Spec /\ Fairness
-----------------------------------------------------------------------------

\* Who has a link id that the pool gave out: a receiver between GetFreeID and
\* the new Channel, an open Channel, a receiver about to give it back.
HeldBy(k) == {c \in Conns : obj[c] = "live" /\ m_fd[c] = "open"
                              /\ m_channelID[c] = k}
CarriedBy(k) == {r \in Receivers : rx[r].pc \in {"check", "install", "release"}
                                     /\ rx[r].id = k}

\* No two clients ever share a link id, and no id in use is in the pool: the
\* id is all that the application and the send path know a client by.
LinkIdsUnique ==
    /\ IsInjective(m_ids)
    /\ \A k \in Ids :
         /\ k \in ToSet(m_ids) => HeldBy(k) = {} /\ CarriedBy(k) = {}
         /\ \A c, d \in HeldBy(k) : c = d
         /\ \A r, q \in CarriedBy(k) : r = q
         /\ HeldBy(k) = {} \/ CarriedBy(k) = {}

\* A receiver woken by a byte finds a connection: notify_cb never calls front()
\* on an empty queue, although byte and connection travel separately.
NotifiedQueueNotEmpty ==
    \A r \in Receivers :
        notify[r] + (IF rx[r].pc = "pop" THEN 1 ELSE 0) <= Len(conn_queue[r])

\* A sender only ever holds a Channel that is alive and whose socket is open,
\* though receivers write the table without m_channel_mtx.
SendsOnLiveChannel ==
    \A s \in Senders : tx[s].pc = "sending" =>
        obj[tx[s].conn] = "live" /\ m_fd[tx[s].conn] = "open"

\* libevent only calls back with a Channel that exists, and a hang-up closes
\* the connection it is about, though Close looks the Channel up by its id.
ClosesItsOwnChannel ==
    \A r \in Receivers :
        /\ \A c \in armed[r] : obj[c] = "live" /\ m_fd[c] = "open"
        /\ rx[r].pc = "close" => m_Channels[rx[r].id] \in {rx[r].conn, NoConn}

\* A client that is connected is in the table under its id, so that messages
\* to it reach it and its hang-up finds it.
ConnectedIsInTable ==
    \A r \in Receivers : \A c \in armed[r] : m_Channels[m_channelID[c]] = c

\* The application never has two clients with one link id: it looks its list
\* up by link id and takes the first.
OneClientPerLink ==
    \A a, b \in DOMAIN players : players[a].link = players[b].link => a = b

\* What a client sends is put down to that client: when its message comes up,
\* the application's entry for the link id is the connection that sent it.
DataFromOwnClient ==
    events # <<>> /\ Head(events).kind = "data" =>
        \E a \in DOMAIN players :
            /\ players[a] = [link |-> Head(events).link, conn |-> Head(events).conn]
            /\ \A b \in 1..(a - 1) : players[b].link # Head(events).link

\* A client that has been announced is reported as disconnected when it goes:
\* while its Channel lives, a receiver will hear of its end or is closing it.
DisconnectIsReported ==
    \A c \in Conns : obj[c] = "live" =>
        \E r \in Receivers : c \in armed[r] \/ rx[r].conn = c

\* CreateChannel never finds the id it was given in use.
FreshIdNotInUse == \A n \in DOMAIN events : events[n].kind # "exists"

\* Every client that is accepted is announced to the application or turned
\* away: no connection is forgotten in a receiver's queue.
EveryClientServed ==
    \A c \in Conns : m_fd[c] = "open" ~> (obj[c] # "none" \/ m_fd[c] = "closed")

\* Every hang-up of a client that is in the table is followed by its end, unless
\* another client of the same link id takes its place in the table (ghosts).
HangUpFreesLink ==
    \A c \in Conns :
        (/\ obj[c] = "live" /\ c \in hungUp
         /\ \E k \in Ids : m_Channels[k] = c)
            ~> (obj[c] = "freed" \/ \A k \in Ids : m_Channels[k] # c)

\* The application is not blocked in Send for ever by a full send queue.
SendReturns == reply # <<>> ~> reply = <<>>
=============================================================================
