-------------------------- MODULE VRHostControllerUI --------------------------
(***************************************************************************)
(* Starting and stopping the VR host controller from its dialog.  Four     *)
(* kinds of thread share what a start creates and a stop deletes:          *)
(*   the UI thread, with the handlers of the buttons and of the timer;     *)
(*   m_StartThread, which is in VRHostController::Run;                     *)
(*   the dispatch thread and the receivers of the NetEventServer, each in  *)
(*   a libevent loop that ends when event_break is set;                    *)
(*   the senders of the NetEventServer, which look at a flag.              *)
(* A use of something deleted is undefined: it is recorded in "misused",   *)
(* and from then on the process may crash at any time.  Clients, events    *)
(* and messages are only counted.                                          *)
(***************************************************************************)
EXTENDS Integers

CONSTANTS ThreadNum,  \* m_thread_num: receivers, and senders
          SendMax,    \* MAX_SEND_MSGQ_LEN
          MaxStarts,  \* bound on the clicks on the start button
          MaxEvents   \* bound on the connections and hang-ups after a start

ASSUME CountsAssumption ==
    /\ ThreadNum \in Nat \ {0} /\ SendMax \in Nat \ {0}
    /\ MaxStarts \in Nat /\ MaxEvents \in Nat

Receiver(i) == <<"receiver", i>>
Receivers == {Receiver(i) : i \in 1..ThreadNum}
Senders == {<<"sender", i>> : i \in 1..ThreadNum}
UI == <<"ui", 0>>
StartThread == <<"run", 0>>
Dispatch == <<"dispatch", 0>>
Loops == Receivers \union {Dispatch}
Threads == Loops \union Senders \union {UI, StartThread}

VARIABLES
    pc,                 \* where each thread is
    starts,             \* clicks on start
    pvrHostController,  \* "NULL", or what has become of the start
    deleted,            \* of the current start: "queue", "pool", "channels", "manager"
    freed,              \* receivers whose base is
    bStopFlag,
    m_bStopThread,
    next,               \* the receiver that Stop is at
    event_break,        \* of the loops' bases
    lostBreak,          \* loops that forgot one
    m_RCMgrMutex,       \* who holds it
    clients,            \* size of the RemoteClientManager
    events,             \* connections and hang-ups since the start
    m_pMsgQueueAB,      \* events pushed and not yet taken ...
    batch,              \* ... and those that Run has got with GetMsgQueue
    m_pSendMsgQueue,    \* messages in it
    misused             \* uses of what was deleted, <<thread, object>>

stopVars == <<starts, pvrHostController, deleted, freed, bStopFlag, m_bStopThread, next>>
breakVars == <<event_break, lostBreak>>
managerVars == <<m_RCMgrMutex, clients>>
queueVars == <<events, m_pMsgQueueAB, batch, m_pSendMsgQueue>>
vars == <<pc, stopVars, breakVars, managerVars, queueVars, misused>>

Init ==
    /\ pc = [t \in Threads |-> IF t = UI THEN "idle" ELSE "none"]
    /\ starts = 0 /\ pvrHostController = "NULL" /\ deleted = {} /\ freed = {}
    /\ bStopFlag = FALSE /\ m_bStopThread = FALSE /\ next = 1
    /\ event_break = {} /\ lostBreak = {}
    /\ m_RCMgrMutex = "free" /\ clients = 0
    /\ events = 0 /\ m_pMsgQueueAB = 0 /\ batch = 0 /\ m_pSendMsgQueue = 0
    /\ misused = {}

Step(t, from, to) == pc[t] = from /\ pc' = [pc EXCEPT ![t] = to]
Uses(t, objects) == misused' = misused \union {<<t, o>> : o \in objects \intersect deleted}
UsesBase(t, objects) ==
    misused' = misused \union {<<t, o>> : o \in objects \intersect deleted}
                       \union {<<u, "base">> : u \in {t} \intersect freed}
-----------------------------------------------------------------------------
(* The dialog: OnBnClickedBtnStart, OnTimer                                *)

\* new VRHostController; then ReadConfigFile, CreateUserSeatMap or Start fails
\* ("failed", and m_pClientMgr is NULL), or CreateVRClientManager does ("no
\* manager"), or all is well.  Where Start succeeds all its threads are created,
\* and a stop will be possible.  (Those that a failing Start leaves behind use
\* nothing that anybody deletes.)
OnBnClickedBtnStart(outcome) ==
    /\ pc[UI] = "idle" /\ pvrHostController \in {"NULL", "failed"}
    /\ starts < MaxStarts /\ starts' = starts + 1
    /\ pvrHostController' = outcome
    /\ pc' = [t \in Threads |->
                IF t = UI THEN "idle"
                ELSE IF outcome = "failed" \/ (t = StartThread /\ outcome = "no manager")
                     THEN "none"
                ELSE IF t \in Loops THEN "created" ELSE "running"]
    /\ deleted' = {} /\ freed' = {}
    /\ bStopFlag' = FALSE /\ m_bStopThread' = FALSE /\ next' = 1
    /\ event_break' = {} /\ lostBreak' = {} /\ clients' = 0
    /\ events' = 0 /\ m_pMsgQueueAB' = 0 /\ batch' = 0 /\ m_pSendMsgQueue' = 0
    /\ UNCHANGED <<m_RCMgrMutex, misused>>

\* A controller without a manager: its mutex is at a null pointer.
TimerNoManager ==
    /\ pvrHostController \in {"failed", "no manager"}
    /\ Step(UI, "idle", "crashed")
    /\ UNCHANGED <<stopVars, breakVars, managerVars, queueVars, misused>>

\* RefreshVRHostList goes through the clients while it holds the mutex.
RefreshVRHostList ==
    /\ pvrHostController = "running" /\ m_RCMgrMutex = "free"
    /\ Step(UI, "idle", "list")
    /\ m_RCMgrMutex' = "ui"
    /\ Uses(UI, {"manager"})
    /\ UNCHANGED <<stopVars, breakVars, clients, queueVars>>

RefreshReturns ==
    /\ Step(UI, "list", "idle")
    /\ m_RCMgrMutex' = "free"
    /\ UNCHANGED <<stopVars, breakVars, clients, queueVars, misused>>
-----------------------------------------------------------------------------
(* VRHostController::Run                                                   *)

\* Once the batch is handled: the flag, then GetMsgQueue.
RunCheck ==
    /\ batch = 0 /\ Step(StartThread, "running", IF bStopFlag THEN "ended" ELSE "running")
    /\ IF bStopFlag THEN UNCHANGED <<m_pMsgQueueAB, batch, misused>>
       ELSE /\ batch' = m_pMsgQueueAB /\ m_pMsgQueueAB' = 0
            /\ Uses(StartThread, {"queue"})
    /\ UNCHANGED <<stopVars, breakVars, managerVars, events, m_pSendMsgQueue>>

\* AddRemoteClient, for link_connected.
AddRemoteClient ==
    /\ batch > 0 /\ m_RCMgrMutex = "free"
    /\ Step(StartThread, "running", "send")
    /\ clients' = clients + 1
    /\ Uses(StartThread, {"manager"})
    /\ UNCHANGED <<stopVars, breakVars, m_RCMgrMutex, queueVars>>

\* SendCmd waits for room in the queue.
SendCmd ==
    /\ m_pSendMsgQueue < SendMax /\ m_pSendMsgQueue' = m_pSendMsgQueue + 1
    /\ Step(StartThread, "send", "log")
    /\ UNCHANGED <<stopVars, breakVars, managerVars, events, m_pMsgQueueAB, batch, misused>>

\* The message is told to the UI thread, and the event is done.
EventLogged ==
    /\ Step(StartThread, "log", "running")
    /\ batch' = batch - 1
    /\ UNCHANGED <<stopVars, breakVars, managerVars, events, m_pMsgQueueAB,
                   m_pSendMsgQueue, misused>>

\* What if SendUserConnectMsg waited for its handler, as SendMessage does?
SendLogMsg_SendMessage == pc[UI] = "idle" /\ EventLogged

\* SendLogMsg posts the message: it does not wait for the UI thread.
SendLogMsg == EventLogged

\* What DeleteRemoteClient does to the list.
EraseClient ==
    /\ batch > 0 /\ clients > 0
    /\ Step(StartThread, "running", "running")
    /\ clients' = clients - 1 /\ batch' = batch - 1
    /\ Uses(StartThread, {"manager"})
    /\ UNCHANGED <<stopVars, breakVars, m_RCMgrMutex, events, m_pMsgQueueAB, m_pSendMsgQueue>>

\* DeleteRemoteClient, for link_disconnected, does it under the mutex.
DeleteRemoteClient == m_RCMgrMutex = "free" /\ EraseClient

Run == RunCheck \/ AddRemoteClient \/ SendCmd \/ SendLogMsg \/ DeleteRemoteClient
-----------------------------------------------------------------------------
(* The loops of events and the senders                                     *)

\* event_base_loop forgets a break that came before it began.
EnterLoop(t) ==
    /\ Step(t, "created", "loop")
    /\ event_break' = event_break \ {t}
    /\ lostBreak' = lostBreak \union ({t} \intersect event_break)
    /\ UsesBase(t, {})
    /\ UNCHANGED <<stopVars, managerVars, queueVars>>

LeaveLoop(t) ==
    /\ t \in event_break /\ Step(t, "loop", "ended")
    /\ UsesBase(t, {})
    /\ UNCHANGED <<stopVars, breakVars, managerVars, queueVars>>

\* The callback of a receiver takes a link id or gives it back, and sets or
\* clears a channel ...
Callback(t) ==
    /\ t \notin event_break /\ events < MaxEvents
    /\ Step(t, "loop", "callback")
    /\ events' = events + 1
    /\ UsesBase(t, {"pool", "channels"})
    /\ UNCHANGED <<stopVars, breakVars, managerVars, m_pMsgQueueAB, batch, m_pSendMsgQueue>>

\* ... and tells the application.
CallbackPushes(t) ==
    /\ Step(t, "callback", "loop")
    /\ m_pMsgQueueAB' = m_pMsgQueueAB + 1
    /\ UsesBase(t, {"queue"})
    /\ UNCHANGED <<stopVars, breakVars, managerVars, events, batch, m_pSendMsgQueue>>

EventLoop(t) ==
    EnterLoop(t) \/ LeaveLoop(t) \/ (t \in Receivers /\ (Callback(t) \/ CallbackPushes(t)))

\* sender_thread_task: the flag; a message, if there is one; DoSend.
SenderEnds(t) ==
    /\ m_bStopThread /\ Step(t, "running", "ended")
    /\ UNCHANGED <<stopVars, breakVars, managerVars, queueVars, misused>>

SenderGet(t) ==
    /\ ~m_bStopThread /\ m_pSendMsgQueue > 0 /\ m_pSendMsgQueue' = m_pSendMsgQueue - 1
    /\ Step(t, "running", "send")
    /\ UNCHANGED <<stopVars, breakVars, managerVars, events, m_pMsgQueueAB, batch, misused>>

DoSend(t) ==
    /\ Step(t, "send", "running")
    /\ Uses(t, {"channels"})
    /\ UNCHANGED <<stopVars, breakVars, managerVars, queueVars>>

Sender(t) == SenderEnds(t) \/ SenderGet(t) \/ DoSend(t)
-----------------------------------------------------------------------------
(* OnBnClickedBtnStop, ~VRHostController and NetEventServer::Stop, from    *)
(* one wait to the next                                                    *)

Ended(threads) == \A t \in threads : pc[t] = "ended"
Rest == UNCHANGED <<starts, lostBreak, managerVars, queueVars, misused>>

\* SetStopFlag.  There may be no thread to join.
OnBnClickedBtnStop ==
    /\ pvrHostController \in {"no manager", "running"}
    /\ Step(UI, "idle", IF pc[StartThread] = "none" THEN "crashed" ELSE "join run")
    /\ bStopFlag' = TRUE
    /\ Rest /\ UNCHANGED <<pvrHostController, deleted, freed, m_bStopThread, next, event_break>>

\* event_base_loopbreak(m_base).
BreakDispatch ==
    /\ Step(UI, "join run", "join dispatch")
    /\ event_break' = event_break \union {Dispatch}
    /\ Rest /\ UNCHANGED <<pvrHostController, deleted, freed, bStopFlag, m_bStopThread, next>>

\* m_StartThread->join() comes first.
JoinRun == Ended({StartThread}) /\ BreakDispatch

\* m_dispatchThread->join(); the event queue and the pool go; the first receiver.
JoinDispatch ==
    /\ Ended({Dispatch})
    /\ Step(UI, "join dispatch", "free base")
    /\ deleted' = deleted \union {"queue", "pool"}
    /\ event_break' = event_break \union {Receiver(next)}
    /\ Rest /\ UNCHANGED <<pvrHostController, freed, bStopFlag, m_bStopThread, next>>

\* The base of a receiver is freed as soon as it is told to end ...
FreeBase ==
    /\ Step(UI, "free base", "join receiver")
    /\ freed' = freed \union {Receiver(next)}
    /\ Rest /\ UNCHANGED <<pvrHostController, deleted, bStopFlag, m_bStopThread, next, event_break>>

\* ... and then it is joined; the next one, or the flag of the senders.
JoinReceiver ==
    /\ Step(UI, "join receiver", IF next < ThreadNum THEN "free base" ELSE "join senders")
    /\ Ended({Receiver(next)})
    /\ next' = next + 1
    /\ event_break' = event_break \union ({Receiver(next + 1)} \intersect Receivers)
    /\ m_bStopThread' = (next = ThreadNum)
    /\ Rest /\ UNCHANGED <<pvrHostController, deleted, freed, bStopFlag>>

\* The channels, the manager and the controller are deleted.
DeleteController ==
    /\ Step(UI, "join senders", "idle")
    /\ deleted' = deleted \union {"channels", "manager"}
    /\ pvrHostController' = "NULL"
    /\ Rest /\ UNCHANGED <<freed, bStopFlag, m_bStopThread, next, event_break>>

\* The senders are joined first.
JoinSenders == Ended(Senders) /\ DeleteController

Stop == JoinRun \/ JoinDispatch \/ FreeBase \/ JoinReceiver \/ JoinSenders
-----------------------------------------------------------------------------

\* What comes of using what was deleted.
Crash ==
    /\ misused # {} /\ pc[UI] # "crashed" /\ pc' = [pc EXCEPT ![UI] = "crashed"]
    /\ UNCHANGED <<stopVars, breakVars, managerVars, queueVars, misused>>

Next ==
    \/ \E outcome \in {"failed", "no manager", "running"} : OnBnClickedBtnStart(outcome)
    \/ TimerNoManager \/ RefreshVRHostList \/ RefreshReturns
    \/ OnBnClickedBtnStop \/ Stop \/ Run \/ Crash
    \/ \E t \in Loops : EventLoop(t)
    \/ \E t \in Senders : Sender(t)

Spec == Init /\ [][Next]_vars

\* Every thread runs; nobody has to click, and no client has to connect.
FairSpec ==
    /\ Spec
    /\ WF_vars(Stop) /\ WF_vars(RefreshReturns) /\ WF_vars(Run)
    /\ \A t \in Loops : WF_vars(EventLoop(t))
    /\ \A t \in Senders : WF_vars(Sender(t))
-----------------------------------------------------------------------------

\* Whenever the stop button is clicked, what it deletes is no longer used, but by
\* the receivers: they go on with the event queue, the pool of link ids and
\* their bases, for which Stop does not wait.
OnlyReceiversUseDeleted == misused \subseteq Receivers \X {"queue", "pool", "base"}

\* The list of hosts in the dialog is that of one moment: no client comes, and
\* none is deleted, while the timer goes through them.
ListIsOfOneMoment == [][pc[UI] = "list" => UNCHANGED clients]_vars

\* The stop button works, whatever Run, the senders and the receivers are doing,
\* unless a loop that was just starting forgot that it should end, or a
\* receiver used what was deleted.
StopReturns ==
    pc[UI] = "join run" ~> pc[UI] = "idle" \/ lostBreak # {} \/ misused # {}
=============================================================================
