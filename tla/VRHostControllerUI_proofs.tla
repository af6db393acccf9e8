----------------------- MODULE VRHostControllerUI_proofs -----------------------
(***************************************************************************)
(* For any number of threads: what Stop deletes is used by no thread but   *)
(* the receivers.  The argument follows Stop: whatever is deleted, Run has *)
(* ended (Deletion); the channels and the manager go last, once all other  *)
(* threads have ended; and where Stop is tells which these are (Progress). *)
(* And the timer's list is of one moment: it holds the mutex (below).      *)
(***************************************************************************)
EXTENDS VRHostControllerUI, TLAPS

Stopping == {"join dispatch", "free base", "join receiver", "join senders"}

Places ==
    {"idle", "list", "crashed", "join run", "none", "created", "loop", "callback",
     "running", "send", "log", "ended"} \union Stopping

Types ==
    /\ pc \in [Threads -> Places]
    /\ next \in 1..(ThreadNum + 1)
    /\ freed \subseteq Receivers

\* What a stop that has got so far has waited for.
Progress ==
    /\ pc[UI] \in Stopping => pc[StartThread] = "ended" /\ pvrHostController # "NULL"
    /\ pc[UI] \in {"join run", "join dispatch"} => next = 1 /\ pvrHostController # "NULL"
    /\ pc[UI] \in {"free base", "join receiver"} => next <= ThreadNum
    /\ pc[UI] = "join senders" => next = ThreadNum + 1
    /\ pc[UI] \in {"idle", "list"} /\ pvrHostController # "NULL" => next = 1
    /\ \A i \in 1..ThreadNum : i < next => pc[Receiver(i)] = "ended"

\* What may be deleted while somebody could use it.
Deletion ==
    /\ deleted # {} => pc[StartThread] = "ended"
    /\ "channels" \in deleted \/ "manager" \in deleted =>
         /\ pvrHostController = "NULL"
         /\ \A t \in Receivers \union Senders : pc[t] = "ended"

IInv == Types /\ Progress /\ Deletion /\ OnlyReceiversUseDeleted
-----------------------------------------------------------------------------
LEMMA ThreadKinds ==
    /\ UI \in Threads /\ StartThread \in Threads /\ UI # StartThread
    /\ Dispatch \notin Receivers
    /\ \A t \in Loops \union Senders : t \in Threads /\ t # UI /\ t # StartThread
    /\ Receivers \subseteq Loops
    /\ \A i \in 1..ThreadNum : Receiver(i) \in Receivers
    /\ \A t \in Receivers : \E i \in 1..ThreadNum : t = Receiver(i)
  BY DEF UI, StartThread, Dispatch, Threads, Loops, Senders, Receivers, Receiver

LEMMA ThreadNumPositive == ThreadNum \in Nat /\ 1 <= ThreadNum
  BY CountsAssumption

\* A step of a thread that has not ended, other than the UI thread's.
LEMMA ThreadStep ==
    ASSUME IInv, NEW t \in Threads \ {UI}, NEW from \in Places \ {"ended"}, NEW to \in Places,
           Step(t, from, to), UNCHANGED <<deleted, freed, pvrHostController, next>>
    PROVE  Types' /\ Progress' /\ Deletion'
<1>1. /\ pc \in [Threads -> Places] /\ pc[t] # "ended"
      /\ pc' = [pc EXCEPT ![t] = to]
  BY DEF Step, IInv, Types
<1>2. pc' \in [Threads -> Places] /\ pc'[UI] = pc[UI]
  BY <1>1, ThreadKinds
<1>3. ASSUME NEW u \in Threads, pc[u] = "ended" PROVE pc'[u] = "ended"
  BY <1>1, <1>3
<1>4. Types'
  BY <1>2 DEF IInv, Types
<1>5. \A i \in 1..ThreadNum : Receiver(i) \in Threads
  BY ThreadKinds
<1>6. Progress'
  BY <1>2, <1>3, <1>5, ThreadKinds DEF IInv, Progress, Stopping
<1>7. Deletion'
  BY <1>3, ThreadKinds DEF IInv, Deletion
<1> QED BY <1>4, <1>6, <1>7

\* The same for the UI thread, where it stays outside of a stop.
LEMMA DialogStep ==
    ASSUME IInv, NEW from \in Places, NEW to \in {"idle", "list", "crashed"},
           from \in {"idle", "list"} \/ to = "crashed",
           pc[UI] = from, pc' = [pc EXCEPT ![UI] = to],
           UNCHANGED <<deleted, freed, pvrHostController, next>>
    PROVE  Types' /\ Progress' /\ Deletion'
<1>1. /\ pc \in [Threads -> Places]
      /\ pc' \in [Threads -> Places] /\ pc'[UI] = to
      /\ \A u \in Threads \ {UI} : pc'[u] = pc[u]
  BY ThreadKinds DEF IInv, Types, Places, Stopping
<1>2. Types'
  BY <1>1 DEF IInv, Types
<1>3. \A i \in 1..ThreadNum : Receiver(i) \in Threads \ {UI}
  BY ThreadKinds
<1>4. Progress'
  BY <1>1, <1>3, ThreadKinds DEF IInv, Progress, Stopping
<1>5. Deletion'
  BY <1>1, ThreadKinds DEF IInv, Deletion
<1> QED BY <1>2, <1>4, <1>5
-----------------------------------------------------------------------------
LEMMA InitInv == Init => IInv
<1> SUFFICES ASSUME Init PROVE IInv
  OBVIOUS
<1>1. pc[UI] = "idle" /\ pc[StartThread] = "none" /\ pc \in [Threads -> Places]
  BY ThreadKinds DEF Init, Places
<1>2. Types
  BY <1>1, CountsAssumption DEF Init, Types
<1>3. Progress
  <2>1. next = 1 /\ pvrHostController = "NULL" /\ \A i \in 1..ThreadNum : ~(i < next)
    BY CountsAssumption DEF Init
  <2> QED BY <1>1, <2>1 DEF Progress, Stopping
<1>4. Deletion /\ OnlyReceiversUseDeleted
  BY DEF Init, Deletion, OnlyReceiversUseDeleted
<1> QED BY <1>2, <1>3, <1>4 DEF IInv

LEMMA StartInv ==
    ASSUME IInv, NEW outcome, OnBnClickedBtnStart(outcome)
    PROVE  IInv'
<1>1. /\ pc' \in [Threads -> Places] /\ pc'[UI] = "idle"
  BY ThreadKinds DEF OnBnClickedBtnStart, Places
<1>2. next' = 1 /\ freed' = {}
  BY DEF OnBnClickedBtnStart
<1>3. 1 \in 1..(ThreadNum + 1)
  BY ThreadNumPositive
<1>4. Types' /\ Progress'
  <2>1. \A i \in 1..ThreadNum : ~(i < next')
    BY <1>2
  <2> QED BY <1>1, <1>2, <1>3, <2>1 DEF Types, Progress, Stopping
<1>5. Deletion' /\ OnlyReceiversUseDeleted'
  BY DEF OnBnClickedBtnStart, IInv, Deletion, OnlyReceiversUseDeleted
<1> QED BY <1>4, <1>5 DEF IInv

LEMMA DialogInv ==
    ASSUME IInv, TimerNoManager \/ RefreshVRHostList \/ RefreshReturns \/ Crash
    PROVE  IInv'
<1>1. CASE TimerNoManager
  <2>1. Types' /\ Progress' /\ Deletion'
    BY <1>1, DialogStep DEF Places, TimerNoManager, Step, stopVars
  <2> QED BY <1>1, <2>1 DEF TimerNoManager, IInv, OnlyReceiversUseDeleted
<1>2. CASE RefreshVRHostList
  <2>1. Types' /\ Progress' /\ Deletion'
    BY <1>2, DialogStep DEF Places, RefreshVRHostList, Step, stopVars
  <2>2. {"manager"} \intersect deleted = {}
    BY <1>2 DEF RefreshVRHostList, IInv, Deletion
  <2>3. misused' = misused
    BY <1>2, <2>2 DEF RefreshVRHostList, Uses
  <2> QED BY <2>1, <2>3 DEF IInv, OnlyReceiversUseDeleted
<1>3. CASE RefreshReturns
  <2>1. Types' /\ Progress' /\ Deletion'
    BY <1>3, DialogStep DEF Places, RefreshReturns, Step, stopVars
  <2> QED BY <1>3, <2>1 DEF RefreshReturns, IInv, OnlyReceiversUseDeleted
<1>4. CASE Crash
  <2>1. pc[UI] \in Places
    BY ThreadKinds DEF IInv, Types
  <2>2. Types' /\ Progress' /\ Deletion'
    BY <1>4, <2>1, DialogStep DEF Places, Crash, stopVars
  <2> QED BY <1>4, <2>2 DEF Crash, IInv, OnlyReceiversUseDeleted
<1> QED BY <1>1, <1>2, <1>3, <1>4

\* Run has not ended, so that nothing is deleted yet.
LEMMA RunInv ==
    ASSUME IInv, Run
    PROVE  IInv'
<1>1. PICK from \in Places \ {"ended"}, to \in Places : Step(StartThread, from, to)
  <2>1. CASE RunCheck
    BY <2>1 DEF RunCheck, Places
  <2>2. CASE AddRemoteClient
    BY <2>2 DEF AddRemoteClient, Places
  <2>3. CASE SendCmd
    BY <2>3 DEF SendCmd, Places
  <2>4. CASE SendLogMsg
    BY <2>4 DEF SendLogMsg, EventLogged, Places
  <2>5. CASE DeleteRemoteClient
    BY <2>5 DEF DeleteRemoteClient, EraseClient, Places
  <2> QED BY <2>1, <2>2, <2>3, <2>4, <2>5 DEF Run
<1>2. UNCHANGED <<deleted, freed, pvrHostController, next>>
  BY DEF Run, RunCheck, AddRemoteClient, SendCmd, SendLogMsg, EventLogged,
         DeleteRemoteClient, EraseClient, stopVars
<1>3. Types' /\ Progress' /\ Deletion'
  BY <1>1, <1>2, ThreadStep, ThreadKinds
<1>4. deleted = {}
  BY <1>1 DEF Step, IInv, Deletion
<1>5. misused' = misused
  BY <1>4 DEF Run, RunCheck, AddRemoteClient, SendCmd, SendLogMsg, EventLogged,
              DeleteRemoteClient, EraseClient, Uses
<1> QED BY <1>3, <1>5 DEF IInv, OnlyReceiversUseDeleted

\* A receiver in its loop has not ended, so that the channels are still there.
LEMMA EventLoopInv ==
    ASSUME IInv, NEW t \in Loops, EventLoop(t)
    PROVE  IInv'
<1>1. PICK from \in Places \ {"ended"}, to \in Places : Step(t, from, to)
  BY DEF EventLoop, EnterLoop, LeaveLoop, Callback, CallbackPushes, Places
<1>2. UNCHANGED <<deleted, freed, pvrHostController, next>>
  BY DEF EventLoop, EnterLoop, LeaveLoop, Callback, CallbackPushes, stopVars
<1>3. Types' /\ Progress' /\ Deletion'
  BY <1>1, <1>2, ThreadStep, ThreadKinds
<1>4. PICK objects \in SUBSET {"pool", "channels", "queue"} :
        /\ UsesBase(t, objects)
        /\ objects # {} => t \in Receivers
  BY DEF EventLoop, EnterLoop, LeaveLoop, Callback, CallbackPushes
<1>5. t \in Receivers => "channels" \notin deleted
  BY <1>1 DEF Step, IInv, Deletion
<1> QED BY <1>3, <1>4, <1>5 DEF Types, UsesBase, IInv, OnlyReceiversUseDeleted

LEMMA SenderInv ==
    ASSUME IInv, NEW t \in Senders, Sender(t)
    PROVE  IInv'
<1>1. PICK from \in Places \ {"ended"}, to \in Places : Step(t, from, to)
  BY DEF Sender, SenderEnds, SenderGet, DoSend, Places
<1>2. UNCHANGED <<deleted, freed, pvrHostController, next>>
  BY DEF Sender, SenderEnds, SenderGet, DoSend, stopVars
<1>3. Types' /\ Progress' /\ Deletion'
  BY <1>1, <1>2, ThreadStep, ThreadKinds
<1>4. "channels" \notin deleted
  BY <1>1 DEF Step, IInv, Deletion
<1>5. misused' = misused
  BY <1>4 DEF Sender, SenderEnds, SenderGet, DoSend, Uses
<1> QED BY <1>3, <1>5 DEF IInv, OnlyReceiversUseDeleted
-----------------------------------------------------------------------------
\* A step of the UI thread in a stop moves no other thread.
LEMMA StopStep ==
    ASSUME IInv, NEW from \in Places, NEW to \in Places, Step(UI, from, to)
    PROVE  /\ pc' \in [Threads -> Places] /\ pc[UI] = from /\ pc'[UI] = to
           /\ \A u \in Threads \ {UI} : pc'[u] = pc[u]
  BY ThreadKinds DEF Step, IInv, Types

LEMMA StopInv ==
    ASSUME IInv, OnBnClickedBtnStop \/ Stop
    PROVE  IInv'
<1>1. misused' = misused
  BY DEF OnBnClickedBtnStop, Stop, JoinRun, BreakDispatch, JoinDispatch, FreeBase,
         JoinReceiver, JoinSenders, DeleteController, Rest
<1>2. \A i \in 1..ThreadNum : Receiver(i) \in Threads \ {UI}
  BY ThreadKinds
<1>3. next \in 1..(ThreadNum + 1) /\ ThreadNum \in Nat /\ 1 <= ThreadNum
  BY ThreadNumPositive DEF IInv, Types
<1>4. CASE OnBnClickedBtnStop
  <2>1. PICK to \in {"crashed", "join run"} : Step(UI, "idle", to)
    BY <1>4 DEF OnBnClickedBtnStop
  <2>2. /\ UNCHANGED <<pvrHostController, deleted, freed, next>>
        /\ pvrHostController # "NULL"
    BY <1>4 DEF OnBnClickedBtnStop
  <2>3. /\ pc' \in [Threads -> Places] /\ pc[UI] = "idle" /\ pc'[UI] = to
        /\ \A u \in Threads \ {UI} : pc'[u] = pc[u]
    BY <2>1, StopStep DEF Places
  <2>4. Types' /\ Progress'
    BY <1>2, <2>2, <2>3, ThreadKinds DEF IInv, Types, Progress, Stopping
  <2>5. Deletion'
    BY <2>2, <2>3, ThreadKinds DEF IInv, Deletion
  <2> QED BY <1>1, <2>4, <2>5 DEF IInv, OnlyReceiversUseDeleted
<1>5. CASE JoinRun
  <2>1. /\ pc' \in [Threads -> Places] /\ pc[UI] = "join run" /\ pc'[UI] = "join dispatch"
        /\ \A u \in Threads \ {UI} : pc'[u] = pc[u]
    BY <1>5, StopStep DEF JoinRun, BreakDispatch, Places, Stopping
  <2>2. /\ UNCHANGED <<pvrHostController, deleted, freed, next>>
        /\ pc[StartThread] = "ended"
    BY <1>5 DEF JoinRun, BreakDispatch, Ended
  <2>3. Types' /\ Progress'
    BY <1>2, <2>1, <2>2, ThreadKinds DEF IInv, Types, Progress, Stopping
  <2>4. Deletion'
    BY <2>1, <2>2, ThreadKinds DEF IInv, Deletion
  <2> QED BY <1>1, <2>3, <2>4 DEF IInv, OnlyReceiversUseDeleted
<1>6. CASE JoinDispatch
  <2>1. /\ pc' \in [Threads -> Places] /\ pc[UI] = "join dispatch" /\ pc'[UI] = "free base"
        /\ \A u \in Threads \ {UI} : pc'[u] = pc[u]
    BY <1>6, StopStep DEF JoinDispatch, Places, Stopping
  <2>2. /\ UNCHANGED <<pvrHostController, freed, next>>
        /\ deleted' = deleted \union {"queue", "pool"}
    BY <1>6 DEF JoinDispatch
  <2>3. Types'
    BY <2>1, <2>2 DEF IInv, Types
  <2>4. next = 1 /\ 1 <= ThreadNum
    BY <1>3, <2>1 DEF IInv, Progress
  <2>5. Progress'
    BY <1>2, <2>1, <2>2, <2>4, ThreadKinds DEF IInv, Progress, Stopping
  <2>6. Deletion'
    BY <2>1, <2>2, ThreadKinds DEF IInv, Deletion, Progress, Stopping
  <2> QED BY <1>1, <2>3, <2>5, <2>6 DEF IInv, OnlyReceiversUseDeleted
<1>7. CASE FreeBase
  <2>1. /\ pc' \in [Threads -> Places] /\ pc[UI] = "free base" /\ pc'[UI] = "join receiver"
        /\ \A u \in Threads \ {UI} : pc'[u] = pc[u]
    BY <1>7, StopStep DEF FreeBase, Places, Stopping
  <2>2. /\ UNCHANGED <<pvrHostController, deleted, next>>
        /\ freed' = freed \union {Receiver(next)}
    BY <1>7 DEF FreeBase
  <2>3. Receiver(next) \in Receivers
    <3>1. next <= ThreadNum
      BY <2>1 DEF IInv, Progress
    <3>2. next \in 1..ThreadNum
      BY <1>3, <3>1
    <3> QED BY <3>2, ThreadKinds
  <2>4. Types' /\ Progress'
    BY <1>2, <2>1, <2>2, <2>3, ThreadKinds DEF IInv, Types, Progress, Stopping
  <2>5. Deletion'
    BY <2>1, <2>2, ThreadKinds DEF IInv, Deletion
  <2> QED BY <1>1, <2>4, <2>5 DEF IInv, OnlyReceiversUseDeleted
<1>8. CASE JoinReceiver
  <2> DEFINE to == IF next < ThreadNum THEN "free base" ELSE "join senders"
  <2>1. /\ pc' \in [Threads -> Places] /\ pc[UI] = "join receiver" /\ pc'[UI] = to
        /\ \A u \in Threads \ {UI} : pc'[u] = pc[u]
    BY <1>8, StopStep DEF JoinReceiver, Places, Stopping
  <2>2. /\ UNCHANGED <<pvrHostController, deleted, freed>>
        /\ next' = next + 1 /\ pc[Receiver(next)] = "ended"
    BY <1>8 DEF JoinReceiver, Ended
  <2>3. next <= ThreadNum
    BY <2>1 DEF IInv, Progress
  <2>4. \A i \in 1..ThreadNum : i < next' => pc'[Receiver(i)] = "ended"
    <3> TAKE i \in 1..ThreadNum
    <3>1. CASE i < next
      BY <1>2, <2>1, <3>1 DEF IInv, Progress
    <3>2. CASE i = next
      BY <1>2, <2>1, <2>2, <3>2
    <3> QED BY <1>3, <2>2, <3>1, <3>2
  <2>5. Types'
    <3>1. next + 1 \in 1..(ThreadNum + 1)
      BY <1>3, <2>3
    <3> QED BY <2>1, <2>2, <3>1 DEF IInv, Types
  <2>6. /\ next < ThreadNum => next' <= ThreadNum
        /\ ~(next < ThreadNum) => next' = ThreadNum + 1
    BY <1>3, <2>2, <2>3
  <2>7. pc[StartThread] = "ended" /\ pvrHostController # "NULL"
    BY <2>1 DEF IInv, Progress, Stopping
  <2>8. Progress'
    BY <2>1, <2>2, <2>4, <2>6, <2>7, ThreadKinds DEF Progress, Stopping
  <2>9. Deletion'
    BY <2>1, <2>2, ThreadKinds DEF IInv, Deletion
  <2> QED BY <1>1, <2>5, <2>8, <2>9 DEF IInv, OnlyReceiversUseDeleted
<1>9. CASE JoinSenders
  <2>1. /\ pc' \in [Threads -> Places] /\ pc[UI] = "join senders" /\ pc'[UI] = "idle"
        /\ \A u \in Threads \ {UI} : pc'[u] = pc[u]
    BY <1>9, StopStep DEF JoinSenders, DeleteController, Places, Stopping
  <2>2. /\ UNCHANGED <<freed, next>> /\ pvrHostController' = "NULL"
        /\ deleted' = deleted \union {"channels", "manager"}
        /\ \A t \in Senders : pc[t] = "ended"
    BY <1>9 DEF JoinSenders, DeleteController, Ended
  <2>3. Types' /\ Progress'
    BY <1>2, <2>1, <2>2, ThreadKinds DEF IInv, Types, Progress, Stopping
  <2>4. next = ThreadNum + 1
    BY <2>1 DEF IInv, Progress
  <2>5. \A i \in 1..ThreadNum : i < next
    BY <1>3, <2>4
  <2>6. \A i \in 1..ThreadNum : pc[Receiver(i)] = "ended"
    BY <2>5 DEF IInv, Progress
  <2>7. \A t \in Receivers : pc[t] = "ended"
    BY <2>6, ThreadKinds
  <2>8. pc[StartThread] = "ended"
    BY <2>1 DEF IInv, Progress, Stopping
  <2>9. Deletion'
    BY <2>1, <2>2, <2>7, <2>8, ThreadKinds DEF Deletion
  <2> QED BY <1>1, <2>3, <2>9 DEF IInv, OnlyReceiversUseDeleted
<1> QED BY <1>4, <1>5, <1>6, <1>7, <1>8, <1>9 DEF Stop

LEMMA NextInv == IInv /\ [Next]_vars => IInv'
<1> SUFFICES ASSUME IInv, [Next]_vars PROVE IInv'
  OBVIOUS
<1>1. CASE UNCHANGED vars
  BY <1>1 DEF vars, stopVars, breakVars, managerVars, queueVars, IInv, Types, Progress,
              Deletion, OnlyReceiversUseDeleted
<1> QED BY <1>1, StartInv, DialogInv, RunInv, EventLoopInv, SenderInv, StopInv DEF Next

\* However many threads the server has, and however often it is started and
\* stopped: what a stop deletes is used by no thread but the receivers, which use
\* no more of it than the event queue, the pool of link ids and their bases.
THEOREM StopWaits == Spec => []OnlyReceiversUseDeleted
<1>1. Init => IInv
  BY InitInv
<1>2. IInv /\ [Next]_vars => IInv'
  BY NextInv
<1>3. IInv => OnlyReceiversUseDeleted
  BY DEF IInv
<1> QED BY <1>1, <1>2, <1>3, PTL DEF Spec
-----------------------------------------------------------------------------
(* The list of one moment                                                  *)

\* While the timer goes through the list, it holds the mutex.
ListHoldsMutex == pc[UI] = "list" => m_RCMgrMutex = "ui"

\* A step in which the UI thread does not enter or leave the list.
LEMMA OutsideList ==
    ASSUME IInv, ListHoldsMutex, Next, ~RefreshVRHostList, ~RefreshReturns
    PROVE  /\ m_RCMgrMutex' = m_RCMgrMutex
           /\ pc'[UI] = "list" => pc[UI] = "list"
<1> DEFINE Kept == /\ m_RCMgrMutex' = m_RCMgrMutex
                   /\ pc'[UI] = "list" => pc[UI] = "list"
<1>1. pc \in [Threads -> Places] /\ UI \in Threads
  BY ThreadKinds DEF IInv, Types
<1>2. ASSUME NEW t \in Threads, NEW from, NEW to, Step(t, from, to), t = UI => to # "list"
      PROVE  pc'[UI] = "list" => pc[UI] = "list"
  BY <1>1, <1>2 DEF Step
<1>3. ASSUME NEW outcome, OnBnClickedBtnStart(outcome) PROVE Kept
  BY <1>1, <1>3 DEF OnBnClickedBtnStart
<1>4. CASE TimerNoManager \/ Crash
  BY <1>1, <1>4 DEF TimerNoManager, Crash, Step, managerVars
<1>5. CASE OnBnClickedBtnStop \/ Stop
  <2>1. m_RCMgrMutex' = m_RCMgrMutex
    BY <1>5 DEF OnBnClickedBtnStop, Stop, JoinRun, BreakDispatch, JoinDispatch, FreeBase,
                JoinReceiver, JoinSenders, DeleteController, Rest, managerVars
  <2>2. PICK from \in Places, to \in Places \ {"list"} : Step(UI, from, to)
    BY <1>5 DEF OnBnClickedBtnStop, Stop, JoinRun, BreakDispatch, JoinDispatch, FreeBase,
                JoinReceiver, JoinSenders, DeleteController, Places, Stopping
  <2> QED BY <1>1, <1>2, <2>1, <2>2
<1>6. CASE Run
  <2>1. m_RCMgrMutex' = m_RCMgrMutex
    BY <1>6 DEF Run, RunCheck, AddRemoteClient, SendCmd, SendLogMsg, EventLogged,
                DeleteRemoteClient, EraseClient, managerVars
  <2>2. PICK from \in Places, to \in Places : Step(StartThread, from, to)
    BY <1>6 DEF Run, RunCheck, AddRemoteClient, SendCmd, SendLogMsg, EventLogged,
                DeleteRemoteClient, EraseClient, Places
  <2> QED BY <1>2, <2>1, <2>2, ThreadKinds
<1>7. ASSUME NEW t \in Loops, EventLoop(t) PROVE Kept
  <2>1. m_RCMgrMutex' = m_RCMgrMutex
    BY <1>7 DEF EventLoop, EnterLoop, LeaveLoop, Callback, CallbackPushes, managerVars
  <2>2. PICK from \in Places, to \in Places : Step(t, from, to)
    BY <1>7 DEF EventLoop, EnterLoop, LeaveLoop, Callback, CallbackPushes, Places
  <2> QED BY <1>2, <2>1, <2>2, ThreadKinds
<1>8. ASSUME NEW t \in Senders, Sender(t) PROVE Kept
  <2>1. m_RCMgrMutex' = m_RCMgrMutex
    BY <1>8 DEF Sender, SenderEnds, SenderGet, DoSend, managerVars
  <2>2. PICK from \in Places, to \in Places : Step(t, from, to)
    BY <1>8 DEF Sender, SenderEnds, SenderGet, DoSend, Places
  <2> QED BY <1>2, <2>1, <2>2, ThreadKinds
<1> QED BY <1>3, <1>4, <1>5, <1>6, <1>7, <1>8 DEF Next

LEMMA MutexInv == IInv /\ ListHoldsMutex /\ [Next]_vars => ListHoldsMutex'
<1> SUFFICES ASSUME IInv, ListHoldsMutex, [Next]_vars PROVE ListHoldsMutex'
  OBVIOUS
<1>1. CASE UNCHANGED vars
  BY <1>1 DEF vars, managerVars, ListHoldsMutex
<1>2. CASE RefreshVRHostList
  BY <1>2 DEF RefreshVRHostList, ListHoldsMutex
<1>3. CASE RefreshReturns
  BY <1>3, ThreadKinds DEF RefreshReturns, Step, IInv, Types, ListHoldsMutex
<1>4. CASE Next /\ ~RefreshVRHostList /\ ~RefreshReturns
  BY <1>4, OutsideList DEF ListHoldsMutex
<1> QED BY <1>1, <1>2, <1>3, <1>4

\* A step from within the list leaves the clients alone: whoever adds or deletes
\* one needs the mutex, and a start needs the UI thread.
LEMMA ListStep ==
    ASSUME ListHoldsMutex, Next, pc[UI] = "list"
    PROVE  UNCHANGED clients
<1>1. m_RCMgrMutex # "free" /\ pc[UI] # "idle"
  BY DEF ListHoldsMutex
<1>2. CASE Run
  BY <1>1, <1>2 DEF Run, RunCheck, AddRemoteClient, SendCmd, SendLogMsg, EventLogged,
                    DeleteRemoteClient, managerVars
<1>3. CASE OnBnClickedBtnStop \/ Stop
  BY <1>3 DEF OnBnClickedBtnStop, Stop, JoinRun, BreakDispatch, JoinDispatch, FreeBase,
              JoinReceiver, JoinSenders, DeleteController, Rest, managerVars
<1>4. CASE TimerNoManager \/ RefreshVRHostList \/ RefreshReturns \/ Crash
  BY <1>4 DEF TimerNoManager, RefreshVRHostList, RefreshReturns, Crash, managerVars
<1>5. ASSUME NEW t \in Loops, EventLoop(t) PROVE UNCHANGED clients
  BY <1>5 DEF EventLoop, EnterLoop, LeaveLoop, Callback, CallbackPushes, managerVars
<1>6. ASSUME NEW t \in Senders, Sender(t) PROVE UNCHANGED clients
  BY <1>6 DEF Sender, SenderEnds, SenderGet, DoSend, managerVars
<1>7. ASSUME NEW outcome, OnBnClickedBtnStart(outcome) PROVE UNCHANGED clients
  BY <1>1, <1>7 DEF OnBnClickedBtnStart
<1> QED BY <1>2, <1>3, <1>4, <1>5, <1>6, <1>7 DEF Next

\* Whatever runs meanwhile, the list of hosts that the timer shows is that of one
\* moment: no client is added or deleted while RefreshVRHostList goes through them.
THEOREM ListIsConsistent == Spec => ListIsOfOneMoment
<1> DEFINE OneMoment == pc[UI] = "list" => UNCHANGED clients
<1>1. Init => IInv /\ ListHoldsMutex
  BY InitInv DEF Init, ListHoldsMutex, UI, Threads
<1>2. IInv /\ ListHoldsMutex /\ [Next]_vars => (IInv /\ ListHoldsMutex)'
  BY NextInv, MutexInv
<1>3. ListHoldsMutex /\ [Next]_vars => [OneMoment]_vars
  BY ListStep
<1> QED BY <1>1, <1>2, <1>3, PTL DEF Spec, ListIsOfOneMoment
=============================================================================
