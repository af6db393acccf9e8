---------------------------- MODULE MessageQueueAB ----------------------------
(***************************************************************************)
(* MessageQueueAB (src/NetEventService/MessageQueue.cpp): two deques, one  *)
(* that the network threads push into and one that the application thread  *)
(* reads without a lock.  Push and Swap run under counter_mutex; the       *)
(* application's loop over the deque that Swap returned                    *)
(* (VRSceneServer::HandleNetEventFromClient and its siblings) does not.    *)
(*                                                                         *)
(* A message is the serial number of the Add that put it in a deque.       *)
(***************************************************************************)
EXTENDS Integers, Sequences, FiniteSets

CONSTANTS Threads,    \* the network threads that call Push
          NoThread,   \* the mutex is free
          QueueMax,   \* m_queueMax (4096 in the code)
          MaxPush     \* bound on the number of calls of Push

ASSUME NoThreadAssumption == NoThread \notin Threads
ASSUME QueueMaxAssumption == QueueMax \in Nat \ {0}
ASSUME PushBoundAssumption == MaxPush \in Nat

VARIABLES m_queue,        \* the two deques
          m_current,      \* index of the deque that Push adds to
          counter_mutex,  \* the thread inside Push, or NoThread
          appPc,          \* where the application's loop is
          reading,        \* index of the deque Swap returned last
          msgAmount,      \* its GetCount(), read once per batch
          i,              \* loop index of the application
          pushed,         \* number of Adds so far (bounds the run)
          handled,        \* history: messages handled, in order
          dropped         \* history: messages removed by RemoveFront

vars == <<m_queue, m_current, counter_mutex, appPc, reading, msgAmount, i,
          pushed, handled, dropped>>
appVars == <<appPc, reading, msgAmount, i, handled>>

-----------------------------------------------------------------------------

\* MessageQueueAB() and an application that has not called GetMsgQueue yet.
Init ==
    /\ m_queue = [q \in {0, 1} |-> <<>>]
    /\ m_current = 0
    /\ counter_mutex = NoThread
    /\ appPc = "swap"
    /\ reading = 1
    /\ msgAmount = 0
    /\ i = 0
    /\ pushed = 0
    /\ handled = <<>>
    /\ dropped = {}

\* Push up to and including Add: the thread takes the mutex and appends.
PushAdd(t) ==
    /\ pushed < MaxPush
    /\ counter_mutex = NoThread
    /\ counter_mutex' = t
    /\ pushed' = pushed + 1
    /\ m_queue' = [m_queue EXCEPT ![m_current] = Append(@, pushed + 1)]
    /\ UNCHANGED <<m_current, appVars, dropped>>

\* The rest of Push: GetCount() >= m_queueMax makes RemoveFront, then unlock.
PushTrim(t) ==
    LET q == m_queue[m_current]
    IN  /\ counter_mutex = t
        /\ counter_mutex' = NoThread
        /\ IF Len(q) >= QueueMax
             THEN /\ m_queue' = [m_queue EXCEPT ![m_current] = Tail(q)]
                  /\ dropped' = dropped \union {Head(q)}
             ELSE UNCHANGED <<m_queue, dropped>>
        /\ UNCHANGED <<m_current, appVars, pushed>>

\* A Swap to the deque `other`, which keeps the messages `kept`.
SwapTo(other, kept) ==
    /\ appPc = "swap"
    /\ m_current' = other
    /\ m_queue' = [m_queue EXCEPT ![other] = kept]
    /\ reading' = m_current
    /\ appPc' = "count"
    /\ UNCHANGED <<counter_mutex, msgAmount, i, pushed, handled, dropped>>

\* What if Swap did not lock, or did not wrap around?
Swap_Unlocked == SwapTo((m_current + 1) % 2, <<>>)
Swap_NoWrap == counter_mutex = NoThread /\ SwapTo(m_current + 1, <<>>)

\* GetMsgQueue(): the application swaps the deques and gets the old one.
Swap ==
    /\ counter_mutex = NoThread
    /\ SwapTo((m_current + 1) % 2, <<>>)

\* What if the application counted the deque that is being filled?
GetCount_OfCurrent ==
    /\ appPc = "count"
    /\ msgAmount' = Len(m_queue[m_current])
    /\ i' = 0
    /\ appPc' = "loop"
    /\ UNCHANGED <<m_queue, m_current, counter_mutex, reading, pushed,
                   handled, dropped>>

\* int msgAmount = msgQ.GetCount(), outside the lock.
GetCount ==
    /\ appPc = "count"
    /\ msgAmount' = Len(m_queue[reading])
    /\ i' = 0
    /\ appPc' = "loop"
    /\ UNCHANGED <<m_queue, m_current, counter_mutex, reading, pushed,
                   handled, dropped>>

\* msgQ.GetMsg(i): a null pointer past the end, which the loop dereferences.
GetMsg(k) == m_queue[reading][k + 1]
InBounds(k) == k < Len(m_queue[reading])

\* One turn of the loop: read message i outside the lock and handle it.
HandleMsg ==
    /\ appPc = "loop"
    /\ i < msgAmount
    /\ InBounds(i)
    /\ handled' = Append(handled, GetMsg(i))
    /\ i' = i + 1
    /\ UNCHANGED <<m_queue, m_current, counter_mutex, appPc, reading,
                   msgAmount, pushed, dropped>>

\* What if the loop stopped one message short?
EndLoop_OneEarly ==
    /\ appPc = "loop"
    /\ i + 1 >= msgAmount
    /\ appPc' = "swap"
    /\ UNCHANGED <<m_queue, m_current, counter_mutex, reading, msgAmount, i,
                   pushed, handled, dropped>>

\* The loop is over; Run() sleeps and calls GetMsgQueue() again.
EndLoop ==
    /\ appPc = "loop"
    /\ i >= msgAmount
    /\ appPc' = "swap"
    /\ UNCHANGED <<m_queue, m_current, counter_mutex, reading, msgAmount, i,
                   pushed, handled, dropped>>

App == Swap \/ GetCount \/ HandleMsg \/ EndLoop
Next == App \/ \E t \in Threads : PushAdd(t) \/ PushTrim(t)

\* A thread inside Push leaves it, and the application's Run() loops for ever.
\* The mutex is free again after every Push, so the application that waits for
\* it gets it (strong fairness: a std::mutex starves nobody for ever).
Fairness ==
    /\ \A t \in Threads : WF_vars(PushTrim(t))
    /\ SF_vars(Swap)
    /\ WF_vars(GetCount)
    /\ WF_vars(HandleMsg)
    /\ WF_vars(EndLoop)

Spec == Init /\ [][Next]_vars
FairSpec == Spec /\ Fairness
-----------------------------------------------------------------------------

TypeOK ==
    /\ m_queue \in [{0, 1} -> Seq(1..MaxPush)]
    /\ m_current \in {0, 1}
    /\ counter_mutex \in Threads \union {NoThread}
    /\ appPc \in {"swap", "count", "loop"}
    /\ reading \in {0, 1}
    /\ msgAmount \in Nat
    /\ i \in Nat
    /\ pushed \in 0..MaxPush
    /\ handled \in Seq(1..MaxPush)
    /\ dropped \in SUBSET (1..MaxPush)

\* What the application has still to read of the deque it holds.
Unread == CASE appPc = "count" -> m_queue[reading]
            [] appPc = "loop"  -> SubSeq(m_queue[reading], i + 1, msgAmount)
            [] OTHER           -> <<>>

\* Between Add and RemoveFront the deque is one too long: the message that is
\* about to go does not count.
Overlong == counter_mutex # NoThread /\ Len(m_queue[m_current]) >= QueueMax
Pending == IF Overlong THEN Tail(m_queue[m_current]) ELSE m_queue[m_current]
Gone == IF Overlong THEN dropped \union {Head(m_queue[m_current])} ELSE dropped

\* The application never reads past the end of the deque it holds, although it
\* counted its messages once and reads it with no lock while others push:
\* GetMsg never returns the null pointer that every caller dereferences.
NeverPastTheEnd == appPc = "loop" /\ i < msgAmount => InBounds(i)

Elements(s) == {s[k] : k \in DOMAIN s}
\* Every message that is pushed is handled in the end, or was dropped.
EventuallyDelivered ==
    \A n \in 1..MaxPush :
        pushed >= n ~> n \in Elements(handled) \union dropped

Fifo == INSTANCE LossyFifo WITH
            Capacity <- QueueMax, pending <- Pending, batch <- Unread,
            dropped <- Gone

\* The two deques and the lock-free reader implement the abstract queue: nothing is
\* handled twice or out of order, and nothing is lost but the oldest message of a
\* deque at its limit.
ImplementsFifo == Fifo!FifoSpec
=============================================================================
