---------------------------- MODULE CommonMsgQueue ----------------------------
(***************************************************************************)
(* CommonMsgQueue<T> (src/NetEventService/CommonMsgQueue.h): the bounded   *)
(* queue of messages to send.  Every operation runs under m_mutex; the     *)
(* only places a thread lets go of it half way are the two condition       *)
(* variables, so an operation is one action up to a wait, and a thread     *)
(* that was woken is one more action, which takes the mutex back and tests *)
(* the condition again.  Whatever ran in between has run.                  *)
(***************************************************************************)
EXTENDS Integers, Sequences, FiniteSets

CONSTANTS Putters,       \* threads that call put: they block on a full queue
          ForcePutters,  \* threads that call force_put
          Pollers,       \* threads that call get(x, bIsEmpty): never block
          Getters,       \* threads that call get(x): block on an empty queue
          Messages,      \* what is put
          m_maxSize      \* 8192 in NetEventServer

ASSUME MaxSizeAssumption == m_maxSize \in Nat \ {0}
ASSUME FiniteThreadsAssumption == IsFiniteSet(Putters) /\ IsFiniteSet(Getters)

VARIABLES m_queue,   \* the list
          putPc,     \* of a putter: "out", "wait" on m_notFull or "woken"
          getPc      \* of a getter: "out", "wait" on m_notEmpty or "woken"

vars == <<m_queue, putPc, getPc>>

Init ==
    /\ m_queue = <<>>
    /\ putPc = [t \in Putters |-> "out"]
    /\ getPc = [t \in Getters |-> "out"]

_isFull == Len(m_queue) = m_maxSize
_isEmpty == m_queue = <<>>

\* Threads in a given place.
In(pc, where) == {t \in DOMAIN pc : pc[t] = where}

\* notify_one: one of the waiting threads, any, goes on; lost if there is none.
NotifyOne(pc) ==
    IF In(pc, "wait") = {} THEN {pc}
    ELSE {[pc EXCEPT ![t] = "woken"] : t \in In(pc, "wait")}
-----------------------------------------------------------------------------

\* What if the wait were under an if and not a while?
Put_If(t, x) ==
    \/ /\ putPc[t] = "out" /\ _isFull
       /\ putPc' = [putPc EXCEPT ![t] = "wait"]
       /\ UNCHANGED <<m_queue, getPc>>
    \/ /\ putPc[t] = "woken" \/ (putPc[t] = "out" /\ ~ _isFull)
       /\ m_queue' = Append(m_queue, x)
       /\ putPc' = [putPc EXCEPT ![t] = "out"]
       /\ getPc' \in NotifyOne(getPc)

\* What if put only notified when the queue was empty before?
Put_NotifyIfEmpty(t, x) ==
    /\ putPc[t] \in {"out", "woken"}
    /\ \/ /\ _isFull
          /\ putPc' = [putPc EXCEPT ![t] = "wait"]
          /\ UNCHANGED <<m_queue, getPc>>
       \/ /\ ~ _isFull
          /\ m_queue' = Append(m_queue, x)
          /\ putPc' = [putPc EXCEPT ![t] = "out"]
          /\ getPc' \in IF _isEmpty THEN NotifyOne(getPc) ELSE {getPc}

\* put, from its call or from a return of m_notFull.wait.
Put(t, x) ==
    /\ putPc[t] \in {"out", "woken"}
    /\ \/ /\ _isFull
          /\ putPc' = [putPc EXCEPT ![t] = "wait"]
          /\ UNCHANGED <<m_queue, getPc>>
       \/ /\ ~ _isFull
          /\ m_queue' = Append(m_queue, x)
          /\ putPc' = [putPc EXCEPT ![t] = "out"]
          /\ getPc' \in NotifyOne(getPc)

\* force_put: the oldest message goes out of a full queue.
ForcePut(t, x) ==
    /\ m_queue' = Append(IF _isFull THEN Tail(m_queue) ELSE m_queue, x)
    /\ getPc' \in NotifyOne(getPc)
    /\ UNCHANGED putPc

\* What if get only notified when the queue was full before, or never?
Poll_NotifyIfFull(t) ==
    /\ ~ _isEmpty
    /\ m_queue' = Tail(m_queue)
    /\ putPc' \in IF _isFull THEN NotifyOne(putPc) ELSE {putPc}
    /\ UNCHANGED getPc
Poll_Silent(t) ==
    /\ ~ _isEmpty
    /\ m_queue' = Tail(m_queue)
    /\ UNCHANGED <<putPc, getPc>>

\* get(x, bIsEmpty): what a sender thread polls.
Poll(t) ==
    \/ /\ _isEmpty
       /\ UNCHANGED vars
    \/ /\ ~ _isEmpty
       /\ m_queue' = Tail(m_queue)
       /\ putPc' \in NotifyOne(putPc)
       /\ UNCHANGED getPc

\* get(x), from its call or from a return of m_notEmpty.wait.
Get(t) ==
    /\ getPc[t] \in {"out", "woken"}
    /\ \/ /\ _isEmpty
          /\ getPc' = [getPc EXCEPT ![t] = "wait"]
          /\ UNCHANGED <<m_queue, putPc>>
       \/ /\ ~ _isEmpty
          /\ m_queue' = Tail(m_queue)
          /\ getPc' = [getPc EXCEPT ![t] = "out"]
          /\ putPc' \in NotifyOne(putPc)

\* std::condition_variable_any may wake a thread that nobody notified.
SpuriousWakeup ==
    \/ \E t \in In(putPc, "wait") : /\ putPc' = [putPc EXCEPT ![t] = "woken"]
                                    /\ UNCHANGED <<m_queue, getPc>>
    \/ \E t \in In(getPc, "wait") : /\ getPc' = [getPc EXCEPT ![t] = "woken"]
                                    /\ UNCHANGED <<m_queue, putPc>>

Next ==
    \/ \E t \in Putters, x \in Messages : Put(t, x)
    \/ \E t \in ForcePutters, x \in Messages : ForcePut(t, x)
    \/ \E t \in Pollers : Poll(t)
    \/ \E t \in Getters : Get(t)
    \/ SpuriousWakeup

Spec == Init /\ [][Next]_vars
-----------------------------------------------------------------------------

\* The size test is == and not >=, so one message too many would let the queue
\* grow for ever: the bound is part of the type.
TypeOK ==
    /\ m_queue \in Seq(Messages)
    /\ Len(m_queue) <= m_maxSize
    /\ putPc \in [Putters -> {"out", "wait", "woken"}]
    /\ getPc \in [Getters -> {"out", "wait", "woken"}]

\* No wakeup of a blocked put is lost: while a thread is blocked in put, the
\* free places of the queue are all spoken for by threads that were woken and
\* have yet to take the mutex (one notify_one per message taken is enough,
\* whoever takes the freed place first).
NoLostPutWakeup ==
    In(putPc, "wait") # {} =>
        Len(m_queue) + Cardinality(In(putPc, "woken")) >= m_maxSize

\* The same of the blocking get: while a thread is blocked in it, there is a
\* woken getter for every message in the queue.
NoLostGetWakeup ==
    In(getPc, "wait") # {} =>
        Cardinality(In(getPc, "woken")) >= Len(m_queue)
=============================================================================
