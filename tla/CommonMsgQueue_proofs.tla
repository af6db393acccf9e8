------------------------- MODULE CommonMsgQueue_proofs -------------------------
(***************************************************************************)
(* For any finite number of threads and any size: the queue keeps its      *)
(* bound, and no wakeup of a blocked put or get is ever lost.  The three   *)
(* together are inductive.                                                 *)
(*                                                                         *)
(* The argument: a message taken frees one place and wakes one putter, and *)
(* a woken putter that finds the place gone to somebody else finds the     *)
(* queue full again; so the free places never outnumber the woken putters  *)
(* while one is asleep.  Messages and getters are the mirror image.        *)
(***************************************************************************)
EXTENDS CommonMsgQueue, SequenceTheorems, FiniteSetTheorems, TLAPS

Where == {"out", "wait", "woken"}
Woken(pc) == Cardinality(In(pc, "woken"))
Asleep(pc) == In(pc, "wait")

Inv == TypeOK /\ NoLostPutWakeup /\ NoLostGetWakeup
-----------------------------------------------------------------------------
\* The number of woken threads is a number.
LEMMA WokenType ==
    ASSUME NEW T, IsFiniteSet(T), NEW pc \in [T -> Where]
    PROVE  Woken(pc) \in Nat /\ IsFiniteSet(In(pc, "woken"))
<1>1. In(pc, "woken") \subseteq T
  BY DEF In
<1> QED BY <1>1, FS_Subset, FS_CardinalityType DEF Woken

\* Waking a sleeping thread adds one to the woken.
LEMMA Wake ==
    ASSUME NEW T, IsFiniteSet(T), NEW pc \in [T -> Where], NEW t \in Asleep(pc)
    PROVE  LET new == [pc EXCEPT ![t] = "woken"]
           IN  /\ new \in [T -> Where]
               /\ Woken(new) = Woken(pc) + 1
               /\ Asleep(new) \subseteq Asleep(pc)
<1> DEFINE new == [pc EXCEPT ![t] = "woken"]
<1>1. t \in T /\ pc[t] = "wait"
  BY DEF Asleep, In
<1>2. new \in [T -> Where]
  BY DEF Where
<1>3. In(new, "woken") = In(pc, "woken") \union {t}
  BY <1>1 DEF In
<1>4. t \notin In(pc, "woken")
  BY <1>1 DEF In
<1>5. Woken(new) = Woken(pc) + 1
  BY <1>3, <1>4, WokenType, FS_AddElement DEF Woken
<1>6. Asleep(new) \subseteq Asleep(pc)
  BY <1>1 DEF Asleep, In
<1> QED BY <1>2, <1>5, <1>6

\* notify_one wakes a thread whenever one is asleep.
LEMMA Notified ==
    ASSUME NEW T, IsFiniteSet(T), NEW pc \in [T -> Where], NEW new \in NotifyOne(pc)
    PROVE  /\ new \in [T -> Where]
           /\ Asleep(new) \subseteq Asleep(pc)
           /\ Asleep(pc) # {} => Woken(new) = Woken(pc) + 1
<1>1. CASE Asleep(pc) = {}
  <2>1. new = pc
    BY <1>1 DEF NotifyOne, Asleep
  <2> QED BY <1>1, <2>1
<1>2. CASE Asleep(pc) # {}
  <2>1. PICK t \in Asleep(pc) : new = [pc EXCEPT ![t] = "woken"]
    BY <1>2 DEF NotifyOne, Asleep
  <2> QED BY <2>1, Wake
<1> QED BY <1>1, <1>2

\* A thread that leaves put or get was woken, or is one the count ignores.
LEMMA Leave ==
    ASSUME NEW T, IsFiniteSet(T), NEW pc \in [T -> Where], NEW t \in T,
           pc[t] \in {"out", "woken"}
    PROVE  LET new == [pc EXCEPT ![t] = "out"]
           IN  /\ new \in [T -> Where]
               /\ Woken(new) \in Nat
               /\ Woken(new) >= Woken(pc) - 1
               /\ Asleep(new) = Asleep(pc)
<1> DEFINE new == [pc EXCEPT ![t] = "out"]
<1>1. new \in [T -> Where]
  BY DEF Where
<1>2. In(new, "woken") = In(pc, "woken") \ {t}
  BY DEF In
<1>3. Asleep(new) = Asleep(pc)
  BY DEF Asleep, In
<1>4. Woken(new) \in Nat /\ Woken(pc) \in Nat /\ IsFiniteSet(In(pc, "woken"))
  BY <1>1, WokenType
<1>5. CASE t \in In(pc, "woken")
  <2>1. Woken(new) = Woken(pc) - 1
    BY <1>2, <1>4, <1>5, FS_RemoveElement DEF Woken
  <2> QED BY <1>1, <1>3, <1>4, <2>1
<1>6. CASE t \notin In(pc, "woken")
  <2>1. In(new, "woken") = In(pc, "woken")
    BY <1>2, <1>6
  <2> QED BY <1>1, <1>3, <1>4, <2>1 DEF Woken
<1> QED BY <1>5, <1>6

\* A thread that falls asleep leaves the function well typed.
LEMMA FallAsleep ==
    ASSUME NEW T, NEW pc \in [T -> Where], NEW t \in T
    PROVE  [pc EXCEPT ![t] = "wait"] \in [T -> Where]
BY DEF Where
-----------------------------------------------------------------------------
\* The lengths after taking the oldest message and after adding one.
LEMMA Taken ==
    ASSUME NEW q \in Seq(Messages), q # <<>>
    PROVE  Tail(q) \in Seq(Messages) /\ Len(Tail(q)) = Len(q) - 1 /\ Len(q) \in Nat \ {0}
BY HeadTailProperties, LenProperties, EmptySeq

LEMMA Added ==
    ASSUME NEW q \in Seq(Messages), NEW m \in Messages
    PROVE  Append(q, m) \in Seq(Messages) /\ Len(Append(q, m)) = Len(q) + 1 /\ Len(q) \in Nat
BY AppendProperties, LenProperties

\* What the invariant says, with the abbreviations of this module.
LEMMA InvMeans ==
    Inv <=> /\ m_queue \in Seq(Messages)
            /\ Len(m_queue) <= m_maxSize
            /\ putPc \in [Putters -> Where]
            /\ getPc \in [Getters -> Where]
            /\ Asleep(putPc) # {} => Len(m_queue) + Woken(putPc) >= m_maxSize
            /\ Asleep(getPc) # {} => Woken(getPc) >= Len(m_queue)
BY DEF Inv, TypeOK, NoLostPutWakeup, NoLostGetWakeup, Where, Asleep, Woken

LEMMA InvMeansNext ==
    Inv' <=> /\ m_queue' \in Seq(Messages)
             /\ Len(m_queue') <= m_maxSize
             /\ putPc' \in [Putters -> Where]
             /\ getPc' \in [Getters -> Where]
             /\ Asleep(putPc') # {} => Len(m_queue') + Woken(putPc') >= m_maxSize
             /\ Asleep(getPc') # {} => Woken(getPc') >= Len(m_queue')
BY DEF Inv, TypeOK, NoLostPutWakeup, NoLostGetWakeup, Where, Asleep, Woken

\* The counts of a state that satisfies the invariant are numbers.
LEMMA Counts ==
    ASSUME Inv
    PROVE  /\ Len(m_queue) \in Nat /\ m_maxSize \in Nat \ {0}
           /\ Woken(putPc) \in Nat /\ Woken(getPc) \in Nat
BY InvMeans, WokenType, FiniteThreadsAssumption, MaxSizeAssumption, LenProperties

\* The empty queue with nobody in it.
LEMMA InitInv == Init => Inv
<1> SUFFICES ASSUME Init PROVE Inv
  OBVIOUS
<1>1. m_queue \in Seq(Messages) /\ Len(m_queue) = 0
  BY EmptySeq DEF Init
<1>2. Asleep(putPc) = {} /\ Asleep(getPc) = {}
  BY DEF Init, Asleep, In
<1>3. putPc \in [Putters -> Where] /\ getPc \in [Getters -> Where]
  BY DEF Init, Where
<1> QED BY <1>1, <1>2, <1>3, InvMeans, MaxSizeAssumption

\* put: it blocks on a full queue only, or fills one place and wakes a getter.
LEMMA PutInv ==
    ASSUME Inv, NEW t \in Putters, NEW x \in Messages, Put(t, x)
    PROVE  Inv'
<1> USE InvMeans, Counts, FiniteThreadsAssumption
<1>1. CASE _isFull
  <2>1. putPc' = [putPc EXCEPT ![t] = "wait"] /\ UNCHANGED <<m_queue, getPc>>
    BY <1>1 DEF Put
  <2>2. putPc' \in [Putters -> Where]
    BY <2>1, FallAsleep
  <2>3. Woken(putPc') \in Nat
    BY <2>2, WokenType
  <2>4. Len(m_queue') + Woken(putPc') >= m_maxSize
    BY <1>1, <2>1, <2>3 DEF _isFull
  <2> QED BY <2>1, <2>2, <2>4, InvMeansNext
<1>2. CASE ~ _isFull
  <2>1. /\ m_queue' = Append(m_queue, x)
        /\ putPc' = [putPc EXCEPT ![t] = "out"]
        /\ getPc' \in NotifyOne(getPc)
        /\ putPc[t] \in {"out", "woken"}
    BY <1>2 DEF Put
  <2>2. m_queue' \in Seq(Messages) /\ Len(m_queue') = Len(m_queue) + 1
    BY <2>1, Added
  <2>3. Len(m_queue') <= m_maxSize
    BY <1>2, <2>2 DEF _isFull
  <2>4. /\ putPc' \in [Putters -> Where] /\ Woken(putPc') \in Nat
        /\ Woken(putPc') >= Woken(putPc) - 1 /\ Asleep(putPc') = Asleep(putPc)
    <3> DEFINE new == [putPc EXCEPT ![t] = "out"]
    <3>1. IsFiniteSet(Putters) /\ putPc \in [Putters -> Where] /\ putPc[t] \in {"out", "woken"}
      BY <2>1
    <3>2. /\ new \in [Putters -> Where] /\ Woken(new) \in Nat
          /\ Woken(new) >= Woken(putPc) - 1 /\ Asleep(new) = Asleep(putPc)
      BY ONLY <3>1, Leave, t \in Putters
    <3> QED BY <2>1, <3>2
  <2>5. /\ getPc' \in [Getters -> Where] /\ Asleep(getPc') \subseteq Asleep(getPc)
        /\ Asleep(getPc) # {} => Woken(getPc') = Woken(getPc) + 1
    BY <2>1, Notified
  <2>6. Asleep(putPc') # {} => Len(m_queue') + Woken(putPc') >= m_maxSize
    BY <2>2, <2>4
  <2>7. Asleep(getPc') # {} => Woken(getPc') >= Len(m_queue')
    BY <2>2, <2>5
  <2> QED BY <2>2, <2>3, <2>4, <2>5, <2>6, <2>7, InvMeansNext
<1> QED BY <1>1, <1>2

\* force_put: as many messages as before, or one more, and a getter woken.
LEMMA ForcePutInv ==
    ASSUME Inv, NEW t \in ForcePutters, NEW x \in Messages, ForcePut(t, x)
    PROVE  Inv'
<1> USE InvMeans, Counts, FiniteThreadsAssumption
<1> DEFINE q == IF _isFull THEN Tail(m_queue) ELSE m_queue
<1>1. q \in Seq(Messages) /\ Len(q) <= m_maxSize - 1 /\ Len(q) <= Len(m_queue)
      /\ Len(q) >= Len(m_queue) - 1 /\ (~ _isFull => Len(q) = Len(m_queue))
  <2>1. CASE _isFull
    <3>1. m_queue # <<>>
      BY <2>1, EmptySeq DEF _isFull
    <3> QED BY <2>1, <3>1, Taken DEF _isFull
  <2>2. CASE ~ _isFull
    BY <2>2 DEF _isFull
  <2> QED BY <2>1, <2>2
<1>2. m_queue' = Append(q, x) /\ getPc' \in NotifyOne(getPc) /\ putPc' = putPc
  BY DEF ForcePut
<1>3. m_queue' \in Seq(Messages) /\ Len(m_queue') = Len(q) + 1 /\ Len(q) \in Nat
  BY <1>1, <1>2, Added
<1>4. /\ getPc' \in [Getters -> Where] /\ Asleep(getPc') \subseteq Asleep(getPc)
      /\ Asleep(getPc) # {} => Woken(getPc') = Woken(getPc) + 1
  BY <1>2, Notified
<1>5. Asleep(putPc') # {} => Len(m_queue') + Woken(putPc') >= m_maxSize
  BY <1>1, <1>2, <1>3
<1>6. Asleep(getPc') # {} => Woken(getPc') >= Len(m_queue')
  BY <1>1, <1>3, <1>4
<1>7. Len(m_queue') <= m_maxSize
  BY <1>1, <1>3
<1> QED BY <1>2, <1>3, <1>4, <1>5, <1>6, <1>7, InvMeansNext

\* The polling get: a place is freed and a putter woken.
LEMMA PollInv ==
    ASSUME Inv, NEW t \in Pollers, Poll(t)
    PROVE  Inv'
<1> USE InvMeans, Counts, FiniteThreadsAssumption
<1>1. CASE _isEmpty
  <2>1. UNCHANGED vars
    BY <1>1 DEF Poll
  <2> QED BY <2>1, InvMeansNext DEF vars
<1>2. CASE ~ _isEmpty
  <2>1. m_queue' = Tail(m_queue) /\ putPc' \in NotifyOne(putPc) /\ getPc' = getPc
    BY <1>2 DEF Poll
  <2>2. m_queue' \in Seq(Messages) /\ Len(m_queue') = Len(m_queue) - 1
    BY <1>2, <2>1, Taken DEF _isEmpty
  <2>3. /\ putPc' \in [Putters -> Where] /\ Asleep(putPc') \subseteq Asleep(putPc)
        /\ Asleep(putPc) # {} => Woken(putPc') = Woken(putPc) + 1
    BY <2>1, Notified
  <2>4. Asleep(putPc') # {} => Len(m_queue') + Woken(putPc') >= m_maxSize
    BY <2>2, <2>3
  <2>5. Asleep(getPc') # {} => Woken(getPc') >= Len(m_queue')
    BY <2>1, <2>2
  <2> QED BY <2>1, <2>2, <2>3, <2>4, <2>5, InvMeansNext
<1> QED BY <1>1, <1>2

\* The blocking get: it sleeps on an empty queue only.
LEMMA GetInv ==
    ASSUME Inv, NEW t \in Getters, Get(t)
    PROVE  Inv'
<1> USE InvMeans, Counts, FiniteThreadsAssumption
<1>1. CASE _isEmpty
  <2>1. getPc' = [getPc EXCEPT ![t] = "wait"] /\ UNCHANGED <<m_queue, putPc>>
    BY <1>1 DEF Get
  <2>2. getPc' \in [Getters -> Where]
    BY <2>1, FallAsleep
  <2>3. Woken(getPc') \in Nat
    BY <2>2, WokenType
  <2>4. Len(m_queue') = 0
    BY <1>1, <2>1 DEF _isEmpty
  <2> QED BY <2>1, <2>2, <2>3, <2>4, InvMeansNext
<1>2. CASE ~ _isEmpty
  <2>1. /\ m_queue' = Tail(m_queue)
        /\ getPc' = [getPc EXCEPT ![t] = "out"]
        /\ putPc' \in NotifyOne(putPc)
        /\ getPc[t] \in {"out", "woken"}
    BY <1>2 DEF Get
  <2>2. m_queue' \in Seq(Messages) /\ Len(m_queue') = Len(m_queue) - 1
    BY <1>2, <2>1, Taken DEF _isEmpty
  <2>3. /\ putPc' \in [Putters -> Where] /\ Asleep(putPc') \subseteq Asleep(putPc)
        /\ Asleep(putPc) # {} => Woken(putPc') = Woken(putPc) + 1
    BY <2>1, Notified
  <2>4. /\ getPc' \in [Getters -> Where] /\ Woken(getPc') \in Nat
        /\ Woken(getPc') >= Woken(getPc) - 1 /\ Asleep(getPc') = Asleep(getPc)
    BY <2>1, Leave
  <2>5. Asleep(putPc') # {} => Len(m_queue') + Woken(putPc') >= m_maxSize
    BY <2>2, <2>3
  <2>6. Asleep(getPc') # {} => Woken(getPc') >= Len(m_queue')
    BY <2>2, <2>4
  <2> QED BY <2>2, <2>3, <2>4, <2>5, <2>6, InvMeansNext
<1> QED BY <1>1, <1>2

\* A spurious wakeup only makes more threads woken.
LEMMA SpuriousInv == ASSUME Inv, SpuriousWakeup PROVE Inv'
<1> USE InvMeans, Counts, FiniteThreadsAssumption
<1>1. ASSUME NEW t \in Asleep(putPc), putPc' = [putPc EXCEPT ![t] = "woken"],
             UNCHANGED <<m_queue, getPc>>
      PROVE  Inv'
  <2>1. /\ putPc' \in [Putters -> Where] /\ Woken(putPc') = Woken(putPc) + 1
        /\ Asleep(putPc') \subseteq Asleep(putPc)
    BY <1>1, Wake
  <2> QED BY <1>1, <2>1, InvMeansNext
<1>2. ASSUME NEW t \in Asleep(getPc), getPc' = [getPc EXCEPT ![t] = "woken"],
             UNCHANGED <<m_queue, putPc>>
      PROVE  Inv'
  <2>1. /\ getPc' \in [Getters -> Where] /\ Woken(getPc') = Woken(getPc) + 1
        /\ Asleep(getPc') \subseteq Asleep(getPc)
    BY <1>2, Wake
  <2> QED BY <1>2, <2>1, InvMeansNext
<1> QED BY <1>1, <1>2 DEF SpuriousWakeup, Asleep

\* Every step keeps the invariant.
LEMMA NextInv == Inv /\ [Next]_vars => Inv'
<1> SUFFICES ASSUME Inv, [Next]_vars PROVE Inv'
  OBVIOUS
<1>1. ASSUME NEW t \in Putters, NEW x \in Messages, Put(t, x) PROVE Inv'
  BY <1>1, PutInv
<1>2. ASSUME NEW t \in ForcePutters, NEW x \in Messages, ForcePut(t, x) PROVE Inv'
  BY <1>2, ForcePutInv
<1>3. ASSUME NEW t \in Pollers, Poll(t) PROVE Inv'
  BY <1>3, PollInv
<1>4. ASSUME NEW t \in Getters, Get(t) PROVE Inv'
  BY <1>4, GetInv
<1>5. CASE SpuriousWakeup
  BY <1>5, SpuriousInv
<1>6. CASE UNCHANGED vars
  BY <1>6, InvMeans, InvMeansNext DEF vars
<1> QED BY <1>1, <1>2, <1>3, <1>4, <1>5, <1>6 DEF Next

\* The bound of the queue, with == for a full test, holds for every size.
THEOREM BoundKept == Spec => []TypeOK
<1>1. Inv => TypeOK
  BY DEF Inv
<1> QED BY <1>1, InitInv, NextInv, PTL DEF Spec

\* One notify_one per message taken never strands a thread blocked in put.
THEOREM PutWakeupsKept == Spec => []NoLostPutWakeup
<1>1. Inv => NoLostPutWakeup
  BY DEF Inv
<1> QED BY <1>1, InitInv, NextInv, PTL DEF Spec

\* One notify_one per message put never strands a thread blocked in get.
THEOREM GetWakeupsKept == Spec => []NoLostGetWakeup
<1>1. Inv => NoLostGetWakeup
  BY DEF Inv
<1> QED BY <1>1, InitInv, NextInv, PTL DEF Spec
=============================================================================
