------------------------- MODULE MessageQueueAB_proofs -------------------------
(***************************************************************************)
(* For any number of threads, any limit and any number of messages:        *)
(* MessageQueueAB is type correct, the application never reads past the    *)
(* end of the deque it holds, and the pair of deques implements LossyFifo. *)
(*                                                                         *)
(* The second is not inductive.  The reader needs no lock because the      *)
(* deque it holds is never the one that Push changes, and because only the *)
(* reader itself can make them change places; so what it counted stays     *)
(* right for as long as it loops.  ReaderInv says just that.               *)
(* For the refinement each step is shown to be one of LossyFifo or a       *)
(* stutter: the two deques, read one after the other, are the one FIFO.    *)
(***************************************************************************)
EXTENDS MessageQueueAB, SequenceTheorems, TLAPS

ReaderInv ==
    /\ reading # m_current
    /\ appPc = "loop" => msgAmount = Len(m_queue[reading])

Inv == TypeOK /\ ReaderInv

-----------------------------------------------------------------------------
\* Swap goes to the deque that is not the current one.
LEMMA OtherDeque ==
    ASSUME NEW q \in {0, 1}
    PROVE  (q + 1) % 2 \in {0, 1} /\ (q + 1) % 2 # q
<1>1. CASE q = 0 BY <1>1
<1>2. CASE q = 1 BY <1>2
<1> QED BY <1>1, <1>2

\* The initial state is type correct, with the reader away from deque 0.
LEMMA InitInv == Init => Inv
<1> SUFFICES ASSUME Init PROVE Inv
  OBVIOUS
<1>1. <<>> \in Seq(1..MaxPush)
  OBVIOUS
<1>2. TypeOK
  BY <1>1, PushBoundAssumption DEF Init, TypeOK
<1>3. ReaderInv
  BY DEF Init, ReaderInv
<1> QED BY <1>2, <1>3 DEF Inv

\* Push only changes the deque that the reader does not hold.
LEMMA PushInv ==
    ASSUME Inv, NEW t \in Threads, PushAdd(t) \/ PushTrim(t)
    PROVE  Inv'
<1> USE DEF Inv
<1>1. CASE PushAdd(t)
  <2>1. pushed + 1 \in 1..MaxPush
    BY <1>1, PushBoundAssumption DEF PushAdd, TypeOK
  <2>2. Append(m_queue[m_current], pushed + 1) \in Seq(1..MaxPush)
    BY <2>1, AppendProperties DEF TypeOK
  <2>3. m_queue' \in [{0, 1} -> Seq(1..MaxPush)]
    BY <1>1, <2>2 DEF PushAdd, TypeOK
  <2>4. TypeOK'
    BY <1>1, <2>1, <2>3 DEF PushAdd, TypeOK, appVars
  <2>5. m_queue'[reading] = m_queue[reading]
    BY <1>1 DEF PushAdd, ReaderInv, TypeOK
  <2> QED BY <1>1, <2>4, <2>5 DEF PushAdd, ReaderInv, appVars
<1>2. CASE PushTrim(t)
  <2> DEFINE q == m_queue[m_current]
  <2>1. CASE Len(q) >= QueueMax
    <3>1. q \in Seq(1..MaxPush) /\ q # <<>>
      BY <2>1, QueueMaxAssumption, EmptySeq DEF TypeOK
    <3>2. Tail(q) \in Seq(1..MaxPush) /\ Head(q) \in 1..MaxPush
      BY <3>1, HeadTailProperties
    <3>3. m_queue' = [m_queue EXCEPT ![m_current] = Tail(q)]
          /\ dropped' = dropped \union {Head(q)}
      BY <1>2, <2>1 DEF PushTrim
    <3>4. m_queue' \in [{0, 1} -> Seq(1..MaxPush)] /\ dropped' \in SUBSET (1..MaxPush)
      BY <3>2, <3>3 DEF TypeOK
    <3>5. TypeOK'
      BY <1>2, <3>4 DEF PushTrim, TypeOK, appVars
    <3>6. m_queue'[reading] = m_queue[reading]
      BY <3>3 DEF ReaderInv, TypeOK
    <3> QED BY <1>2, <3>5, <3>6 DEF PushTrim, ReaderInv, appVars
  <2>2. CASE ~ (Len(q) >= QueueMax)
    <3>1. UNCHANGED <<m_queue, m_current, appVars, pushed, dropped>>
          /\ counter_mutex' = NoThread
      BY <1>2, <2>2 DEF PushTrim
    <3> QED BY <3>1 DEF TypeOK, ReaderInv, appVars
  <2> QED BY <2>1, <2>2
<1> QED BY <1>1, <1>2

\* The application swaps only when it is done with the deque it held.
LEMMA AppInv ==
    ASSUME Inv, App
    PROVE  Inv'
<1> USE DEF Inv
<1>1. CASE Swap
  <2> DEFINE other == (m_current + 1) % 2
  <2>1. other \in {0, 1} /\ other # m_current
    BY OtherDeque DEF TypeOK
  <2>2. m_queue' \in [{0, 1} -> Seq(1..MaxPush)]
    <3>1. <<>> \in Seq(1..MaxPush)
      OBVIOUS
    <3>2. m_queue' = [m_queue EXCEPT ![other] = <<>>]
      BY <1>1 DEF Swap, SwapTo
    <3> QED BY <3>1, <3>2 DEF TypeOK
  <2>3. TypeOK'
    BY <1>1, <2>1, <2>2 DEF Swap, SwapTo, TypeOK
  <2> QED BY <1>1, <2>1, <2>3 DEF Swap, SwapTo, ReaderInv
<1>2. CASE GetCount
  <2>1. Len(m_queue[reading]) \in Nat
    BY LenProperties DEF TypeOK
  <2> QED BY <1>2, <2>1 DEF GetCount, TypeOK, ReaderInv
<1>3. CASE HandleMsg
  <2>1. m_queue[reading] \in Seq(1..MaxPush)
    BY DEF TypeOK
  <2>2. i + 1 \in 1..Len(m_queue[reading])
    BY <1>3, <2>1, LenProperties DEF HandleMsg, InBounds, TypeOK
  <2>3. GetMsg(i) \in 1..MaxPush
    BY <2>1, <2>2, ElementOfSeq DEF GetMsg
  <2>4. handled' \in Seq(1..MaxPush)
    BY <1>3, <2>3, AppendProperties DEF HandleMsg, TypeOK
  <2>5. TypeOK'
    BY <1>3, <2>4 DEF HandleMsg, TypeOK
  <2> QED BY <1>3, <2>5 DEF HandleMsg, ReaderInv
<1>4. CASE EndLoop
  BY <1>4 DEF EndLoop, TypeOK, ReaderInv
<1> QED BY <1>1, <1>2, <1>3, <1>4 DEF App

\* Every step keeps the invariant.
LEMMA NextInv == Inv /\ [Next]_vars => Inv'
<1> SUFFICES ASSUME Inv, [Next]_vars PROVE Inv'
  OBVIOUS
<1>1. CASE App
  BY <1>1, AppInv
<1>2. ASSUME NEW t \in Threads, PushAdd(t) \/ PushTrim(t)
      PROVE  Inv'
  BY <1>2, PushInv
<1>3. CASE UNCHANGED vars
  BY <1>3 DEF vars, Inv, TypeOK, ReaderInv
<1> QED BY <1>1, <1>2, <1>3 DEF Next

\* Type correctness of the queue for every value of the constants.
THEOREM TypeCorrect == Spec => []TypeOK
<1>1. Inv => TypeOK
  BY DEF Inv
<1> QED BY <1>1, InitInv, NextInv, PTL DEF Spec

\* The lock-free reader never goes past the end: GetMsg never gives the null
\* pointer that the application's loops would dereference.
THEOREM ReaderSafe == Spec => []NeverPastTheEnd
<1>1. Inv => NeverPastTheEnd
  BY DEF Inv, ReaderInv, NeverPastTheEnd, InBounds
<1> QED BY <1>1, InitInv, NextInv, PTL DEF Spec
-----------------------------------------------------------------------------
(* The refinement of LossyFifo.  What the mapping needs beyond Inv is that *)
(* the serial numbers in use are those of the pushes so far.               *)

UsedInv == Fifo!Used = 1..pushed

\* The elements of a sequence that gets one more, and of one that loses its first.
LEMMA ElementsAppend ==
    ASSUME NEW S, NEW s \in Seq(S), NEW e \in S
    PROVE  Elements(Append(s, e)) = Elements(s) \union {e}
<1>1. /\ Append(s, e) \in Seq(S) /\ Len(Append(s, e)) = Len(s) + 1 /\ Len(s) \in Nat
      /\ \A k \in 1..Len(s) : Append(s, e)[k] = s[k]
      /\ Append(s, e)[Len(s) + 1] = e
  BY AppendProperties, LenProperties
<1>2. DOMAIN s = 1..Len(s) /\ DOMAIN Append(s, e) = 1..(Len(s) + 1)
  BY <1>1, LenProperties
<1> QED BY <1>1, <1>2 DEF Elements

LEMMA ElementsFirst ==
    ASSUME NEW S, NEW s \in Seq(S), s # <<>>
    PROVE  Elements(s) = {Head(s)} \union Elements(Tail(s))
<1>1. /\ Tail(s) \in Seq(S) /\ Len(Tail(s)) = Len(s) - 1 /\ Len(s) \in Nat \ {0}
      /\ \A k \in 1..Len(Tail(s)) : Tail(s)[k] = s[k + 1]
      /\ Head(s) = s[1]
  BY HeadTailProperties, EmptySeq
<1>2. DOMAIN s = 1..Len(s) /\ DOMAIN Tail(s) = 1..(Len(s) - 1)
  BY <1>1, LenProperties
<1>3. \A k \in 1..Len(s) : k = 1 \/ (k - 1 \in 1..Len(Tail(s)) /\ s[k] = Tail(s)[k - 1])
  BY <1>1
<1>4. ASSUME NEW e \in Elements(s)
      PROVE  e \in {Head(s)} \union Elements(Tail(s))
  <2>1. PICK k \in 1..Len(s) : e = s[k]
    BY <1>2 DEF Elements
  <2>2. CASE k = 1
    BY <1>1, <2>1, <2>2
  <2>3. CASE k - 1 \in 1..Len(Tail(s)) /\ s[k] = Tail(s)[k - 1]
    BY <1>1, <1>2, <2>1, <2>3 DEF Elements
  <2> QED BY <1>3, <2>2, <2>3
<1>5. \A k \in 1..(Len(s) - 1) : k + 1 \in 1..Len(s) /\ Tail(s)[k] = s[k + 1]
  BY <1>1
<1>6. Elements(Tail(s)) \subseteq Elements(s)
  BY <1>2, <1>5 DEF Elements
<1>7. Head(s) \in Elements(s)
  BY <1>1, <1>2 DEF Elements
<1> QED BY <1>4, <1>6, <1>7

LEMMA ElementsOfEmpty == Elements(<<>>) = {}
BY DEF Elements

LEMMA UsedIs ==
    /\ Fifo!Used = Elements(handled) \union Gone \union Elements(Unread)
                     \union Elements(Pending)
    /\ Fifo!Used' = Elements(handled') \union Gone' \union Elements(Unread')
                      \union Elements(Pending')
BY DEF Fifo!Used, Elements

\* The abstract steps, on what they do to the serial numbers in use: only Offer
\* adds one.
LEMMA OfferUses ==
    ASSUME NEW S, NEW n \in S, Pending \in Seq(S), Fifo!Offer(n)
    PROVE  Fifo!Used' = Fifo!Used \union {n}
<1> DEFINE q == Append(Pending, n)
<1>1. q \in Seq(S) /\ q # <<>> /\ Elements(q) = Elements(Pending) \union {n}
  BY AppendProperties, ElementsAppend
<1>2. Elements(q) = {Head(q)} \union Elements(Tail(q))
  BY <1>1, ElementsFirst
<1>3. UNCHANGED <<Unread, handled>>
  BY DEF Fifo!Offer
<1>4. \/ Pending' = Tail(q) /\ Gone' = Gone \union {Head(q)}
      \/ Pending' = q /\ Gone' = Gone
  BY DEF Fifo!Offer
<1>5. Fifo!Used' = Elements(handled) \union Gone' \union Elements(Unread)
                     \union Elements(Pending')
  BY <1>3, UsedIs
<1> QED BY <1>1, <1>2, <1>4, <1>5, UsedIs

LEMMA CollectUses == ASSUME Fifo!Collect PROVE Fifo!Used' = Fifo!Used
<1>1. /\ Unread = <<>> /\ Pending' = <<>> /\ Unread' = Pending
      /\ UNCHANGED <<handled, Gone>>
  BY DEF Fifo!Collect
<1>2. Fifo!Used' = Elements(handled) \union Gone \union Elements(Pending) \union Elements(<<>>)
  BY <1>1, UsedIs
<1> QED BY <1>1, <1>2, UsedIs, ElementsOfEmpty

LEMMA HandleUses ==
    ASSUME NEW S, Unread \in Seq(S), handled \in Seq(S), Fifo!HandleFirst
    PROVE  Fifo!Used' = Fifo!Used
<1>1. /\ Unread # <<>> /\ Unread' = Tail(Unread) /\ handled' = Append(handled, Head(Unread))
      /\ UNCHANGED <<Pending, Gone>>
  BY DEF Fifo!HandleFirst
<1>2. Elements(Unread) = {Head(Unread)} \union Elements(Tail(Unread)) /\ Head(Unread) \in S
  BY <1>1, ElementsFirst, HeadTailProperties
<1>3. Elements(handled') = Elements(handled) \union {Head(Unread)}
  BY <1>1, <1>2, ElementsAppend
<1>4. Fifo!Used' = Elements(handled') \union Gone \union Elements(Tail(Unread))
                     \union Elements(Pending)
  BY <1>1, UsedIs
<1> QED BY <1>2, <1>3, <1>4, UsedIs
-----------------------------------------------------------------------------
\* Outside of Push nothing is overlong.
LEMMA FreeMutex ==
    counter_mutex = NoThread => Pending = m_queue[m_current] /\ Gone = dropped
BY DEF Pending, Gone, Overlong

\* The part of a deque that a loop has still to read.
LEMMA UnreadOfDeque ==
    ASSUME Inv, appPc = "loop", i < msgAmount
    PROVE  /\ Unread # <<>> /\ Head(Unread) = m_queue[reading][i + 1]
           /\ Tail(Unread) = SubSeq(m_queue[reading], i + 2, msgAmount)
<1>1. /\ m_queue[reading] \in Seq(1..MaxPush) /\ msgAmount = Len(m_queue[reading])
      /\ i + 1 \in 1..Len(m_queue[reading]) /\ msgAmount \in (i + 1)..Len(m_queue[reading])
  BY LenProperties DEF Inv, TypeOK, ReaderInv
<1>2. Unread = SubSeq(m_queue[reading], i + 1, msgAmount)
  BY DEF Unread
<1>3. Len(Unread) = msgAmount - (i + 1) + 1
  <2>1. \A k \in (i + 1)..msgAmount : m_queue[reading][k] \in 1..MaxPush
    <3>1. \A k \in 1..Len(m_queue[reading]) : m_queue[reading][k] \in 1..MaxPush
      BY <1>1, ElementOfSeq
    <3> QED BY <1>1, <3>1 DEF Inv, TypeOK
  <2>2. i + 1 \in Int /\ msgAmount \in Int /\ i + 1 <= msgAmount
    BY <1>1 DEF Inv, TypeOK
  <2> QED BY <1>2, <2>1, <2>2, SubSeqProperties
<1>4. Unread # <<>>
  BY <1>1, <1>3, EmptySeq
<1>5. (i + 1) + 1 = i + 2
  BY DEF Inv, TypeOK
<1> QED BY <1>1, <1>2, <1>4, <1>5, HeadTailOfSubSeq

\* What is mapped to the sequences of LossyFifo are sequences.
LEMMA MappedSequences ==
    ASSUME Inv
    PROVE  /\ handled \in Seq(1..MaxPush) /\ Unread \in Seq(1..MaxPush)
           /\ counter_mutex = NoThread => Pending \in Seq(1..MaxPush)
<1>1. m_queue[reading] \in Seq(1..MaxPush) /\ m_queue[m_current] \in Seq(1..MaxPush)
  BY DEF Inv, TypeOK
<1>2. CASE appPc = "loop"
  <2>1. \A k \in (i + 1)..msgAmount : m_queue[reading][k] \in 1..MaxPush
    <3>1. \A k \in 1..Len(m_queue[reading]) : m_queue[reading][k] \in 1..MaxPush
      BY <1>1, ElementOfSeq
    <3>2. msgAmount = Len(m_queue[reading]) /\ i \in Nat /\ msgAmount \in Nat
      BY <1>2 DEF Inv, TypeOK, ReaderInv
    <3> QED BY <3>1, <3>2
  <2>2. i + 1 \in Int /\ msgAmount \in Int
    BY DEF Inv, TypeOK
  <2>3. SubSeq(m_queue[reading], i + 1, msgAmount) \in Seq(1..MaxPush)
    BY <2>1, <2>2, SubSeqProperties
  <2> QED BY <1>1, <1>2, <2>3, FreeMutex DEF Unread, Inv, TypeOK
<1>3. CASE appPc # "loop"
  BY <1>1, <1>3, FreeMutex, EmptySeq DEF Unread, Inv, TypeOK
<1> QED BY <1>2, <1>3

\* A push up to its Add is an Offer; what is one too long is gone by then.
LEMMA PushAddOffers ==
    ASSUME Inv, NEW t \in Threads, PushAdd(t)
    PROVE  Fifo!Offer(pushed + 1)
<1> DEFINE n == pushed + 1
           q == m_queue[m_current]
<1>1. /\ counter_mutex = NoThread /\ counter_mutex' = t /\ t # NoThread
      /\ m_queue' = [m_queue EXCEPT ![m_current] = Append(q, n)]
      /\ UNCHANGED <<m_current, appPc, reading, msgAmount, i, handled, dropped>>
  BY NoThreadAssumption DEF PushAdd, appVars
<1>2. n \in 1..MaxPush /\ q \in Seq(1..MaxPush)
  BY PushBoundAssumption DEF PushAdd, Inv, TypeOK
<1>3. /\ m_queue'[m_current] = Append(q, n) /\ m_queue'[reading] = m_queue[reading]
      /\ Len(Append(q, n)) = Len(q) + 1
  BY <1>1, <1>2, AppendProperties DEF Inv, TypeOK, ReaderInv
<1>4. Pending = q /\ Gone = dropped
  BY <1>1, FreeMutex
<1>5. Unread' = Unread
  BY <1>1, <1>3 DEF Unread
<1>6. /\ Pending' = IF Len(q) + 1 >= QueueMax THEN Tail(Append(q, n)) ELSE Append(q, n)
      /\ Gone' = IF Len(q) + 1 >= QueueMax THEN dropped \union {Head(Append(q, n))} ELSE dropped
  <2>1. CASE Len(q) + 1 >= QueueMax
    <3>1. Overlong'
      BY <1>1, <1>3, <2>1 DEF Overlong
    <3> QED BY <1>1, <1>3, <2>1, <3>1 DEF Pending, Gone
  <2>2. CASE ~(Len(q) + 1 >= QueueMax)
    <3>1. ~Overlong'
      BY <1>1, <1>3, <2>2 DEF Overlong
    <3> QED BY <1>1, <1>3, <2>2, <3>1 DEF Pending, Gone
  <2> QED BY <2>1, <2>2
<1> QED BY <1>1, <1>4, <1>5, <1>6 DEF Fifo!Offer

\* The rest of a push does what the mapping has already counted.
LEMMA PushTrimStutters ==
    ASSUME Inv, NEW t \in Threads, PushTrim(t)
    PROVE  UNCHANGED Fifo!fifoVars
<1> DEFINE q == m_queue[m_current]
<1>1. /\ counter_mutex = t /\ t # NoThread /\ counter_mutex' = NoThread
      /\ UNCHANGED <<m_current, appPc, reading, msgAmount, i, handled>>
  BY NoThreadAssumption DEF PushTrim, appVars
<1>2. Pending' = m_queue'[m_current] /\ Gone' = dropped'
  BY <1>1 DEF Pending, Gone, Overlong
<1>3. CASE Len(q) >= QueueMax
  <2>1. m_queue' = [m_queue EXCEPT ![m_current] = Tail(q)] /\ dropped' = dropped \union {Head(q)}
    BY <1>3 DEF PushTrim
  <2>2. m_queue'[m_current] = Tail(q) /\ m_queue'[reading] = m_queue[reading]
    BY <2>1 DEF Inv, TypeOK, ReaderInv
  <2>3. Pending = Tail(q) /\ Gone = dropped \union {Head(q)}
    BY <1>1, <1>3 DEF Pending, Gone, Overlong
  <2> QED BY <1>1, <1>2, <2>1, <2>2, <2>3 DEF Unread, Fifo!fifoVars
<1>4. CASE ~(Len(q) >= QueueMax)
  <2>1. UNCHANGED <<m_queue, dropped>>
    BY <1>4 DEF PushTrim
  <2>2. Pending = q /\ Gone = dropped
    BY <1>4 DEF Pending, Gone, Overlong
  <2> QED BY <1>1, <1>2, <2>1, <2>2 DEF Unread, Fifo!fifoVars
<1> QED BY <1>3, <1>4

\* A swap hands over all that is pending, once the last batch is read.
LEMMA SwapCollects == ASSUME Inv, Swap PROVE Fifo!Collect
<1> DEFINE other == (m_current + 1) % 2
<1>1. /\ counter_mutex = NoThread /\ appPc = "swap" /\ appPc' = "count"
      /\ reading' = m_current /\ m_current' = other
      /\ m_queue' = [m_queue EXCEPT ![other] = <<>>]
      /\ UNCHANGED <<counter_mutex, handled, dropped>>
  BY DEF Swap, SwapTo
<1>2. other \in {0, 1} /\ other # m_current
  BY OtherDeque DEF Inv, TypeOK
<1>3. m_queue'[other] = <<>> /\ m_queue'[m_current] = m_queue[m_current]
  BY <1>1, <1>2 DEF Inv, TypeOK
<1>4. Unread = <<>> /\ Unread' = m_queue[m_current]
  BY <1>1, <1>3 DEF Unread
<1>5. Pending' = <<>> /\ Gone' = dropped /\ Pending = m_queue[m_current] /\ Gone = dropped
  BY <1>1, <1>3, FreeMutex DEF Pending, Gone, Overlong
<1> QED BY <1>1, <1>4, <1>5 DEF Fifo!Collect

\* Counting and the end of the loop are not seen; a turn of the loop handles the
\* first of the batch.
LEMMA LoopRefines ==
    ASSUME Inv, GetCount \/ HandleMsg \/ EndLoop
    PROVE  Fifo!HandleFirst \/ UNCHANGED Fifo!fifoVars
<1>1. UNCHANGED <<m_queue, m_current, counter_mutex, dropped, reading>>
  BY DEF GetCount, HandleMsg, EndLoop
<1>2. UNCHANGED <<Pending, Gone>>
  BY <1>1 DEF Pending, Gone, Overlong
<1>3. CASE GetCount
  <2>1. Unread = m_queue[reading] /\ Unread' = SubSeq(m_queue[reading], 1, Len(m_queue[reading]))
    BY <1>1, <1>3 DEF GetCount, Unread
  <2>2. Unread' = Unread
    BY <2>1, SubSeqFull DEF Inv, TypeOK
  <2> QED BY <1>2, <1>3, <2>2 DEF GetCount, Fifo!fifoVars
<1>4. CASE HandleMsg
  <2>1. /\ Unread # <<>> /\ Head(Unread) = m_queue[reading][i + 1]
        /\ Tail(Unread) = SubSeq(m_queue[reading], i + 2, msgAmount)
    BY <1>4, UnreadOfDeque DEF HandleMsg
  <2>2. Unread' = SubSeq(m_queue[reading], (i + 1) + 1, msgAmount)
    BY <1>1, <1>4 DEF HandleMsg, Unread
  <2>3. (i + 1) + 1 = i + 2
    BY DEF Inv, TypeOK
  <2>4. handled' = Append(handled, Head(Unread))
    BY <1>4, <2>1 DEF HandleMsg, GetMsg
  <2> QED BY <1>2, <2>1, <2>2, <2>3, <2>4 DEF Fifo!HandleFirst
<1>5. CASE EndLoop
  <2>1. Unread = SubSeq(m_queue[reading], i + 1, msgAmount) /\ Unread' = <<>>
    BY <1>5 DEF EndLoop, Unread
  <2>2. i + 1 \in Int /\ msgAmount \in Int /\ msgAmount < i + 1
    BY <1>5 DEF EndLoop, Inv, TypeOK
  <2>3. Unread = <<>>
    BY <2>1, <2>2, SubSeqEmpty
  <2> QED BY <1>2, <1>5, <2>1, <2>3 DEF EndLoop, Fifo!fifoVars
<1> QED BY <1>3, <1>4, <1>5

\* Every step of the two deques is a step of the abstract queue or none, and keeps
\* the serial numbers in use those of the pushes.
LEMMA StepRefines ==
    ASSUME Inv, UsedInv, [Next]_vars
    PROVE  [Fifo!FifoNext]_(Fifo!fifoVars) /\ UsedInv'
<1>1. ASSUME NEW t \in Threads, PushAdd(t)
      PROVE  Fifo!FifoNext /\ UsedInv'
  <2>1. pushed + 1 \in Fifo!Serials /\ pushed' = pushed + 1 /\ pushed \in Nat
    BY <1>1, PushBoundAssumption DEF PushAdd, Inv, TypeOK, Fifo!Serials
  <2>2. Fifo!Used = 1..((pushed + 1) - 1)
    BY <2>1 DEF UsedInv
  <2>3. Fifo!Offer(pushed + 1)
    BY <1>1, PushAddOffers
  <2>4. Pending \in Seq(1..MaxPush)
    BY <1>1, MappedSequences DEF PushAdd
  <2>5. Fifo!Used' = Fifo!Used \union {pushed + 1}
    BY <2>1, <2>3, <2>4, OfferUses DEF Fifo!Serials
  <2>6. UsedInv'
    BY <2>1, <2>5 DEF UsedInv
  <2> QED BY <2>1, <2>2, <2>3, <2>6 DEF Fifo!FifoNext
<1>2. ASSUME UNCHANGED <<Fifo!fifoVars, pushed>>
      PROVE  UsedInv'
  <2>1. UNCHANGED <<Pending, Unread, handled, Gone>>
    BY <1>2 DEF Fifo!fifoVars
  <2>2. Fifo!Used' = Elements(handled) \union Gone \union Elements(Unread)
                       \union Elements(Pending)
    BY <2>1, UsedIs
  <2> QED BY <1>2, <2>2, UsedIs DEF UsedInv
<1>3. ASSUME NEW t \in Threads, PushTrim(t)
      PROVE  UNCHANGED Fifo!fifoVars /\ UsedInv'
  BY <1>2, <1>3, PushTrimStutters DEF PushTrim
<1>4. CASE Swap
  <2>1. Fifo!Collect /\ pushed' = pushed
    BY <1>4, SwapCollects DEF Swap, SwapTo
  <2>2. UsedInv'
    BY <2>1, CollectUses DEF UsedInv
  <2> QED BY <2>1, <2>2 DEF Fifo!FifoNext
<1>5. CASE GetCount \/ HandleMsg \/ EndLoop
  <2>1. pushed' = pushed
    BY <1>5 DEF GetCount, HandleMsg, EndLoop
  <2>2. CASE Fifo!HandleFirst
    <3>1. Fifo!Used' = Fifo!Used
      BY <2>2, MappedSequences, HandleUses
    <3> QED BY <2>1, <2>2, <3>1 DEF UsedInv, Fifo!FifoNext
  <2>3. CASE UNCHANGED Fifo!fifoVars
    BY <1>2, <2>1, <2>3
  <2> QED BY <1>5, <2>2, <2>3, LoopRefines
<1>6. CASE UNCHANGED vars
  <2>1. UNCHANGED Fifo!fifoVars
    BY <1>6 DEF vars, Fifo!fifoVars, Pending, Unread, Gone, Overlong
  <2> QED BY <1>2, <1>6, <2>1 DEF vars
<1> QED BY <1>1, <1>3, <1>4, <1>5, <1>6 DEF Next, App

\* The initial state is that of the abstract queue.
LEMMA InitRefines == Init => Fifo!FifoInit /\ UsedInv
<1> SUFFICES ASSUME Init PROVE Fifo!FifoInit /\ UsedInv
  OBVIOUS
<1>1. Pending = <<>> /\ Gone = {} /\ Unread = <<>> /\ handled = <<>>
  BY DEF Init, Pending, Gone, Overlong, Unread
<1>2. Fifo!Used = {}
  BY <1>1, UsedIs, ElementsOfEmpty
<1>3. 1..pushed = {}
  BY DEF Init
<1> QED BY <1>1, <1>2, <1>3 DEF Fifo!FifoInit, UsedInv

\* With any number of threads, any limit and any number of messages, the two deques
\* and their lock-free reader are the abstract queue: what is pushed is handled at
\* most once and in order, and only the oldest of a full deque is lost.
THEOREM Refinement == Spec => ImplementsFifo
<1>1. Init => Inv /\ Fifo!FifoInit /\ UsedInv
  BY InitInv, InitRefines
<1>2. Inv /\ UsedInv /\ [Next]_vars => Inv' /\ UsedInv' /\ [Fifo!FifoNext]_(Fifo!fifoVars)
  BY NextInv, StepRefines
<1> QED BY <1>1, <1>2, PTL DEF Spec, ImplementsFifo, Fifo!FifoSpec
=============================================================================
