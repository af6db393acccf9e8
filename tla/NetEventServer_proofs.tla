------------------------- MODULE NetEventServer_proofs -------------------------
(***************************************************************************)
(* For any number of receivers, senders, clients and ids: no two clients   *)
(* ever share a link id, and no id in use is in the pool; in the second    *)
(* part, what a thread dereferences is alive; and in the third, below the  *)
(* connection limit, the application and the table agree.                  *)
(*                                                                         *)
(* The table is written without m_channel_mtx, so this cannot rest on      *)
(* mutual exclusion, and a slot may be cleared under a Channel that is     *)
(* alive.  It rests on three things instead: a socket reaches at most one  *)
(* receiver (QueueInv); a slot that is not NULL has the Channel that bears *)
(* its number (TableInv); and a receiver gives an id back only after       *)
(* closing the socket of the Channel that bore it (CloseInv).              *)
(***************************************************************************)
EXTENDS MCNetEventServer, SequenceTheorems, FiniteSetTheorems, TLAPS

\* Receivers that carry a socket without a Channel, or an id without one.
Before == {"alloc", "check", "install"}
Carrying(r) == rx[r].pc \in {"check", "install", "release"}

\* A socket that is accepted has no Channel yet, then has one.
Fresh(c) == m_fd[c] = "open" /\ obj[c] = "none"
InUse(c) == m_fd[c] = "open" /\ obj[c] = "live"

Types ==
    /\ m_ids \in Seq(Ids)
    /\ conn_queue \in [Receivers -> Seq(Conns)]
    /\ rx \in [Receivers ->
                 [pc : {"loop", "pop", "close"} \union InNotify \union InClose,
                  conn : Conns \union {NoConn}, id : Ids \union {-1}]]
    /\ armed \in [Receivers -> SUBSET Conns]
    /\ m_Channels \in [Ids -> Conns \union {NoConn}]
    /\ m_fd \in [Conns -> {"none", "open", "closed"}]
    /\ obj \in [Conns -> {"none", "live", "freed"}]
    /\ m_channelID \in [Conns -> Ids \union {-1}]

\* What a receiver has in hand is there when it needs it.
HandInv ==
    \A r \in Receivers :
        /\ rx[r].pc \in InNotify \union InClose \union {"close"} => rx[r].conn \in Conns
        /\ rx[r].pc \in {"check", "install", "close"} \union InClose => rx[r].id \in Ids
        /\ rx[r].pc \in {"announce", "enable"} => m_channelID[rx[r].conn] \in Ids
        /\ \A c \in armed[r] : m_channelID[c] \in Ids

\* A socket that has no Channel yet is in one place.
QueueInv ==
    /\ \A r \in Receivers : \A n \in 1..Len(conn_queue[r]) : Fresh(conn_queue[r][n])
    /\ \A r, q \in Receivers :
         \A n \in 1..Len(conn_queue[r]), m \in 1..Len(conn_queue[q]) :
            conn_queue[r][n] = conn_queue[q][m] => r = q /\ n = m
    /\ \A r \in Receivers : rx[r].pc \in Before =>
         /\ Fresh(rx[r].conn)
         /\ \A q \in Receivers : \A n \in 1..Len(conn_queue[q]) :
               conn_queue[q][n] # rx[r].conn
         /\ \A q \in Receivers :
               rx[q].pc \in Before /\ rx[q].conn = rx[r].conn => q = r

\* A slot has the Channel that bears its number, with its socket open as long
\* as it lives.
TableInv ==
    /\ \A k \in Ids : m_Channels[k] # NoConn =>
         /\ m_channelID[m_Channels[k]] = k
         /\ obj[m_Channels[k]] # "none"
         /\ m_fd[m_Channels[k]] # "none"
    /\ \A c \in Conns : obj[c] = "freed" => m_fd[c] = "closed"
    /\ \A c \in Conns : m_fd[c] = "none" => obj[c] = "none"

\* Inside Close the socket is closed; until ReleaseID the id is the Channel's.
CloseInv ==
    \A r \in Receivers : rx[r].pc \in InClose =>
        /\ m_fd[rx[r].conn] = "closed"
        /\ obj[rx[r].conn] # "none"
        /\ rx[r].pc = "release" => m_channelID[rx[r].conn] = rx[r].id

\* LinkIdsUnique, one pair of owners at a time.
PoolInv ==
    /\ \A n, m \in 1..Len(m_ids) : m_ids[n] = m_ids[m] => n = m
    /\ \A n \in 1..Len(m_ids) :
         /\ \A c \in Conns : InUse(c) => m_channelID[c] # m_ids[n]
         /\ \A r \in Receivers : Carrying(r) => rx[r].id # m_ids[n]
    /\ \A c, d \in Conns : InUse(c) /\ InUse(d) /\ m_channelID[c] = m_channelID[d]
                              /\ m_channelID[c] \in Ids => c = d
    /\ \A r, q \in Receivers : Carrying(r) /\ Carrying(q) /\ rx[r].id = rx[q].id => r = q
    /\ \A c \in Conns, r \in Receivers :
         InUse(c) /\ Carrying(r) => m_channelID[c] # rx[r].id

Inv == Types /\ HandInv /\ QueueInv /\ TableInv /\ CloseInv /\ PoolInv

\* Accept: a socket that was nowhere goes to the end of one queue.
LEMMA AcceptInv ==
    ASSUME Inv, NEW c \in Conns, Accept(c)
    PROVE  Inv'
<1> USE DEF Inv, Goto, Return, Idle, InNotify, InClose
<1> DEFINE r == (m_last_thread + 1) % ThreadNum
<1>1. m_fd[c] = "none" /\ m_fd' = [m_fd EXCEPT ![c] = "open"]
      /\ UNCHANGED <<m_ids, rx, armed, m_Channels, obj, m_channelID>>
      /\ conn_queue' = [conn_queue EXCEPT ![r] = Append(@, c)]
  BY DEF Accept
<1>2. obj[c] = "none"
  BY <1>1 DEF TableInv, Types
<1>3. CASE r \in Receivers
  <2> DEFINE q == conn_queue[r]
  <2>a. /\ Append(q, c) \in Seq(Conns) /\ Len(Append(q, c)) = Len(q) + 1
        /\ \A n \in 1..Len(q) : Append(q, c)[n] = q[n]
        /\ Append(q, c)[Len(q) + 1] = c
        /\ Len(q) \in Nat
    BY <1>3, AppendProperties, LenProperties DEF Types
  <2>1. Types'
    BY <1>1, <1>2, <1>3, <2>a DEF Types
  <2>2. HandInv'
    BY <1>1, <1>2, <1>3, <2>a DEF Types, HandInv
  <2>3. QueueInv'
    BY <1>1, <1>2, <1>3, <2>a, SMTT(30) DEF Types, QueueInv, Before, Fresh
  <2>4. TableInv'
    BY <1>1, <1>2, <1>3, <2>a DEF Types, TableInv, HandInv, CloseInv, QueueInv, Before, Fresh
  <2>5. CloseInv'
    BY <1>1, <1>2, <1>3, <2>a DEF Types, CloseInv, HandInv, TableInv, QueueInv, Before, Fresh
  <2>6. PoolInv'
    BY <1>1, <1>2, <1>3, <2>a DEF Types, PoolInv, InUse, Carrying, HandInv, TableInv, CloseInv
  <2> QED BY <2>1, <2>2, <2>3, <2>4, <2>5, <2>6
<1>4. CASE r \notin Receivers
  <2>a. conn_queue' = conn_queue
    BY <1>1, <1>4 DEF Types
  <2>1. Types'
    BY <1>1, <1>2, <2>a DEF Types
  <2>2. HandInv'
    BY <1>1, <1>2, <2>a DEF Types, HandInv
  <2>3. QueueInv'
    BY <1>1, <1>2, <2>a DEF Types, QueueInv, Before, Fresh
  <2>4. TableInv'
    BY <1>1, <1>2, <2>a DEF Types, TableInv, HandInv, CloseInv, QueueInv, Before, Fresh
  <2>5. CloseInv'
    BY <1>1, <1>2, <2>a DEF Types, CloseInv, HandInv, TableInv, QueueInv, Before, Fresh
  <2>6. PoolInv'
    BY <1>1, <1>2, <2>a DEF Types, PoolInv, InUse, Carrying, HandInv, TableInv, CloseInv
  <2> QED BY <2>1, <2>2, <2>3, <2>4, <2>5, <2>6
<1> QED BY <1>3, <1>4

\* NotifyCb changes a pc only.
LEMMA NotifyCbInv ==
    ASSUME Inv, NEW r \in Receivers, NotifyCb(r)
    PROVE  Inv'
<1> USE DEF Inv, Goto, Return, Idle, InNotify, InClose
<1>1. Types'
  BY ZenonT(30) DEF NotifyCb, connVars, Types
<1>2. HandInv'
  BY DEF NotifyCb, connVars, Types, HandInv
<1>3. QueueInv'
  BY DEF NotifyCb, connVars, Types, QueueInv, Before, Fresh
<1>4. TableInv'
  BY DEF NotifyCb, connVars, Types, TableInv, HandInv, CloseInv, QueueInv, Before, Fresh
<1>5. CloseInv'
  BY DEF NotifyCb, connVars, Types, CloseInv, HandInv, TableInv, QueueInv, Before, Fresh
<1>6. PoolInv'
  BY DEF NotifyCb, connVars, Types, PoolInv, InUse, Carrying, HandInv, TableInv, CloseInv
<1> QED BY <1>1, <1>2, <1>3, <1>4, <1>5, <1>6

\* No socket is queued twice, and without the front of one queue none is.
OneEachQueued(cq) ==
    \A r, q \in Receivers : \A n \in 1..Len(cq[r]), m \in 1..Len(cq[q]) :
        cq[r][n] = cq[q][m] => r = q /\ n = m

\* dq is cq without the front of r's queue, which nobody has any more.
WithoutFront(cq, dq, r) ==
    /\ OneEachQueued(dq)
    /\ \A q \in Receivers : \A n \in 1..Len(dq[q]) :
          /\ dq[q][n] # Head(cq[r])
          /\ \E i \in 1..Len(cq[q]) : dq[q][n] = cq[q][i]
    /\ \E i \in 1..Len(cq[r]) : Head(cq[r]) = cq[r][i]

\* A pop leaves it so.
LEMMA FrontGone ==
    ASSUME NEW S, NEW cq \in [Receivers -> Seq(S)], NEW r \in Receivers, cq[r] # <<>>,
           NEW dq, dq = [cq EXCEPT ![r] = Tail(@)], OneEachQueued(cq)
    PROVE  WithoutFront(cq, dq, r)
<1>1. /\ Head(cq[r]) = cq[r][1] /\ Len(cq[r]) \in Nat \ {0} /\ 1 \in 1..Len(cq[r])
      /\ dq[r] = Tail(cq[r]) /\ Len(dq[r]) = Len(cq[r]) - 1
      /\ \A n \in 1..Len(dq[r]) : dq[r][n] = cq[r][n + 1]
  <2>1. cq[r] \in Seq(S) /\ dq[r] = Tail(cq[r])
    OBVIOUS
  <2>2. /\ Head(cq[r]) = cq[r][1] /\ Len(cq[r]) \in Nat \ {0}
        /\ Len(Tail(cq[r])) = Len(cq[r]) - 1
        /\ \A n \in 1..Len(Tail(cq[r])) : Tail(cq[r])[n] = cq[r][n + 1]
    BY <2>1, HeadTailProperties, LenProperties, EmptySeq
  <2> QED BY <2>1, <2>2
<1>2. \A q \in Receivers : q # r => dq[q] = cq[q]
  OBVIOUS
<1>3. \A n \in 1..Len(dq[r]) : n \in Nat \ {0} /\ n + 1 \in 1..Len(cq[r]) /\ n + 1 # 1
  BY <1>1
<1>4. ASSUME NEW q \in Receivers, NEW n \in 1..Len(dq[q])
      PROVE  \E i \in 1..Len(cq[q]) : /\ dq[q][n] = cq[q][i]
                                      /\ q = r => i = n + 1
                                      /\ q # r => i = n
  <2>1. CASE q = r
    BY <1>1, <1>3, <1>4, <2>1
  <2>2. CASE q # r
    BY <1>2, <1>4, <2>2
  <2> QED BY <2>1, <2>2
<1>5. ASSUME NEW q \in Receivers, NEW n \in 1..Len(dq[q])
      PROVE  dq[q][n] # Head(cq[r])
  <2>1. PICK i \in 1..Len(cq[q]) : dq[q][n] = cq[q][i] /\ (q = r => i = n + 1)
    BY <1>4
  <2>2. q = r => i # 1
    BY <1>3, <1>5, <2>1
  <2> QED BY <1>1, <2>1, <2>2 DEF OneEachQueued
<1>6. ASSUME NEW p \in Receivers, NEW q \in Receivers,
             NEW n \in 1..Len(dq[p]), NEW m \in 1..Len(dq[q]), dq[p][n] = dq[q][m]
      PROVE  p = q /\ n = m
  <2>1. PICK i \in 1..Len(cq[p]) :
           dq[p][n] = cq[p][i] /\ (p = r => i = n + 1) /\ (p # r => i = n)
    BY <1>4
  <2>2. PICK j \in 1..Len(cq[q]) :
           dq[q][m] = cq[q][j] /\ (q = r => j = m + 1) /\ (q # r => j = m)
    BY <1>4
  <2>3. p = q /\ i = j
    BY <1>6, <2>1, <2>2 DEF OneEachQueued
  <2> QED BY <2>1, <2>2, <2>3
<1>7. OneEachQueued(dq)
  BY <1>6 DEF OneEachQueued
<1>8. \A q \in Receivers : \A n \in 1..Len(dq[q]) : dq[q][n] # Head(cq[r])
  BY <1>5
<1>9. \A q \in Receivers : \A n \in 1..Len(dq[q]) :
         \E i \in 1..Len(cq[q]) : dq[q][n] = cq[q][i]
  BY <1>4
<1>10. \E i \in 1..Len(cq[r]) : Head(cq[r]) = cq[r][i]
  BY <1>1
<1> QED BY ONLY <1>7, <1>8, <1>9, <1>10 DEF WithoutFront

\* PopConn: the front socket moves from the queue into the receiver's hand.
LEMMA PopConnInv ==
    ASSUME Inv, NEW r \in Receivers, PopConn(r)
    PROVE  Inv'
<1> USE DEF Inv, Goto, Return, Idle, InNotify, InClose
<1>1. Types'
  BY DEF PopConn, connVars, Types
<1>2. HandInv'
  BY DEF PopConn, connVars, Types, HandInv
<1>3. QueueInv'
  <2>1. /\ conn_queue \in [Receivers -> Seq(Conns)] /\ conn_queue[r] # <<>>
        /\ conn_queue' = [conn_queue EXCEPT ![r] = Tail(@)]
        /\ rx' = [rx EXCEPT ![r] = [pc |-> "alloc", conn |-> Head(conn_queue[r]), id |-> -1]]
        /\ UNCHANGED <<m_fd, obj>>
    BY DEF PopConn, connVars, Types
  <2>2. /\ OneEachQueued(conn_queue')
        /\ \A q \in Receivers : \A n \in 1..Len(conn_queue'[q]) :
              /\ conn_queue'[q][n] # Head(conn_queue[r])
              /\ \E i \in 1..Len(conn_queue[q]) : conn_queue'[q][n] = conn_queue[q][i]
        /\ \E i \in 1..Len(conn_queue[r]) : Head(conn_queue[r]) = conn_queue[r][i]
    <3>1. OneEachQueued(conn_queue)
      BY DEF QueueInv, OneEachQueued
    <3>2. WithoutFront(conn_queue, conn_queue', r)
      BY ONLY <2>1, <3>1, r \in Receivers, FrontGone
    <3> QED BY ONLY <3>2 DEF WithoutFront
  <2>3. PICK c : /\ c = Head(conn_queue[r]) /\ rx'[r].pc = "alloc" /\ rx'[r].conn = c
                 /\ \A q \in Receivers : q # r => rx'[q] = rx[q]
    BY <2>1 DEF Types
  <2>4. Fresh(c) /\ \A q \in Receivers : rx[q].pc \in Before => rx[q].conn # c
    BY <2>2, <2>3 DEF QueueInv
  <2>6. \A q \in Receivers : \A n \in 1..Len(conn_queue'[q]) :
           /\ Fresh(conn_queue'[q][n])
           /\ conn_queue'[q][n] # c
           /\ \A p \in Receivers : rx[p].pc \in Before => conn_queue'[q][n] # rx[p].conn
    <3>1. ASSUME NEW q \in Receivers, NEW n \in 1..Len(conn_queue'[q])
          PROVE  /\ Fresh(conn_queue'[q][n])
                 /\ conn_queue'[q][n] # c
                 /\ \A p \in Receivers :
                       rx[p].pc \in Before => conn_queue'[q][n] # rx[p].conn
      <4>1. PICK i \in 1..Len(conn_queue[q]) : conn_queue'[q][n] = conn_queue[q][i]
        BY <2>2
      <4>2. conn_queue'[q][n] # c
        BY <2>2, <2>3
      <4>3. Fresh(conn_queue[q][i])
        BY DEF QueueInv
      <4>4. \A p \in Receivers : rx[p].pc \in Before => conn_queue[q][i] # rx[p].conn
        BY DEF QueueInv
      <4> QED BY ONLY <4>1, <4>2, <4>3, <4>4
    <3> QED BY <3>1
  <2>7. ASSUME NEW p \in Receivers, rx'[p].pc \in Before
        PROVE  /\ Fresh(rx'[p].conn)
               /\ \A q \in Receivers : \A n \in 1..Len(conn_queue'[q]) :
                     conn_queue'[q][n] # rx'[p].conn
               /\ \A q \in Receivers :
                     rx'[q].pc \in Before /\ rx'[q].conn = rx'[p].conn => q = p
    <3>1. CASE p = r
      BY <2>3, <2>4, <2>6, <2>7, <3>1
    <3>2. CASE p # r
      <4>1. rx'[p] = rx[p] /\ rx[p].pc \in Before /\ rx[p].conn # c
        BY <2>3, <2>4, <2>7, <3>2
      <4>2. \A q \in Receivers : rx'[q].pc \in Before /\ rx'[q].conn = rx[p].conn => q = p
        BY <2>3, <4>1 DEF QueueInv
      <4> QED BY <2>6, <4>1, <4>2 DEF QueueInv
    <3> QED BY <3>1, <3>2
  <2>8. (\A q \in Receivers : \A n \in 1..Len(conn_queue[q]) : Fresh(conn_queue[q][n]))'
    <3>1. m_fd' = m_fd /\ obj' = obj
      BY <2>1
    <3>2. \A q \in Receivers : \A n \in 1..Len(conn_queue'[q]) : Fresh(conn_queue'[q][n])
      BY <2>6
    <3> QED BY ONLY <3>1, <3>2 DEF Fresh
  <2>9. (\A p \in Receivers : rx[p].pc \in Before => Fresh(rx[p].conn))'
    BY ONLY <2>1, <2>7 DEF Fresh, Before
  <2>10. \A r_1, q \in Receivers :
            \A n \in 1..Len(conn_queue'[r_1]), m \in 1..Len(conn_queue'[q]) :
              conn_queue'[r_1][n] = conn_queue'[q][m] => r_1 = q /\ n = m
    BY <2>2 DEF OneEachQueued
  <2>11. \A p \in Receivers : rx'[p].pc \in Before =>
           /\ \A q \in Receivers : \A n \in 1..Len(conn_queue'[q]) :
                 conn_queue'[q][n] # rx'[p].conn
           /\ \A q \in Receivers :
                 rx'[q].pc \in Before /\ rx'[q].conn = rx'[p].conn => q = p
    BY ONLY <2>7
  <2> QED BY ONLY <2>8, <2>9, <2>10, <2>11 DEF QueueInv, Before
<1>4. TableInv'
  BY DEF PopConn, connVars, Types, TableInv, HandInv, CloseInv, QueueInv, Before, Fresh
<1>5. CloseInv'
  BY DEF PopConn, connVars, Types, CloseInv, HandInv, TableInv, QueueInv, Before, Fresh
<1>6. PoolInv'
  BY DEF PopConn, connVars, Types, PoolInv, InUse, Carrying, HandInv, TableInv, CloseInv
<1> QED BY <1>1, <1>2, <1>3, <1>4, <1>5, <1>6

\* AllocID: the front id moves from the pool into the receiver's hand.
LEMMA AllocIDInv ==
    ASSUME Inv, NEW r \in Receivers, AllocID(r)
    PROVE  Inv'
<1> USE DEF Inv, Goto, Return, Idle, InNotify, InClose
<1>1. rx[r].pc = "alloc" /\ UNCHANGED <<conn_queue, armed, m_Channels, obj, m_channelID>>
  BY DEF AllocID
<1>2. ASSUME m_fd' = [m_fd EXCEPT ![rx[r].conn] = "closed"],
             rx' = [rx EXCEPT ![r] = Idle], m_ids' = m_ids
      PROVE  Inv'
  <2>1. Types'
    BY <1>1, <1>2 DEF Types
  <2>2. HandInv'
    BY <1>1, <1>2 DEF Types, HandInv
  <2>3. QueueInv'
    BY <1>1, <1>2 DEF Types, QueueInv, Before, Fresh
  <2>4. TableInv'
    BY <1>1, <1>2 DEF Types, TableInv, HandInv, CloseInv, QueueInv, Before, Fresh
  <2>5. CloseInv'
    BY <1>1, <1>2 DEF Types, CloseInv, HandInv, TableInv, QueueInv, Before, Fresh
  <2>6. PoolInv'
    BY <1>1, <1>2 DEF Types, PoolInv, InUse, Carrying, HandInv, TableInv, CloseInv
  <2> QED BY <2>1, <2>2, <2>3, <2>4, <2>5, <2>6
<1>3. ASSUME NEW id \in Ids, GetFreeID(id), m_fd' = m_fd,
             rx' = [rx EXCEPT ![r] = [@ EXCEPT !.pc = "check", !.id = id]]
      PROVE  Inv'
  <2>a. /\ m_ids # <<>> /\ id = m_ids[1] /\ m_ids' = Tail(m_ids)
    BY <1>3 DEF GetFreeID, Types
  <2>b. /\ m_ids' \in Seq(Ids) /\ Len(m_ids') = Len(m_ids) - 1
        /\ Len(m_ids) \in Nat \ {0}
        /\ \A n \in 1..Len(m_ids') : m_ids'[n] = m_ids[n + 1]
    BY <2>a, HeadTailProperties, LenProperties, EmptySeq DEF Types
  <2>c. /\ rx'[r].pc = "check" /\ rx'[r].id = id /\ rx'[r].conn = rx[r].conn
        /\ \A q \in Receivers : q # r => rx'[q] = rx[q]
        /\ DOMAIN rx' = Receivers
    BY <1>3 DEF Types
  <2>1. Types'
    BY <1>1, <1>3, <2>a, <2>b, <2>c, ZenonT(30) DEF Types
  <2>2. HandInv'
    BY <1>1, <1>3, <2>a, <2>b, <2>c DEF Types, HandInv
  <2>3. QueueInv'
    BY <1>1, <1>3, <2>a, <2>b, <2>c DEF Types, QueueInv, Before, Fresh
  <2>4. TableInv'
    BY <1>1, <1>3, <2>a, <2>b, <2>c DEF Types, TableInv, HandInv, CloseInv, QueueInv, Before, Fresh
  <2>5. CloseInv'
    BY <1>1, <1>3, <2>a, <2>b, <2>c DEF Types, CloseInv, HandInv, TableInv, QueueInv, Before, Fresh
  <2>6. PoolInv'
    <3>1. \A n, m \in 1..Len(m_ids') : m_ids'[n] = m_ids'[m] => n = m
      BY <2>b DEF PoolInv
    <3>2. \A n \in 1..Len(m_ids') : m_ids'[n] # id
      BY <2>a, <2>b DEF PoolInv
    <3>3. \A d \in Conns : InUse(d)' => InUse(d) /\ m_channelID'[d] = m_channelID[d]
      BY <1>1, <1>3 DEF InUse
    <3>4. \A d \in Conns : InUse(d) => m_channelID[d] # id
      BY <2>a, <2>b DEF PoolInv
    <3>5. \A q \in Receivers : Carrying(q) => rx[q].id # id
      BY <2>a, <2>b DEF PoolInv
    <3>6. \A q \in Receivers : Carrying(q)' => q = r \/ (Carrying(q) /\ rx'[q].id = rx[q].id)
      BY <2>c DEF Carrying
    <3> QED BY <1>1, <2>a, <2>b, <2>c, <3>1, <3>2, <3>3, <3>4, <3>5, <3>6 DEF PoolInv
  <2> QED BY <2>1, <2>2, <2>3, <2>4, <2>5, <2>6
<1>4. QED
  BY <1>2, <1>3 DEF AllocID

\* CheckSlot: the id stays in hand, or is lost with the socket closed.
LEMMA CheckSlotInv ==
    ASSUME Inv, NEW r \in Receivers, CheckSlot(r)
    PROVE  Inv'
<1> USE DEF Inv, Goto, Return, Idle, InNotify, InClose
<1>1. rx[r].pc = "check"
      /\ UNCHANGED <<m_ids, conn_queue, armed, m_Channels, obj, m_channelID>>
  BY DEF CheckSlot
<1>2. ASSUME rx' = [rx EXCEPT ![r].pc = "install"], m_fd' = m_fd
      PROVE  Inv'
  <2>1. Types'
    BY <1>1, <1>2, ZenonT(30) DEF Types
  <2>2. HandInv'
    BY <1>1, <1>2 DEF Types, HandInv
  <2>3. QueueInv'
    BY <1>1, <1>2 DEF Types, QueueInv, Before, Fresh
  <2>4. TableInv'
    BY <1>1, <1>2 DEF Types, TableInv, HandInv, CloseInv, QueueInv, Before, Fresh
  <2>5. CloseInv'
    BY <1>1, <1>2 DEF Types, CloseInv, HandInv, TableInv, QueueInv, Before, Fresh
  <2>6. PoolInv'
    BY <1>1, <1>2 DEF Types, PoolInv, InUse, Carrying, HandInv, TableInv, CloseInv
  <2> QED BY <2>1, <2>2, <2>3, <2>4, <2>5, <2>6
<1>3. ASSUME rx' = [rx EXCEPT ![r] = Idle],
             m_fd' = [m_fd EXCEPT ![rx[r].conn] = "closed"]
      PROVE  Inv'
  <2>1. Types'
    BY <1>1, <1>3 DEF Types
  <2>2. HandInv'
    BY <1>1, <1>3 DEF Types, HandInv
  <2>3. QueueInv'
    BY <1>1, <1>3 DEF Types, QueueInv, Before, Fresh
  <2>4. TableInv'
    BY <1>1, <1>3 DEF Types, TableInv, HandInv, CloseInv, QueueInv, Before, Fresh
  <2>5. CloseInv'
    BY <1>1, <1>3 DEF Types, CloseInv, HandInv, TableInv, QueueInv, Before, Fresh
  <2>6. PoolInv'
    BY <1>1, <1>3 DEF Types, PoolInv, InUse, Carrying, HandInv, TableInv, CloseInv
  <2> QED BY <2>1, <2>2, <2>3, <2>4, <2>5, <2>6
<1> QED BY <1>2, <1>3 DEF CheckSlot

\* Install: the id moves from the receiver to the new Channel.
LEMMA InstallInv ==
    ASSUME Inv, NEW r \in Receivers, Install(r)
    PROVE  Inv'
<1> USE DEF Inv, Goto, Return, Idle, InNotify, InClose
<1>1. Types'
  BY ZenonT(30) DEF Install, connVars, Types
<1>2. HandInv'
  BY DEF Install, connVars, Types, HandInv
<1>3. QueueInv'
  BY DEF Install, connVars, Types, QueueInv, Before, Fresh
<1>4. TableInv'
  BY DEF Install, connVars, Types, TableInv, HandInv, CloseInv, QueueInv, Before, Fresh
<1>5. CloseInv'
  BY DEF Install, connVars, Types, CloseInv, HandInv, TableInv, QueueInv, Before, Fresh
<1>6. PoolInv'
  BY DEF Install, connVars, Types, PoolInv, InUse, Carrying, HandInv, TableInv, CloseInv
<1> QED BY <1>1, <1>2, <1>3, <1>4, <1>5, <1>6

\* Announce changes a pc only.
LEMMA AnnounceInv ==
    ASSUME Inv, NEW r \in Receivers, Announce(r)
    PROVE  Inv'
<1> USE DEF Inv, Goto, Return, Idle, InNotify, InClose
<1>1. Types'
  BY ZenonT(30) DEF Announce, connVars, Types
<1>2. HandInv'
  BY DEF Announce, connVars, Types, HandInv
<1>3. QueueInv'
  BY DEF Announce, connVars, Types, QueueInv, Before, Fresh
<1>4. TableInv'
  BY DEF Announce, connVars, Types, TableInv, HandInv, CloseInv, QueueInv, Before, Fresh
<1>5. CloseInv'
  BY DEF Announce, connVars, Types, CloseInv, HandInv, TableInv, QueueInv, Before, Fresh
<1>6. PoolInv'
  BY DEF Announce, connVars, Types, PoolInv, InUse, Carrying, HandInv, TableInv, CloseInv
<1> QED BY <1>1, <1>2, <1>3, <1>4, <1>5, <1>6

\* Enable: a Channel with an id is armed.
LEMMA EnableInv ==
    ASSUME Inv, NEW r \in Receivers, Enable(r)
    PROVE  Inv'
<1> USE DEF Inv, Goto, Return, Idle, InNotify, InClose
<1>1. Types'
  BY DEF Enable, HandInv, connVars, Types
<1>2. HandInv'
  BY DEF Enable, connVars, Types, HandInv
<1>3. QueueInv'
  BY DEF Enable, connVars, Types, QueueInv, Before, Fresh
<1>4. TableInv'
  BY DEF Enable, connVars, Types, TableInv, HandInv, CloseInv, QueueInv, Before, Fresh
<1>5. CloseInv'
  BY DEF Enable, connVars, Types, CloseInv, HandInv, TableInv, QueueInv, Before, Fresh
<1>6. PoolInv'
  BY DEF Enable, connVars, Types, PoolInv, InUse, Carrying, HandInv, TableInv, CloseInv
<1> QED BY <1>1, <1>2, <1>3, <1>4, <1>5, <1>6

\* EventCb: the receiver takes the id of an armed Channel.
LEMMA EventCbInv ==
    ASSUME Inv, NEW r \in Receivers, NEW c \in Conns, EventCb(r, c)
    PROVE  Inv'
<1> USE DEF Inv, Goto, Return, Idle, InNotify, InClose
<1>1. Types'
  BY DEF EventCb, connVars, Types
<1>2. HandInv'
  BY DEF EventCb, connVars, Types, HandInv
<1>3. QueueInv'
  BY DEF EventCb, connVars, Types, QueueInv, Before, Fresh
<1>4. TableInv'
  BY DEF EventCb, connVars, Types, TableInv, HandInv, CloseInv, QueueInv, Before, Fresh
<1>5. CloseInv'
  BY DEF EventCb, connVars, Types, CloseInv, HandInv, TableInv, QueueInv, Before, Fresh
<1>6. PoolInv'
  BY DEF EventCb, connVars, Types, PoolInv, InUse, Carrying, HandInv, TableInv, CloseInv
<1> QED BY <1>1, <1>2, <1>3, <1>4, <1>5, <1>6

\* CloseChannel: the id moves from the Channel in the slot to the receiver.
LEMMA CloseChannelInv ==
    ASSUME Inv, NEW r \in Receivers, CloseChannel(r)
    PROVE  Inv'
<1> USE DEF Inv, Goto, Return, Idle, InNotify, InClose
<1> DEFINE c == m_Channels[rx[r].id]
<1>1. rx[r].pc = "close"
      /\ UNCHANGED <<m_ids, conn_queue, armed, m_Channels, obj, m_channelID>>
  BY DEF CloseChannel
<1>2. rx[r].id \in Ids /\ (c = NoConn \/ c \in Conns)
  BY <1>1 DEF HandInv, Types
<1>3. ASSUME rx' = [rx EXCEPT ![r] = Idle], m_fd' = m_fd
      PROVE  Inv'
  <2>1. Types'
    BY <1>1, <1>3 DEF Types
  <2>2. HandInv'
    BY <1>1, <1>3 DEF Types, HandInv
  <2>3. QueueInv'
    BY <1>1, <1>3 DEF Types, QueueInv, Before, Fresh
  <2>4. TableInv'
    BY <1>1, <1>3 DEF Types, TableInv, HandInv, CloseInv, QueueInv, Before, Fresh
  <2>5. CloseInv'
    BY <1>1, <1>3 DEF Types, CloseInv, HandInv, TableInv, QueueInv, Before, Fresh
  <2>6. PoolInv'
    BY <1>1, <1>3 DEF Types, PoolInv, InUse, Carrying, HandInv, TableInv, CloseInv
  <2> QED BY <2>1, <2>2, <2>3, <2>4, <2>5, <2>6
<1>4. ASSUME c # NoConn, m_fd[c] # "closed", m_fd' = [m_fd EXCEPT ![c] = "closed"],
             rx' = [rx EXCEPT ![r] = [@ EXCEPT !.pc = "release", !.conn = c]]
      PROVE  Inv'
  <2>a. /\ c \in Conns /\ m_channelID[c] = rx[r].id /\ InUse(c)
    BY <1>2, <1>4 DEF TableInv, Types, InUse
  <2>b. /\ rx'[r].pc = "release" /\ rx'[r].id = rx[r].id /\ rx'[r].conn = c
        /\ \A q \in Receivers : q # r => rx'[q] = rx[q]
    BY <1>4 DEF Types
  <2>1. Types'
    BY <1>1, <1>2, <1>4, <2>a, <2>b DEF InUse, Types
  <2>2. HandInv'
    BY <1>1, <1>2, <1>4, <2>a, <2>b DEF InUse, Types, HandInv
  <2>3. QueueInv'
    BY <1>1, <1>2, <1>4, <2>a, <2>b DEF InUse, Types, QueueInv, Before, Fresh
  <2>4. TableInv'
    BY <1>1, <1>2, <1>4, <2>a, <2>b DEF InUse, Types, TableInv, HandInv, CloseInv, QueueInv, Before, Fresh
  <2>5. CloseInv'
    BY <1>1, <1>2, <1>4, <2>a, <2>b DEF InUse, Types, CloseInv, HandInv, TableInv, QueueInv, Before, Fresh
  <2>6. PoolInv'
    BY <1>1, <1>2, <1>4, <2>a, <2>b DEF InUse, Types, PoolInv, InUse, Carrying, HandInv, TableInv, CloseInv
  <2> QED BY <2>1, <2>2, <2>3, <2>4, <2>5, <2>6
<1>5. ASSUME c # NoConn, m_fd[c] = "closed", m_fd' = m_fd,
             rx' = [rx EXCEPT ![r] = [@ EXCEPT !.pc = "delete", !.conn = c]]
      PROVE  Inv'
  <2>a. /\ rx'[r].pc = "delete" /\ rx'[r].id = rx[r].id /\ rx'[r].conn = c
        /\ \A q \in Receivers : q # r => rx'[q] = rx[q]
    BY <1>5 DEF Types
  <2>1. Types'
    BY <1>1, <1>2, <1>5, <2>a DEF Types
  <2>2. HandInv'
    BY <1>1, <1>2, <1>5, <2>a DEF Types, HandInv
  <2>3. QueueInv'
    BY <1>1, <1>2, <1>5, <2>a DEF Types, QueueInv, Before, Fresh
  <2>4. TableInv'
    BY <1>1, <1>2, <1>5, <2>a DEF Types, TableInv, HandInv, CloseInv, QueueInv, Before, Fresh
  <2>5. CloseInv'
    BY <1>1, <1>2, <1>5, <2>a DEF Types, CloseInv, HandInv, TableInv, QueueInv, Before, Fresh
  <2>6. PoolInv'
    BY <1>1, <1>2, <1>5, <2>a DEF Types, PoolInv, InUse, Carrying, HandInv, TableInv, CloseInv
  <2> QED BY <2>1, <2>2, <2>3, <2>4, <2>5, <2>6
<1> QED BY <1>3, <1>4, <1>5 DEF CloseChannel

\* Release: the id moves from the receiver to the end of the pool.
LEMMA ReleaseInv ==
    ASSUME Inv, NEW r \in Receivers, Release(r)
    PROVE  Inv'
<1> USE DEF Inv, Goto, Return, Idle, InNotify, InClose
<1>a. /\ rx[r].pc = "release" /\ rx[r].id \in Ids
      /\ m_ids' = Append(m_ids, rx[r].id)
      /\ rx' = [rx EXCEPT ![r].pc = "report"]
      /\ UNCHANGED <<conn_queue, armed, m_Channels, m_fd, obj, m_channelID>>
  BY DEF Release, ReleaseID, CloseInv, HandInv, connVars
<1>b. /\ m_ids' \in Seq(Ids) /\ Len(m_ids') = Len(m_ids) + 1 /\ Len(m_ids) \in Nat
      /\ \A n \in 1..Len(m_ids) : m_ids'[n] = m_ids[n]
      /\ m_ids'[Len(m_ids) + 1] = rx[r].id
  BY <1>a, AppendProperties, LenProperties DEF Types
<1>1. Types'
  <2> DEFINE R == [pc : {"loop", "pop", "close"} \union InNotify \union InClose,
                 conn : Conns \union {NoConn}, id : Ids \union {-1}]
  <2>1. rx \in [Receivers -> R]
    BY DEF Types
  <2>2. [rx[r] EXCEPT !.pc = "report"] \in R
    BY <2>1
  <2>3. rx' = [rx EXCEPT ![r] = [rx[r] EXCEPT !.pc = "report"]]
    BY <1>a, <2>1
  <2>4. rx' \in [Receivers -> R]
    BY <2>1, <2>2, <2>3
  <2> QED BY <1>a, <1>b, <2>4 DEF Types
<1>2. HandInv'
  BY <1>a, <1>b DEF Types, HandInv
<1>3. QueueInv'
  BY <1>a, <1>b DEF Types, QueueInv, Before, Fresh
<1>4. TableInv'
  BY <1>a, <1>b DEF Types, TableInv, HandInv, CloseInv, QueueInv, Before, Fresh
<1>5. CloseInv'
  BY <1>a, <1>b DEF Types, CloseInv, HandInv, TableInv, QueueInv, Before, Fresh
<1>6. PoolInv'
  BY <1>a, <1>b DEF Types, PoolInv, InUse, Carrying, HandInv, TableInv, CloseInv
<1> QED BY <1>1, <1>2, <1>3, <1>4, <1>5, <1>6

\* Report changes a pc only.
LEMMA ReportInv ==
    ASSUME Inv, NEW r \in Receivers, Report(r)
    PROVE  Inv'
<1> USE DEF Inv, Goto, Return, Idle, InNotify, InClose
<1>1. Types'
  BY ZenonT(30) DEF Report, connVars, Types
<1>2. HandInv'
  BY DEF Report, connVars, Types, HandInv
<1>3. QueueInv'
  BY DEF Report, connVars, Types, QueueInv, Before, Fresh
<1>4. TableInv'
  BY DEF Report, connVars, Types, TableInv, HandInv, CloseInv, QueueInv, Before, Fresh
<1>5. CloseInv'
  BY DEF Report, connVars, Types, CloseInv, HandInv, TableInv, QueueInv, Before, Fresh
<1>6. PoolInv'
  BY DEF Report, connVars, Types, PoolInv, InUse, Carrying, HandInv, TableInv, CloseInv
<1> QED BY <1>1, <1>2, <1>3, <1>4, <1>5, <1>6

\* Delete: a Channel whose socket is closed is freed.
LEMMA DeleteInv ==
    ASSUME Inv, NEW r \in Receivers, Delete(r)
    PROVE  Inv'
<1> USE DEF Inv, Goto, Return, Idle, InNotify, InClose
<1>1. Types'
  BY ZenonT(30) DEF Delete, connVars, Types
<1>2. HandInv'
  BY DEF Delete, connVars, Types, HandInv
<1>3. QueueInv'
  BY DEF Delete, connVars, Types, QueueInv, CloseInv, HandInv, Before, Fresh
<1>4. TableInv'
  BY DEF Delete, connVars, Types, TableInv, HandInv, CloseInv, QueueInv, Before, Fresh
<1>5. CloseInv'
  BY DEF Delete, connVars, Types, CloseInv, HandInv, TableInv, QueueInv, Before, Fresh
<1>6. PoolInv'
  BY DEF Delete, connVars, Types, PoolInv, InUse, Carrying, HandInv, TableInv, CloseInv
<1> QED BY <1>1, <1>2, <1>3, <1>4, <1>5, <1>6

\* ClearSlot: a slot becomes NULL.
LEMMA ClearSlotInv ==
    ASSUME Inv, NEW r \in Receivers, ClearSlot(r)
    PROVE  Inv'
<1> USE DEF Inv, Goto, Return, Idle, InNotify, InClose
<1>1. Types'
  BY DEF ClearSlot, connVars, Types
<1>2. HandInv'
  BY DEF ClearSlot, connVars, Types, HandInv
<1>3. QueueInv'
  BY DEF ClearSlot, connVars, Types, QueueInv, Before, Fresh
<1>4. TableInv'
  BY DEF ClearSlot, connVars, Types, TableInv, HandInv, CloseInv, QueueInv, Before, Fresh
<1>5. CloseInv'
  BY DEF ClearSlot, connVars, Types, CloseInv, HandInv, TableInv, QueueInv, Before, Fresh
<1>6. PoolInv'
  BY DEF ClearSlot, connVars, Types, PoolInv, InUse, Carrying, HandInv, TableInv, CloseInv
<1> QED BY <1>1, <1>2, <1>3, <1>4, <1>5, <1>6
-----------------------------------------------------------------------------
\* The full pool, with nobody connected.
LEMMA InitInv == Init => Inv
<1> SUFFICES ASSUME Init PROVE Inv
  OBVIOUS
<1> USE DEF Init, Idle
<1>1. /\ m_ids \in Seq(Ids) /\ Len(m_ids) = TotalIDs
      /\ \A n \in 1..Len(m_ids) : m_ids[n] = n - 1
  <2>1. m_ids = [k \in 1..TotalIDs |-> k - 1]
    BY DEF PoolInit
  <2>2. \A k \in 1..TotalIDs : k - 1 \in Ids
    BY TotalIDsAssumption DEF Ids
  <2>3. m_ids \in Seq(Ids)
    BY <2>1, <2>2, TotalIDsAssumption, IsASeq
  <2>4. Len(m_ids) = TotalIDs
    BY <2>1, <2>3, TotalIDsAssumption, LenProperties
  <2> QED BY <2>1, <2>3, <2>4
<1>2. Types
  <2>1. \A r \in Receivers : conn_queue[r] \in Seq(Conns)
    OBVIOUS
  <2> QED BY <1>1, <2>1 DEF Types
<1>3. HandInv
  BY DEF HandInv, InNotify, InClose
<1>4. QueueInv
  <2>1. \A r \in Receivers : Len(conn_queue[r]) = 0
    BY EmptySeq
  <2> QED BY <2>1 DEF QueueInv, Before
<1>5. TableInv
  BY DEF TableInv
<1>6. CloseInv
  BY DEF CloseInv, InClose
<1>7. PoolInv
  <2>1. \A n, m \in 1..Len(m_ids) : m_ids[n] = m_ids[m] => n = m
    BY <1>1, TotalIDsAssumption
  <2>2. \A r \in Receivers : ~ Carrying(r)
    BY DEF Carrying
  <2>3. \A c \in Conns : ~ InUse(c)
    BY DEF InUse
  <2> QED BY <2>1, <2>2, <2>3 DEF PoolInv
<1> QED BY <1>2, <1>3, <1>4, <1>5, <1>6, <1>7 DEF Inv

\* The variables that the invariant is about.
invVars == <<m_ids, conn_queue, rx, armed, m_Channels, m_fd, obj, m_channelID>>

\* A step that leaves them alone keeps the invariant.
LEMMA Unconcerned == ASSUME Inv, UNCHANGED invVars PROVE Inv'
BY DEF invVars, Inv, Types, HandInv, QueueInv, TableInv, CloseInv, PoolInv,
       Before, Carrying, Fresh, InUse

\* Every step keeps the invariant.
LEMMA NextInv == Inv /\ [Next]_vars => Inv'
<1> SUFFICES ASSUME Inv, [Next]_vars PROVE Inv'
  OBVIOUS
<1>1. ASSUME NEW c \in Conns, Accept(c) PROVE Inv'
  BY <1>1, AcceptInv
<1>2. ASSUME NEW c \in Conns, HangUp(c) PROVE Inv'
  BY <1>2, Unconcerned DEF HangUp, invVars, connVars
<1>3. CASE Notify
  BY <1>3, Unconcerned DEF Notify, invVars, connVars
<1>4. ASSUME NEW r \in Receivers, Receiver(r) PROVE Inv'
  <2>1. CASE NotifyCb(r)
    BY <2>1, NotifyCbInv
  <2>2. CASE Continue(r)
    BY <2>2, PopConnInv, AllocIDInv, CheckSlotInv, InstallInv, AnnounceInv,
       EnableInv, CloseChannelInv, ReleaseInv, ReportInv, DeleteInv,
       ClearSlotInv DEF Continue
  <2>3. ASSUME NEW c \in Conns, ReadCb(r, c) PROVE Inv'
    BY <2>3, Unconcerned DEF ReadCb, invVars, connVars
  <2>4. ASSUME NEW c \in Conns, EventCb(r, c) PROVE Inv'
    BY <2>4, EventCbInv
  <2> QED BY <1>4, <2>1, <2>2, <2>3, <2>4 DEF Receiver
<1>5. CASE HandleEvent
  BY <1>5, Unconcerned DEF HandleEvent, invVars, connVars
<1>6. CASE Put
  BY <1>6, Unconcerned DEF Put, invVars, connVars
<1>7. ASSUME NEW s \in Senders, Sender(s) PROVE Inv'
  <2>1. UNCHANGED invVars
    BY <1>7 DEF Sender, TakeMsg, Lookup, Found, SendData, invVars, connVars
  <2> QED BY <2>1, Unconcerned
<1>8. CASE UNCHANGED vars
  BY <1>8, Unconcerned DEF vars, invVars
<1> QED BY <1>1, <1>2, <1>3, <1>4, <1>5, <1>6, <1>7, <1>8 DEF Next

\* The invariant gives the property, which speaks of sets of owners.
LEMMA InvImpliesUnique == Inv => LinkIdsUnique
<1> SUFFICES ASSUME Inv PROVE LinkIdsUnique
  OBVIOUS
<1>1. m_ids \in Seq(Ids) /\ DOMAIN m_ids = 1..Len(m_ids)
  BY LenProperties DEF Inv, Types
<1>2. IsInjective(m_ids)
  BY <1>1 DEF Inv, PoolInv, IsInjective
<1>3. ASSUME NEW k \in Ids
      PROVE  /\ k \in ToSet(m_ids) => HeldBy(k) = {} /\ CarriedBy(k) = {}
             /\ \A c, d \in HeldBy(k) : c = d
             /\ \A r, q \in CarriedBy(k) : r = q
             /\ HeldBy(k) = {} \/ CarriedBy(k) = {}
  <2>1. \A c \in HeldBy(k) : c \in Conns /\ InUse(c) /\ m_channelID[c] = k
    BY DEF HeldBy, InUse
  <2>2. \A r \in CarriedBy(k) : r \in Receivers /\ Carrying(r) /\ rx[r].id = k
    BY DEF CarriedBy, Carrying
  <2>3. k \in ToSet(m_ids) => \E n \in 1..Len(m_ids) : m_ids[n] = k
    BY <1>1 DEF ToSet
  <2> QED BY <2>1, <2>2, <2>3 DEF Inv, PoolInv
<1> QED BY <1>2, <1>3 DEF LinkIdsUnique

\* Link ids are unique in every behaviour of the server, with any number of
\* receivers, though the table is written without its mutex.
THEOREM UniqueLinks == Spec => []LinkIdsUnique
BY InitInv, NextInv, InvImpliesUnique, PTL DEF Spec

\* A slot that is not NULL holds a Channel that bears its number (alive or not:
\* SendsAlive; that a connection in use has its slot is TableKept).
THEOREM TableConsistent ==
    Spec => [](\A k \in Ids : m_Channels[k] # NoConn => m_channelID[m_Channels[k]] = k)
<1>1. Inv => \A k \in Ids : m_Channels[k] # NoConn => m_channelID[m_Channels[k]] = k
  BY DEF Inv, TableInv
<1> QED BY <1>1, InitInv, NextInv, PTL DEF Spec
-----------------------------------------------------------------------------
(***************************************************************************)
(* What is dereferenced is alive.  Three more things are needed: where the *)
(* bytes of the notification sockets are (NotifyInv), who is inside        *)
(* m_channel_mtx (MutexInv), and that a Channel whose socket is open is in *)
(* one receiver's hands and has no other Channel in its slot (PlaceInv,    *)
(* SlotInv).  No sender is inside the mutex while a receiver closes, so a  *)
(* Channel found in the table stays as it was found (SenderInv).           *)
(***************************************************************************)
LinkEvents ==
    {e \in [kind : {"connected", "disconnected", "data", "exists"},
            link : Ids \union {-1}, conn : Conns] :
       e.kind = "connected" => e.link \in Ids}

\* The types of what the threads exchange.
SendTypes ==
    /\ events \in Seq(LinkEvents)
    /\ reply = <<>> \/ \E k \in Ids : reply = <<k>>
    /\ m_pSendMsgQueue \in Seq(Ids)
    /\ tx \in [Senders -> [pc : {"poll", "lookup", "sending"},
                           link : Ids \union {-1}, conn : Conns \union {NoConn}]]
    /\ \A s \in Senders : tx[s].pc = "lookup" => tx[s].link \in Ids

\* Bytes read and bytes to come count against the sockets in the queue.
Popping(r) == IF rx[r].pc = "pop" THEN 1 ELSE 0
Owed(r) == IF ringing /\ m_last_thread = r THEN 1 ELSE 0

NotifyInv ==
    /\ ringing \in BOOLEAN
    /\ notify \in [Receivers -> Nat]
    /\ \A r \in Receivers : notify[r] + Popping(r) + Owed(r) <= Len(conn_queue[r])

\* m_channel_mtx has one holder.
Closing(r) == rx[r].pc \in InClose
MutexInv ==
    /\ \A r, q \in Receivers : Closing(r) /\ Closing(q) => r = q
    /\ \A s \in Senders, r \in Receivers : tx[s].pc = "sending" => ~ Closing(r)

\* The slot of an open Channel has that Channel or nothing, and a Channel that
\* is not open is in a slot only while a receiver is closing it.
SlotInv ==
    /\ \A c \in Conns : InUse(c) =>
         m_channelID[c] \in Ids /\ m_Channels[m_channelID[c]] \in {c, NoConn}
    /\ \A k \in Ids : m_Channels[k] # NoConn =>
         \/ InUse(m_Channels[k])
         \/ \E r \in Receivers :
              Closing(r) /\ rx[r].id = k /\ rx[r].conn = m_Channels[k]

\* An open Channel is armed at one receiver or in the hands of one.
InHand(r) == rx[r].pc \in {"announce", "enable", "close"}
PlaceInv ==
    /\ \A r \in Receivers : \A c \in armed[r] : InUse(c)
    /\ \A r, q \in Receivers : \A c \in armed[r] : c \in armed[q] => r = q
    /\ \A r \in Receivers : InHand(r) =>
         InUse(rx[r].conn) /\ \A q \in Receivers : rx[r].conn \notin armed[q]
    /\ \A r, q \in Receivers :
         InHand(r) /\ InHand(q) /\ rx[r].conn = rx[q].conn => r = q
    /\ \A r \in Receivers : rx[r].pc = "close" => m_channelID[rx[r].conn] = rx[r].id

SenderInv ==
    \A s \in Senders : tx[s].pc = "sending" => tx[s].conn \in Conns /\ InUse(tx[s].conn)

Alive == SendTypes /\ NotifyInv /\ MutexInv /\ SlotInv /\ PlaceInv /\ SenderInv

\* A receiver's step changes nobody else's place in the code.
LEMMA OwnPlace ==
    ASSUME Inv, NEW r \in Receivers, Receiver(r)
    PROVE  \A q \in Receivers : q # r => rx'[q] = rx[q]
BY DEF Receiver, Continue, NotifyCb, PopConn, AllocID, CheckSlot, Install,
       Announce, Enable, ReadCb, EventCb, CloseChannel, Release, Report, Delete,
       ClearSlot, Goto, Return, Inv, Types

\* A receiver's place is a record.
LEMMA PlaceShape ==
    ASSUME Inv, NEW r \in Receivers
    PROVE  /\ DOMAIN rx = Receivers
           /\ rx[r] = [pc |-> rx[r].pc, conn |-> rx[r].conn, id |-> rx[r].id]
<1>1. rx \in [Receivers -> [pc : {"loop", "pop", "close"} \union InNotify \union InClose,
                            conn : Conns \union {NoConn}, id : Ids \union {-1}]]
  BY DEF Inv, Types
<1> QED BY <1>1

\* Where a receiver is after Goto and Return.
LEMMA Places ==
    ASSUME Inv, NEW r \in Receivers
    PROVE  /\ \A where : Goto(r, where) =>
                rx'[r].pc = where /\ rx'[r].conn = rx[r].conn /\ rx'[r].id = rx[r].id
           /\ Return(r) => rx'[r].pc = "loop" /\ rx'[r].conn = NoConn
           /\ \A x : rx' = [rx EXCEPT ![r] = x] => rx'[r] = x
<1>0. /\ DOMAIN rx = Receivers
      /\ rx[r] = [pc |-> rx[r].pc, conn |-> rx[r].conn, id |-> rx[r].id]
  BY PlaceShape
<1>1. ASSUME NEW x, rx' = [rx EXCEPT ![r] = x] PROVE rx'[r] = x
  BY <1>0, <1>1
<1>2. ASSUME NEW where, Goto(r, where)
      PROVE  rx'[r].pc = where /\ rx'[r].conn = rx[r].conn /\ rx'[r].id = rx[r].id
  BY <1>0, <1>2 DEF Goto
<1>3. ASSUME Return(r) PROVE rx'[r].pc = "loop" /\ rx'[r].conn = NoConn
  BY <1>0, <1>3 DEF Return, Idle
<1> QED BY <1>1, <1>2, <1>3

\* Where each step takes a receiver, and what it then has in hand.
Keeps(r) == rx'[r].conn = rx[r].conn /\ rx'[r].id = rx[r].id
Leaves(r) == rx'[r].pc = "loop" /\ rx'[r].conn = NoConn
LEMMA After ==
    ASSUME Inv, NEW r \in Receivers
    PROVE  /\ NotifyCb(r) => rx'[r].pc = "pop"
           /\ PopConn(r) => rx'[r].pc = "alloc"
           /\ AllocID(r) => Leaves(r) \/ (rx'[r].pc = "check" /\ rx'[r].conn = rx[r].conn)
           /\ CheckSlot(r) => Leaves(r) \/ (rx'[r].pc = "install" /\ Keeps(r))
           /\ Install(r) => rx'[r].pc = "announce" /\ Keeps(r)
           /\ Announce(r) => rx'[r].pc = "enable" /\ Keeps(r)
           /\ Enable(r) => Leaves(r)
           /\ \A c \in Conns : EventCb(r, c) =>
                rx'[r].pc = "close" /\ rx'[r].conn = c /\ rx'[r].id = m_channelID[c]
           /\ CloseChannel(r) =>
                \/ Leaves(r) /\ m_Channels[rx[r].id] = NoConn
                \/ /\ rx'[r].pc \in {"release", "delete"}
                   /\ rx'[r].id = rx[r].id
                   /\ rx'[r].conn = m_Channels[rx[r].id]
                   /\ m_Channels[rx[r].id] # NoConn
           /\ Release(r) => rx'[r].pc = "report" /\ Keeps(r)
           /\ Report(r) => rx'[r].pc = "delete" /\ Keeps(r)
           /\ Delete(r) => rx'[r].pc = "clear" /\ Keeps(r)
           /\ ClearSlot(r) => Leaves(r)
<1> USE DEF Keeps, Leaves
<1>0. /\ DOMAIN rx = Receivers
      /\ rx[r] = [pc |-> rx[r].pc, conn |-> rx[r].conn, id |-> rx[r].id]
  BY PlaceShape
<1>1. ASSUME NotifyCb(r) PROVE rx'[r].pc = "pop"
  <2>1. Goto(r, "pop")
    BY <1>1 DEF NotifyCb
  <2> QED BY <2>1, Places
<1>2. ASSUME PopConn(r) PROVE rx'[r].pc = "alloc"
  <2>1. rx'[r] = [pc |-> "alloc", conn |-> Head(conn_queue[r]), id |-> -1]
    BY <1>2, Places DEF PopConn
  <2> QED BY <2>1
<1>3. ASSUME AllocID(r)
      PROVE  Leaves(r) \/ (rx'[r].pc = "check" /\ rx'[r].conn = rx[r].conn)
  <2>1. CASE Return(r)
    BY <2>1, Places
  <2>2. ASSUME NEW id \in Ids, rx' = [rx EXCEPT ![r] = [@ EXCEPT !.pc = "check", !.id = id]]
        PROVE  rx'[r].pc = "check" /\ rx'[r].conn = rx[r].conn
    BY <1>0, <2>2
  <2> QED BY <1>3, <2>1, <2>2 DEF AllocID
<1>4. ASSUME CheckSlot(r)
      PROVE  Leaves(r) \/ (rx'[r].pc = "install" /\ Keeps(r))
  <2>1. Return(r) \/ Goto(r, "install")
    BY <1>4 DEF CheckSlot
  <2> QED BY <2>1, Places
<1>5. ASSUME Install(r) PROVE rx'[r].pc = "announce" /\ Keeps(r)
  BY <1>5, Places DEF Install
<1>6. ASSUME Announce(r) PROVE rx'[r].pc = "enable" /\ Keeps(r)
  BY <1>6, Places DEF Announce
<1>7. ASSUME Enable(r) PROVE Leaves(r)
  BY <1>7, Places DEF Enable
<1>8. ASSUME NEW c \in Conns, EventCb(r, c)
      PROVE  rx'[r].pc = "close" /\ rx'[r].conn = c /\ rx'[r].id = m_channelID[c]
  <2>1. rx'[r] = [pc |-> "close", conn |-> c, id |-> m_channelID[c]]
    BY <1>8, Places DEF EventCb
  <2> QED BY <2>1
<1>9. ASSUME CloseChannel(r)
      PROVE  \/ Leaves(r) /\ m_Channels[rx[r].id] = NoConn
             \/ /\ rx'[r].pc \in {"release", "delete"}
                /\ rx'[r].id = rx[r].id
                /\ rx'[r].conn = m_Channels[rx[r].id]
                /\ m_Channels[rx[r].id] # NoConn
  <2> DEFINE c == m_Channels[rx[r].id]
  <2>1. CASE c = NoConn /\ Return(r)
    BY <2>1, Places
  <2>2. CASE c # NoConn /\ rx' = [rx EXCEPT ![r] = [@ EXCEPT !.pc = "release", !.conn = c]]
    BY <1>0, <2>2
  <2>3. CASE c # NoConn /\ rx' = [rx EXCEPT ![r] = [@ EXCEPT !.pc = "delete", !.conn = c]]
    BY <1>0, <2>3
  <2> QED BY <1>9, <2>1, <2>2, <2>3 DEF CloseChannel
<1>10. ASSUME Release(r) PROVE rx'[r].pc = "report" /\ Keeps(r)
  BY <1>10, Places DEF Release
<1>11. ASSUME Report(r) PROVE rx'[r].pc = "delete" /\ Keeps(r)
  BY <1>11, Places DEF Report
<1>12. ASSUME Delete(r) PROVE rx'[r].pc = "clear" /\ Keeps(r)
  BY <1>12, Places DEF Delete
<1>13. ASSUME ClearSlot(r) PROVE Leaves(r)
  BY <1>13, Places DEF ClearSlot
<1> QED
  BY <1>1, <1>2, <1>3, <1>4, <1>5, <1>6, <1>7, <1>8, <1>9, <1>10, <1>11, <1>12, <1>13

\* What the table of events, messages and senders may hold.
LEMMA SendTypesStep ==
    ASSUME Inv, SendTypes, Next
    PROVE  SendTypes'
<1> USE DEF SendTypes
<1>1. ASSUME NEW r \in Receivers, CheckSlot(r) PROVE SendTypes'
  <2>1. Event("exists", -1, rx[r].conn) \in LinkEvents
    BY <1>1 DEF CheckSlot, Inv, HandInv, InNotify, InClose, Event, LinkEvents
  <2>2. events' \in Seq(LinkEvents)
    <3> HIDE DEF LinkEvents
    <3>1. events' = events \/ events' = Append(events, Event("exists", -1, rx[r].conn))
      BY <1>1 DEF CheckSlot
    <3> QED BY <2>1, <3>1, SMTT(30)
  <2> QED BY <1>1, <2>2 DEF CheckSlot, appVars, sendVars
<1>2. ASSUME NEW r \in Receivers, Announce(r) PROVE SendTypes'
  <2>1. Event("connected", m_channelID[rx[r].conn], rx[r].conn) \in LinkEvents
    BY <1>2 DEF Announce, Inv, HandInv, InNotify, InClose, Event, LinkEvents
  <2>2. events' \in Seq(LinkEvents)
    BY <1>2, <2>1 DEF Announce
  <2> QED BY <1>2, <2>2 DEF Announce, appVars, sendVars
<1>3. ASSUME NEW r \in Receivers, NEW c \in Conns, ReadCb(r, c) PROVE SendTypes'
  <2>1. Event("data", m_channelID[c], c) \in LinkEvents
    BY <1>3 DEF Inv, Types, Event, LinkEvents
  <2>2. events' \in Seq(LinkEvents)
    BY <1>3, <2>1 DEF ReadCb
  <2> QED BY <1>3, <2>2 DEF ReadCb, appVars, sendVars
<1>4. ASSUME NEW r \in Receivers, Report(r) PROVE SendTypes'
  <2>0. rx[r].conn \in Conns
    BY <1>4 DEF Report, Inv, HandInv, InClose
  <2>1. Event("disconnected", m_channelID[rx[r].conn], rx[r].conn) \in LinkEvents
    BY <2>0 DEF Inv, Types, Event, LinkEvents
  <2>2. events' \in Seq(LinkEvents)
    BY <1>4, <2>1 DEF Report
  <2> QED BY <1>4, <2>2 DEF Report, appVars, sendVars
<1>5. CASE HandleEvent
  <2>1. Head(events) \in LinkEvents /\ Tail(events) \in Seq(LinkEvents)
    BY <1>5, HeadTailProperties DEF HandleEvent
  <2> QED BY <1>5, <2>1 DEF HandleEvent, appVars, sendVars, LinkEvents
<1>6. CASE Put
  <2>1. PICK k \in Ids : reply = <<k>>
    BY <1>6 DEF Put
  <2>2. m_pSendMsgQueue' \in Seq(Ids)
    BY <1>6, <2>1 DEF Put
  <2> QED BY <1>6, <2>2 DEF Put
<1>7. ASSUME NEW s \in Senders, TakeMsg(s) PROVE SendTypes'
  <2>1. Head(m_pSendMsgQueue) \in Ids /\ Tail(m_pSendMsgQueue) \in Seq(Ids)
    BY <1>7, HeadTailProperties DEF TakeMsg
  <2> QED BY <1>7, <2>1 DEF TakeMsg, appVars
<1>8. ASSUME NEW s \in Senders, Lookup(s) PROVE SendTypes'
  <2>1. tx[s].link \in Ids
    BY <1>8 DEF Lookup, Found
  <2>2. m_Channels[tx[s].link] \in Conns \union {NoConn}
    BY <2>1 DEF Inv, Types
  <2> QED BY <1>8, <2>2 DEF Lookup, Found, appVars, Polling
<1>9. ASSUME NEW s \in Senders, SendData(s) PROVE SendTypes'
  BY <1>9 DEF SendData, appVars, Polling
<1>10. CASE UNCHANGED <<events, reply, m_pSendMsgQueue, tx>>
  BY <1>10
<1>11. ASSUME NEW c \in Conns, Accept(c) \/ HangUp(c) PROVE SendTypes'
  BY <1>10, <1>11 DEF Accept, HangUp, appVars, sendVars
<1>12. CASE Notify
  BY <1>10, <1>12 DEF Notify, appVars, sendVars
<1>13. ASSUME NEW r \in Receivers, Receiver(r) PROVE SendTypes'
  BY <1>1, <1>2, <1>3, <1>4, <1>10, <1>13 DEF Receiver, Continue, NotifyCb, PopConn,
     AllocID, Install, Enable, EventCb, CloseChannel, Release, Delete, ClearSlot,
     appVars, sendVars
<1> QED
  BY <1>5, <1>6, <1>7, <1>8, <1>9, <1>11, <1>12, <1>13 DEF Next, Sender

\* A byte is sent after its socket is queued and read before it is popped.
LEMMA NotifyStep ==
    ASSUME Inv, NotifyInv, Next
    PROVE  NotifyInv'
<1> USE DEF NotifyInv, Popping, Owed
<1>0. \A r \in Receivers : conn_queue[r] \in Seq(Conns) /\ Len(conn_queue[r]) \in Nat
  BY LenProperties DEF Inv, Types
<1>1. ASSUME NEW c \in Conns, Accept(c) PROVE NotifyInv'
  <2> DEFINE r == (m_last_thread + 1) % ThreadNum
  <2>1. /\ ringing = FALSE /\ ringing' = TRUE /\ m_last_thread' = r
        /\ UNCHANGED <<notify, rx>>
        /\ conn_queue' = [conn_queue EXCEPT ![r] = Append(@, c)]
    BY <1>1 DEF Accept
  <2>2. ASSUME NEW q \in Receivers, q # r
        PROVE  conn_queue'[q] = conn_queue[q] /\ Owed(q)' = 0
    BY <2>1, <2>2 DEF Inv, Types
  <2>3. CASE r \in Receivers
    <3>1. conn_queue'[r] = Append(conn_queue[r], c)
      BY <2>1, <2>3 DEF Inv, Types
    <3>2. Len(conn_queue'[r]) = Len(conn_queue[r]) + 1
      BY <1>0, <2>3, <3>1, AppendProperties
    <3> HIDE DEF r
    <3> QED BY <1>0, <2>1, <2>2, <2>3, <3>2
  <2>4. CASE r \notin Receivers
    <3> HIDE DEF r
    <3> QED BY <1>0, <2>1, <2>2, <2>4
  <2> QED BY <2>3, <2>4
<1>2. CASE Notify
  <2>1. /\ ringing = TRUE /\ ringing' = FALSE
        /\ notify' = [notify EXCEPT ![m_last_thread] = @ + 1]
        /\ UNCHANGED <<rx, conn_queue>>
    BY <1>2 DEF Notify
  <2>2. ASSUME NEW q \in Receivers
        PROVE  notify'[q] \in Nat /\ notify'[q] = notify[q] + Owed(q)
    <3>1. CASE m_last_thread = q
      BY <2>1, <3>1
    <3>2. CASE m_last_thread # q
      BY <2>1, <3>2
    <3> QED BY <3>1, <3>2
  <2>3. notify' \in [Receivers -> Nat]
    BY <2>1, <2>2
  <2>4. \A q \in Receivers : Popping(q)' = Popping(q) /\ Owed(q)' = 0
    BY <2>1
  <2>5. \A q \in Receivers : Popping(q) \in {0, 1} /\ Owed(q) \in {0, 1}
    OBVIOUS
  <2>6. ringing' \in BOOLEAN
    BY <2>1
  <2> HIDE DEF Popping, Owed
  <2> QED BY <1>0, <2>1, <2>2, <2>3, <2>4, <2>5, <2>6
<1>3. ASSUME NEW r \in Receivers, Receiver(r) PROVE NotifyInv'
  <2>0. \A q \in Receivers : q # r => rx'[q] = rx[q]
    BY <1>3, OwnPlace
  <2>1. CASE NotifyCb(r)
    <3>1. /\ rx'[r].pc = "pop" /\ rx[r].pc = "loop"
          /\ notify[r] > 0 /\ notify' = [notify EXCEPT ![r] = @ - 1]
          /\ UNCHANGED <<conn_queue, ringing, m_last_thread>>
      BY <2>1, After DEF NotifyCb, acceptVars
    <3>2. notify' \in [Receivers -> Nat] /\ notify'[r] = notify[r] - 1
      BY <3>1
    <3>3. Popping(r)' = 1 /\ Popping(r) = 0
      BY <3>1
    <3>4. \A q \in Receivers : q # r => Popping(q)' = Popping(q) /\ notify'[q] = notify[q]
      BY <2>0, <3>1
    <3>5. \A q \in Receivers : Owed(q)' = Owed(q) /\ Owed(q) \in {0, 1} /\ Popping(q) \in {0, 1}
      BY <3>1
    <3> HIDE DEF Popping, Owed
    <3> QED BY <1>0, <3>1, <3>2, <3>3, <3>4, <3>5
  <2>2. CASE PopConn(r)
    <3>1. rx'[r].pc = "alloc" /\ rx[r].pc = "pop"
      BY <2>2 DEF PopConn, Inv, Types
    <3>2. Len(conn_queue'[r]) = Len(conn_queue[r]) - 1
      BY <1>0, <2>2, HeadTailProperties DEF PopConn, Inv, Types
    <3>3. \A q \in Receivers : q # r => conn_queue'[q] = conn_queue[q]
      BY <2>2 DEF PopConn, Inv, Types
    <3> QED BY <1>0, <2>0, <2>2, <3>1, <3>2, <3>3 DEF PopConn, acceptVars
  <2>3. CASE ~ NotifyCb(r) /\ ~ PopConn(r)
    <3>1. UNCHANGED <<ringing, m_last_thread, notify, conn_queue>>
      BY <1>3, <2>3 DEF Receiver, Continue, AllocID, CheckSlot, Install, Announce, Enable,
         ReadCb, EventCb, CloseChannel, Release, Report, Delete, ClearSlot, acceptVars
    <3>2. rx'[r].pc = "pop" => rx'[r] = rx[r]
      <4>1. CASE Continue(r) \/ \E c \in Conns : EventCb(r, c)
        BY <2>3, <4>1, After DEF Continue, Leaves
      <4>2. CASE \E c \in Conns : ReadCb(r, c)
        BY <4>2 DEF ReadCb
      <4> QED BY <1>3, <2>3, <4>1, <4>2 DEF Receiver
    <3>3. \A q \in Receivers : rx'[q].pc = "pop" => rx[q].pc = "pop"
      BY <2>0, <3>2
    <3>4. \A q \in Receivers : Popping(q)' <= Popping(q)
      BY <3>3
    <3>5. \A q \in Receivers : Owed(q)' = Owed(q)
      BY <3>1
    <3>6. \A q \in Receivers : Popping(q) \in {0, 1} /\ Popping(q)' \in {0, 1} /\ Owed(q) \in {0, 1}
      OBVIOUS
    <3> HIDE DEF Popping, Owed
    <3> QED BY <1>0, <3>1, <3>4, <3>5, <3>6
  <2> QED BY <2>1, <2>2, <2>3
<1>4. CASE UNCHANGED <<ringing, m_last_thread, notify, rx, conn_queue>>
  BY <1>4
<1> QED
  BY <1>1, <1>2, <1>3, <1>4 DEF Next, HangUp, HandleEvent, Put, Sender, TakeMsg, Lookup,
     Found, SendData, acceptVars

\* A step takes m_channel_mtx only when nobody has it.
LEMMA MutexStep ==
    ASSUME Inv, SendTypes, MutexInv, Next
    PROVE  MutexInv'
<1> USE DEF MutexInv, Closing, InClose
<1>1. ASSUME NEW r \in Receivers, Receiver(r) PROVE MutexInv'
  <2>1. tx' = tx /\ \A q \in Receivers : q # r => rx'[q] = rx[q]
    BY <1>1, OwnPlace DEF Receiver, Continue, NotifyCb, PopConn, AllocID, CheckSlot,
       Install, Announce, Enable, ReadCb, EventCb, CloseChannel, Release, Report,
       Delete, ClearSlot, sendVars
  <2>2. CASE CloseChannel(r)
    BY <2>1, <2>2 DEF CloseChannel, ChannelMtxFree
  <2>3. CASE ~ CloseChannel(r)
    <3>1. CASE Continue(r) \/ \E c \in Conns : EventCb(r, c)
      <4>1. Closing(r)' => Closing(r)
        BY <2>3, <3>1, After DEF Continue, Leaves, Release, Report, Delete
      <4> QED BY <2>1, <4>1
    <3>2. CASE NotifyCb(r)
      <4>1. ~ Closing(r)'
        BY <3>2, After
      <4> QED BY <2>1, <4>1
    <3>3. CASE \E c \in Conns : ReadCb(r, c)
      BY <3>3 DEF ReadCb, sendVars
    <3> QED BY <1>1, <3>1, <3>2, <3>3 DEF Receiver
  <2> QED BY <2>2, <2>3
<1>2. ASSUME NEW s \in Senders, Lookup(s) PROVE MutexInv'
  BY <1>2 DEF Lookup, Found, ChannelMtxFree
<1>3. ASSUME NEW s \in Senders, TakeMsg(s) \/ SendData(s) PROVE MutexInv'
  <2>1. \/ tx' = [tx EXCEPT ![s] = Polling]
        \/ tx' = [tx EXCEPT ![s] = [pc |-> "lookup", link |-> Head(m_pSendMsgQueue),
                                    conn |-> NoConn]]
    BY <1>3 DEF TakeMsg, SendData
  <2>2. DOMAIN tx = Senders
    BY DEF SendTypes
  <2>3. tx'[s].pc # "sending" /\ \A t \in Senders : t # s => tx'[t] = tx[t]
    BY <2>1, <2>2 DEF Polling
  <2>4. rx' = rx
    BY <1>3 DEF TakeMsg, SendData
  <2> QED BY <2>3, <2>4
<1>4. CASE UNCHANGED <<rx, tx>>
  BY <1>4
<1> QED
  BY <1>1, <1>2, <1>3, <1>4 DEF Next, Accept, HangUp, Notify, HandleEvent, Put, Sender,
     sendVars

\* Only Install and CloseChannel say which Channels are in use, and where.
LEMMA SameInUse ==
    ASSUME Inv, Next, \A r \in Receivers : ~ Install(r) /\ ~ CloseChannel(r)
    PROVE  m_channelID' = m_channelID /\ \A d \in Conns : InUse(d)' <=> InUse(d)
<1> USE DEF InUse
<1>1. ASSUME NEW c \in Conns, Accept(c)
      PROVE  m_channelID' = m_channelID /\ \A d \in Conns : InUse(d)' <=> InUse(d)
  BY <1>1 DEF Accept, Inv, TableInv, Types
<1>2. ASSUME NEW r \in Receivers, AllocID(r) \/ CheckSlot(r)
      PROVE  m_channelID' = m_channelID /\ \A d \in Conns : InUse(d)' <=> InUse(d)
  <2>1. Fresh(rx[r].conn)
    BY <1>2 DEF AllocID, CheckSlot, Inv, QueueInv, Before
  <2>2. /\ m_fd' = m_fd \/ m_fd' = [m_fd EXCEPT ![rx[r].conn] = "closed"]
        /\ UNCHANGED <<obj, m_channelID>>
    BY <1>2 DEF AllocID, CheckSlot
  <2> QED BY <2>1, <2>2 DEF Fresh, Inv, Types
<1>3. ASSUME NEW r \in Receivers, Delete(r)
      PROVE  m_channelID' = m_channelID /\ \A d \in Conns : InUse(d)' <=> InUse(d)
  <2>1. m_fd[rx[r].conn] = "closed"
    BY <1>3 DEF Delete, Inv, CloseInv, InClose
  <2> QED BY <1>3, <2>1 DEF Delete, Inv, Types
<1>4. CASE UNCHANGED <<m_fd, obj, m_channelID>>
  BY <1>4
<1> QED
  BY <1>1, <1>2, <1>3, <1>4 DEF Next, HangUp, Notify, HandleEvent, Put, Sender, TakeMsg,
     Lookup, Found, SendData, Receiver, Continue, NotifyCb, PopConn, Announce, Enable,
     ReadCb, EventCb, Release, Report, ClearSlot, connVars

\* The new Channel takes a slot whose id no other open Channel bears, and a
\* Channel leaves its slot only through the receiver that closes it.
LEMMA SlotStep ==
    ASSUME Inv, SlotInv, Next
    PROVE  SlotInv'
<1> USE DEF SlotInv
<1>0. \A r \in Receivers : Closing(r) => rx[r].id \in Ids
  BY DEF Closing, Inv, HandInv
<1>1. ASSUME NEW r \in Receivers, Install(r) PROVE SlotInv'
  <2>0. PICK c \in Conns, k \in Ids : c = rx[r].conn /\ k = rx[r].id
    BY <1>1 DEF Install, Inv, HandInv, InNotify
  <2>1. c \in Conns /\ k \in Ids /\ Fresh(c) /\ Carrying(r)
    BY <1>1, <2>0 DEF Install, Inv, HandInv, QueueInv, Before, InNotify, Carrying
  <2>2. /\ obj' = [obj EXCEPT ![c] = "live"] /\ m_fd' = m_fd
        /\ m_channelID' = [m_channelID EXCEPT ![c] = k]
        /\ m_Channels' = [m_Channels EXCEPT ![k] = c]
    BY <1>1, <2>0 DEF Install
  <2>3. /\ m_Channels'[k] = c /\ m_channelID'[c] = k
        /\ \A j \in Ids : j # k => m_Channels'[j] = m_Channels[j]
        /\ \A d \in Conns : d # c => m_channelID'[d] = m_channelID[d]
    BY <2>1, <2>2 DEF Inv, Types
  <2>4. InUse(c)' /\ \A d \in Conns : d # c => (InUse(d)' <=> InUse(d))
    <3>1. obj'[c] = "live" /\ \A d \in Conns : d # c => obj'[d] = obj[d]
      BY <2>1, <2>2 DEF Inv, Types
    <3> QED BY <2>1, <2>2, <3>1 DEF Fresh, InUse
  <2>5. \A d \in Conns : InUse(d) => m_channelID[d] # k
    BY <2>0, <2>1 DEF Inv, PoolInv
  <2>6. \A j \in Ids : m_Channels[j] # c
    BY <2>1, NoConnAssumption DEF Fresh, Inv, TableInv
  <2>7. \A q \in Receivers : Closing(q) => Closing(q)' /\ rx'[q] = rx[q]
    <3>1. ~ Closing(r)
      BY <1>1 DEF Install, Closing, InClose
    <3>2. \A q \in Receivers : q # r => rx'[q] = rx[q]
      BY <1>1, OwnPlace DEF Receiver, Continue
    <3> QED BY <3>1, <3>2 DEF Closing
  <2>8. c # NoConn
    BY <2>1, NoConnAssumption
  <2>9. m_Channels \in [Ids -> Conns \union {NoConn}]
    BY DEF Inv, Types
  <2>10. ASSUME NEW d \in Conns, InUse(d)'
         PROVE  m_channelID'[d] \in Ids /\ m_Channels'[m_channelID'[d]] \in {d, NoConn}
    <3>1. CASE d = c
      BY <2>1, <2>3, <3>1
    <3>2. CASE d # c
      <4>1. InUse(d) /\ m_channelID'[d] = m_channelID[d] /\ m_channelID[d] # k
        BY <2>3, <2>4, <2>5, <2>10, <3>2
      <4> QED BY <2>3, <4>1
    <3> QED BY <3>1, <3>2
  <2>11. ASSUME NEW j \in Ids, m_Channels'[j] # NoConn
         PROVE  \/ InUse(m_Channels[j])'
                \/ \E q \in Receivers :
                     Closing(q)' /\ rx'[q].id = j /\ rx'[q].conn = m_Channels'[j]
    <3>1. CASE j = k
      BY <2>2, <2>3, <2>4, <3>1 DEF InUse
    <3>2. CASE j # k
      <4>1. /\ m_Channels'[j] = m_Channels[j] /\ m_Channels[j] \in Conns
            /\ m_Channels[j] # c
        BY <2>3, <2>6, <2>9, <2>11, <3>2
      <4>2. CASE InUse(m_Channels[j])
        BY <2>2, <4>1, <4>2 DEF InUse, Inv, Types
      <4>3. CASE ~ InUse(m_Channels[j])
        BY <2>7, <2>11, <4>1, <4>3
      <4> QED BY <4>2, <4>3
    <3> QED BY <3>1, <3>2
  <2> QED BY <2>10, <2>11
<1>2. ASSUME NEW r \in Receivers, CloseChannel(r) PROVE SlotInv'
  <2> DEFINE c == m_Channels[rx[r].id]
  <2>1. rx[r].pc = "close" /\ rx[r].id \in Ids /\ ~ Closing(r)
    BY <1>2 DEF CloseChannel, Inv, HandInv, Closing, InClose
  <2>2. UNCHANGED <<m_Channels, obj, m_channelID>>
    BY <1>2 DEF CloseChannel
  <2>3. \A q \in Receivers : Closing(q) => Closing(q)' /\ rx'[q] = rx[q]
    BY <1>2, <2>1, OwnPlace DEF Receiver, Continue, Closing
  <2>4. CASE c = NoConn
    <3>1. m_fd' = m_fd
      BY <1>2, <2>4 DEF CloseChannel
    <3> QED BY <2>2, <2>3, <3>1 DEF InUse
  <2>5. CASE c # NoConn
    <3>1. c \in Conns /\ m_channelID[c] = rx[r].id
      BY <2>1, <2>5 DEF Inv, TableInv, Types
    <3>2. Closing(r)' /\ rx'[r].id = rx[r].id /\ rx'[r].conn = c
      BY <1>2, <2>5, After DEF Leaves, Closing, InClose
    <3>3. \A d \in Conns : (InUse(d)' => InUse(d)) /\ (d # c => (InUse(d)' <=> InUse(d)))
      BY <1>2, <2>2, <3>1 DEF CloseChannel, InUse, Inv, Types
    <3>4. ASSUME NEW k \in Ids, m_Channels[k] # NoConn
          PROVE  \/ InUse(m_Channels[k])'
                 \/ \E q \in Receivers :
                      Closing(q)' /\ rx'[q].id = k /\ rx'[q].conn = m_Channels[k]
      <4>1. CASE m_Channels[k] = c
        <5>1. k = rx[r].id
          BY <3>1, <3>4, <4>1 DEF Inv, TableInv
        <5> QED BY <3>2, <4>1, <5>1
      <4>2. CASE m_Channels[k] # c
        <5>1. m_Channels[k] \in Conns
          BY <3>4 DEF Inv, Types
        <5>2. CASE InUse(m_Channels[k])
          BY <2>2, <3>3, <4>2, <5>1, <5>2 DEF InUse
        <5>3. CASE ~ InUse(m_Channels[k])
          BY <2>3, <3>4, <5>3
        <5> QED BY <5>2, <5>3
      <4> QED BY <4>1, <4>2
    <3>5. \A k \in Ids : m_Channels'[k] # NoConn =>
             \/ InUse(m_Channels[k])'
             \/ \E q \in Receivers :
                  Closing(q)' /\ rx'[q].id = k /\ rx'[q].conn = m_Channels'[k]
      BY <2>2, <3>4
    <3> QED BY <2>2, <3>3, <3>5
  <2> QED BY <2>4, <2>5
<1>3. ASSUME NEW r \in Receivers, ClearSlot(r) PROVE SlotInv'
  <2> DEFINE k == rx[r].id
  <2>1. Closing(r) /\ k \in Ids
    BY <1>0, <1>3 DEF ClearSlot, Closing, InClose
  <2>2. /\ m_Channels' = [m_Channels EXCEPT ![k] = NoConn]
        /\ UNCHANGED <<m_fd, obj, m_channelID>>
    BY <1>3 DEF ClearSlot, connVars
  <2>3. m_Channels'[k] = NoConn /\ \A j \in Ids : j # k => m_Channels'[j] = m_Channels[j]
    BY <2>1, <2>2 DEF Inv, Types
  <2>4. \A q \in Receivers : q # r => rx'[q] = rx[q]
    BY <1>3, OwnPlace DEF Receiver, Continue
  <2>5. \A d : InUse(d)' <=> InUse(d)
    BY <2>2 DEF InUse
  <2>6. \A d \in Conns : InUse(d)' =>
           m_channelID'[d] \in Ids /\ m_Channels'[m_channelID'[d]] \in {d, NoConn}
    BY <2>2, <2>3, <2>5
  <2>7. ASSUME NEW j \in Ids, m_Channels'[j] # NoConn
        PROVE  \/ InUse(m_Channels[j])'
               \/ \E q \in Receivers :
                    Closing(q)' /\ rx'[q].id = j /\ rx'[q].conn = m_Channels'[j]
    <3>1. j # k /\ m_Channels'[j] = m_Channels[j]
      BY <2>3, <2>7
    <3>2. CASE InUse(m_Channels[j])
      BY <2>2, <3>1, <3>2 DEF InUse
    <3>3. CASE ~ InUse(m_Channels[j])
      <4>1. PICK q \in Receivers : Closing(q) /\ rx[q].id = j /\ rx[q].conn = m_Channels[j]
        BY <2>7, <3>1, <3>3
      <4> QED BY <2>4, <3>1, <4>1 DEF Closing
    <3> QED BY <3>2, <3>3
  <2> QED BY <2>6, <2>7
<1>4. ASSUME \A r \in Receivers : ~ Install(r) /\ ~ CloseChannel(r) /\ ~ ClearSlot(r)
      PROVE  SlotInv'
  <2>1. m_channelID' = m_channelID /\ \A d \in Conns : InUse(d)' <=> InUse(d)
    BY <1>4, SameInUse
  <2>2. m_Channels' = m_Channels
    BY <1>4 DEF Next, Accept, HangUp, Notify, HandleEvent, Put, Sender, TakeMsg, Lookup,
       Found, SendData, Receiver, Continue, NotifyCb, PopConn, AllocID, CheckSlot,
       Announce, Enable, ReadCb, EventCb, Release, Report, Delete
  <2>3. ASSUME NEW q \in Receivers, Closing(q)
        PROVE  Closing(q)' /\ rx'[q].id = rx[q].id /\ rx'[q].conn = rx[q].conn
    <3>1. ASSUME NEW r \in Receivers, Receiver(r)
          PROVE  Closing(q)' /\ rx'[q].id = rx[q].id /\ rx'[q].conn = rx[q].conn
      <4>1. CASE q # r
        BY <2>3, <3>1, <4>1, OwnPlace DEF Closing
      <4>2. CASE q = r
        <5>1. Release(r) \/ Report(r) \/ Delete(r)
          BY <1>4, <2>3, <3>1, <4>2 DEF Closing, InClose, Receiver, Continue, NotifyCb,
             PopConn, AllocID, CheckSlot, Announce, Enable, ReadCb, EventCb
        <5> QED BY <4>2, <5>1, After DEF Keeps, Closing, InClose
      <4> QED BY <4>1, <4>2
    <3>2. CASE UNCHANGED rx
      BY <2>3, <3>2 DEF Closing
    <3> QED
      BY <3>1, <3>2 DEF Next, Accept, HangUp, Notify, HandleEvent, Put, Sender, TakeMsg,
         Lookup, Found, SendData
  <2>4. \A k \in Ids : m_Channels[k] # NoConn => m_Channels[k] \in Conns
    BY DEF Inv, Types
  <2> QED BY <2>1, <2>2, <2>3, <2>4
<1> QED BY <1>1, <1>2, <1>3, <1>4

\* A hang-up closes the Channel it is about: the slot has no other.
LEMMA ClosesOwnChannel ==
    ASSUME Inv, SlotInv, PlaceInv, NEW r \in Receivers, rx[r].pc = "close"
    PROVE  m_Channels[rx[r].id] \in {rx[r].conn, NoConn}
BY DEF SlotInv, PlaceInv, InHand, Inv, HandInv, InNotify, InClose

\* An open Channel goes from hand to hand: CreateChannel, notify_cb, libevent,
\* conn_eventcb, Close.
LEMMA PlaceStep ==
    ASSUME Inv, Inv', SlotInv, PlaceInv, Next
    PROVE  PlaceInv'
<1> USE DEF PlaceInv
<1>0. /\ \A r \in Receivers : InHand(r) => rx[r].conn \in Conns
      /\ \A r \in Receivers : armed[r] \subseteq Conns
  BY DEF InHand, Inv, HandInv, Types, InNotify
<1>1. ASSUME NEW r \in Receivers, Install(r) PROVE PlaceInv'
  <2>1. PICK c \in Conns, k \in Ids : c = rx[r].conn /\ k = rx[r].id
    BY <1>1 DEF Install, Inv, HandInv, InNotify
  <2>2. Fresh(c) /\ ~ InHand(r) /\ ~ InUse(c)
    BY <1>1, <2>1 DEF Install, Inv, QueueInv, Before, InHand, Fresh, InUse
  <2>3. /\ armed' = armed /\ m_fd' = m_fd /\ obj' = [obj EXCEPT ![c] = "live"]
        /\ m_channelID' = [m_channelID EXCEPT ![c] = k]
    BY <1>1, <2>1 DEF Install
  <2>4. /\ \A d \in Conns : d # c => m_channelID'[d] = m_channelID[d]
        /\ InUse(c)' /\ \A d \in Conns : InUse(d) => InUse(d)'
    BY <2>2, <2>3 DEF Fresh, InUse, Inv, Types
  <2>5. \A q \in Receivers : q # r => rx'[q] = rx[q]
    BY <1>1, OwnPlace DEF Receiver, Continue
  <2>6. rx'[r].pc = "announce" /\ rx'[r].conn = c
    BY <1>1, <2>1, After DEF Keeps
  <2>7. \A q \in Receivers : q # r => (InHand(q)' <=> InHand(q))
    BY <2>5 DEF InHand
  <2>8. /\ \A q \in Receivers : c \notin armed[q]
        /\ \A q \in Receivers : InHand(q) => rx[q].conn # c
    BY <2>2
  <2>9. /\ \A q \in Receivers : \A d \in armed'[q] : InUse(d)'
        /\ \A q, p \in Receivers : \A d \in armed'[q] : d \in armed'[p] => q = p
    BY <1>0, <2>3, <2>4
  <2>10. ASSUME NEW q \in Receivers, InHand(q)'
         PROVE  InUse(rx[q].conn)' /\ \A p \in Receivers : rx'[q].conn \notin armed'[p]
    <3>1. CASE q = r
      BY <2>3, <2>4, <2>6, <2>8, <3>1 DEF InUse
    <3>2. CASE q # r
      BY <1>0, <2>3, <2>4, <2>5, <2>7, <2>10, <3>2 DEF InUse
    <3> QED BY <3>1, <3>2
  <2>11. ASSUME NEW p \in Receivers, NEW q \in Receivers, InHand(p)', InHand(q)',
                rx'[p].conn = rx'[q].conn
         PROVE  p = q
    BY <2>5, <2>6, <2>7, <2>8, <2>11
  <2>12. ASSUME NEW q \in Receivers, rx'[q].pc = "close"
         PROVE  m_channelID'[rx'[q].conn] = rx'[q].id
    <3>1. q # r /\ rx[q].pc = "close" /\ rx'[q] = rx[q]
      BY <2>5, <2>6, <2>12
    <3>2. InHand(q) /\ rx[q].conn \in Conns /\ rx[q].conn # c
      BY <1>0, <2>8, <3>1 DEF InHand
    <3> QED BY <2>4, <3>1, <3>2
  <2> QED BY <2>9, <2>10, <2>11, <2>12
<1>2. ASSUME NEW r \in Receivers, CloseChannel(r) PROVE PlaceInv'
  <2>1. PICK c \in Conns : c = rx[r].conn
    BY <1>2 DEF CloseChannel, Inv, HandInv
  <2>2. rx[r].pc = "close" /\ InHand(r) /\ m_Channels[rx[r].id] \in {c, NoConn}
    BY <1>2, <2>1, ClosesOwnChannel DEF CloseChannel, InHand
  <2>3. UNCHANGED <<armed, obj, m_channelID>>
    BY <1>2 DEF CloseChannel
  <2>4. \A d \in Conns : d # c => (InUse(d)' <=> InUse(d))
    <3>1. m_fd' = m_fd \/ m_fd' = [m_fd EXCEPT ![c] = "closed"]
      BY <1>2, <2>2 DEF CloseChannel
    <3> QED BY <2>3, <3>1 DEF InUse, Inv, Types
  <2>5. \A q \in Receivers : q # r => rx'[q] = rx[q]
    BY <1>2, OwnPlace DEF Receiver, Continue
  <2>6. ~ InHand(r)' /\ rx'[r].pc # "close"
    BY <1>2, After DEF Leaves, InHand
  <2>7. /\ \A q \in Receivers : c \notin armed[q]
        /\ \A q \in Receivers : q # r /\ InHand(q) => rx[q].conn # c
    BY <2>1, <2>2
  <2>8. \A q \in Receivers : InHand(q)' => q # r /\ InHand(q) /\ rx'[q] = rx[q]
    BY <2>5, <2>6 DEF InHand
  <2>9. /\ \A q \in Receivers : \A d \in armed'[q] : InUse(d)'
        /\ \A q, p \in Receivers : \A d \in armed'[q] : d \in armed'[p] => q = p
    BY <1>0, <2>3, <2>4, <2>7
  <2>10. ASSUME NEW q \in Receivers, InHand(q)'
         PROVE  InUse(rx[q].conn)' /\ \A p \in Receivers : rx'[q].conn \notin armed'[p]
    BY <1>0, <2>3, <2>4, <2>7, <2>8, <2>10 DEF InUse
  <2>11. ASSUME NEW p \in Receivers, NEW q \in Receivers, InHand(p)', InHand(q)',
                rx'[p].conn = rx'[q].conn
         PROVE  p = q
    BY <2>8, <2>11
  <2>12. \A q \in Receivers : rx'[q].pc = "close" => m_channelID'[rx'[q].conn] = rx'[q].id
    BY <2>3, <2>5, <2>6
  <2> QED BY <2>9, <2>10, <2>11, <2>12
<1>3. ASSUME NEW r \in Receivers, Enable(r) PROVE PlaceInv'
  <2>1. PICK c \in Conns : c = rx[r].conn
    BY <1>3 DEF Enable, Inv, HandInv, InNotify
  <2>2. InHand(r) /\ UNCHANGED <<m_fd, obj, m_channelID>>
    BY <1>3 DEF Enable, InHand, connVars
  <2>3. /\ armed'[r] = armed[r] \union {c}
        /\ \A q \in Receivers : q # r => armed'[q] = armed[q]
    BY <1>3, <2>1 DEF Enable, Inv, Types
  <2>4. \A q \in Receivers : q # r => rx'[q] = rx[q]
    BY <1>3, OwnPlace DEF Receiver, Continue
  <2>5. ~ InHand(r)' /\ rx'[r].pc # "close"
    BY <1>3, After DEF Leaves, InHand
  <2>6. \A q \in Receivers : InHand(q)' => q # r /\ InHand(q) /\ rx'[q] = rx[q]
    BY <2>4, <2>5 DEF InHand
  <2>7. /\ InUse(c) /\ \A q \in Receivers : c \notin armed[q]
        /\ \A q \in Receivers : q # r /\ InHand(q) => rx[q].conn # c
    BY <2>1, <2>2
  <2>8. \A d : InUse(d)' <=> InUse(d)
    BY <2>2 DEF InUse
  <2>9. /\ \A q \in Receivers : \A d \in armed'[q] : InUse(d)'
        /\ \A q, p \in Receivers : \A d \in armed'[q] : d \in armed'[p] => q = p
    BY <2>3, <2>7, <2>8
  <2>10. ASSUME NEW q \in Receivers, InHand(q)'
         PROVE  InUse(rx[q].conn)' /\ \A p \in Receivers : rx'[q].conn \notin armed'[p]
    BY <2>2, <2>3, <2>6, <2>7, <2>10 DEF InUse
  <2>11. ASSUME NEW p \in Receivers, NEW q \in Receivers, InHand(p)', InHand(q)',
                rx'[p].conn = rx'[q].conn
         PROVE  p = q
    BY <2>6, <2>11
  <2>12. \A q \in Receivers : rx'[q].pc = "close" => m_channelID'[rx'[q].conn] = rx'[q].id
    BY <2>2, <2>4, <2>5
  <2> QED BY <2>9, <2>10, <2>11, <2>12
<1>4. ASSUME NEW r \in Receivers, NEW c \in Conns, EventCb(r, c) PROVE PlaceInv'
  <2>1. c \in armed[r] /\ ~ InHand(r) /\ UNCHANGED <<m_fd, obj, m_channelID>>
    BY <1>4 DEF EventCb, InHand, connVars
  <2>2. /\ armed'[r] = armed[r] \ {c}
        /\ \A q \in Receivers : q # r => armed'[q] = armed[q]
    BY <1>4 DEF EventCb, Inv, Types
  <2>3. \A q \in Receivers : q # r => rx'[q] = rx[q]
    BY <1>4, OwnPlace DEF Receiver
  <2>4. rx'[r].pc = "close" /\ rx'[r].conn = c /\ rx'[r].id = m_channelID[c]
    BY <1>4, After
  <2>5. \A q \in Receivers : q # r /\ InHand(q)' => InHand(q) /\ rx'[q] = rx[q]
    BY <2>3 DEF InHand
  <2>6. /\ InUse(c) /\ \A q \in Receivers : c \notin armed'[q]
        /\ \A q \in Receivers : InHand(q) => rx[q].conn # c
    BY <2>1, <2>2
  <2>7. \A d : InUse(d)' <=> InUse(d)
    BY <2>1 DEF InUse
  <2>8. \A q \in Receivers : armed'[q] \subseteq armed[q]
    BY <2>2
  <2>9. /\ \A q \in Receivers : \A d \in armed'[q] : InUse(d)'
        /\ \A q, p \in Receivers : \A d \in armed'[q] : d \in armed'[p] => q = p
    BY <2>7, <2>8
  <2>10. ASSUME NEW q \in Receivers, InHand(q)'
         PROVE  InUse(rx[q].conn)' /\ \A p \in Receivers : rx'[q].conn \notin armed'[p]
    <3>1. CASE q = r
      BY <2>1, <2>4, <2>6, <3>1 DEF InUse
    <3>2. CASE q # r
      BY <2>1, <2>5, <2>8, <2>10, <3>2 DEF InUse
    <3> QED BY <3>1, <3>2
  <2>11. ASSUME NEW p \in Receivers, NEW q \in Receivers, InHand(p)', InHand(q)',
                rx'[p].conn = rx'[q].conn
         PROVE  p = q
    BY <2>4, <2>5, <2>6, <2>11
  <2>12. \A q \in Receivers : rx'[q].pc = "close" => m_channelID'[rx'[q].conn] = rx'[q].id
    BY <2>1, <2>3, <2>4
  <2> QED BY <2>9, <2>10, <2>11, <2>12
<1>5. ASSUME \A r \in Receivers : ~ Install(r) /\ ~ CloseChannel(r) /\ ~ Enable(r)
                                   /\ \A c \in Conns : ~ EventCb(r, c)
      PROVE  PlaceInv'
  <2>1. m_channelID' = m_channelID /\ \A d \in Conns : InUse(d)' <=> InUse(d)
    BY <1>5, SameInUse
  <2>2. armed' = armed
    BY <1>5 DEF Next, Accept, HangUp, Notify, HandleEvent, Put, Sender, TakeMsg, Lookup,
       Found, SendData, Receiver, Continue, NotifyCb, PopConn, AllocID, CheckSlot,
       Announce, ReadCb, Release, Report, Delete, ClearSlot
  <2>3. ASSUME NEW q \in Receivers, InHand(q)'
        PROVE  /\ InHand(q) /\ rx'[q].conn = rx[q].conn
               /\ rx'[q].pc = "close" => rx[q].pc = "close" /\ rx'[q].id = rx[q].id
    <3>1. ASSUME NEW r \in Receivers, Receiver(r), r # q
          PROVE  rx'[q] = rx[q]
      BY <3>1, OwnPlace
    <3>2. CASE NotifyCb(q) \/ Continue(q)
      <4>1. Announce(q)
        BY <1>5, <2>3, <3>2, After DEF Continue, Leaves, InHand
      <4> QED BY <4>1, After DEF Keeps, InHand, Announce
    <3>3. CASE rx'[q] = rx[q]
      BY <2>3, <3>3 DEF InHand
    <3>4. ASSUME NEW r \in Receivers, Receiver(r)
          PROVE  NotifyCb(q) \/ Continue(q) \/ rx'[q] = rx[q]
      <4>1. CASE r = q
        BY <1>5, <3>4, <4>1 DEF Receiver, ReadCb
      <4>2. CASE r # q
        BY <3>1, <3>4, <4>2
      <4> QED BY <4>1, <4>2
    <3>5. NotifyCb(q) \/ Continue(q) \/ rx'[q] = rx[q]
      BY <3>4 DEF Next, Accept, HangUp, Notify, HandleEvent, Put, Sender, TakeMsg, Lookup,
         Found, SendData
    <3> QED BY <3>2, <3>3, <3>5
  <2>4. /\ \A q \in Receivers : \A d \in armed'[q] : InUse(d)'
        /\ \A q, p \in Receivers : \A d \in armed'[q] : d \in armed'[p] => q = p
    BY <1>0, <2>1, <2>2
  <2>5. ASSUME NEW q \in Receivers, InHand(q)'
        PROVE  InUse(rx[q].conn)' /\ \A p \in Receivers : rx'[q].conn \notin armed'[p]
    <3>1. InHand(q) /\ rx'[q].conn = rx[q].conn /\ rx[q].conn \in Conns
      BY <1>0, <2>3, <2>5
    <3> QED BY <2>1, <2>2, <3>1 DEF InUse
  <2>6. ASSUME NEW p \in Receivers, NEW q \in Receivers, InHand(p)', InHand(q)',
               rx'[p].conn = rx'[q].conn
        PROVE  p = q
    BY <2>3, <2>6
  <2>7. ASSUME NEW q \in Receivers, rx'[q].pc = "close"
        PROVE  m_channelID'[rx'[q].conn] = rx'[q].id
    <3>1. InHand(q)'
      BY <2>7 DEF InHand
    <3> QED BY <2>1, <2>3, <2>7, <3>1
  <2> QED BY <2>4, <2>5, <2>6, <2>7
<1> QED BY <1>1, <1>2, <1>3, <1>4, <1>5

\* A sender that has the mutex keeps the Channel it found: CloseChannel waits.
LEMMA SenderStep ==
    ASSUME Inv, SendTypes, MutexInv, SlotInv, SenderInv, Next
    PROVE  SenderInv'
<1> USE DEF SenderInv
<1>1. ASSUME NEW s \in Senders, Lookup(s) PROVE SenderInv'
  <2>1. PICK k \in Ids : k = tx[s].link
    BY <1>1 DEF Lookup, Found, SendTypes
  <2>2. m_Channels[k] # NoConn => m_Channels[k] \in Conns /\ InUse(m_Channels[k])
    BY <1>1 DEF Lookup, ChannelMtxFree, SlotInv, Closing, Inv, Types
  <2>3. /\ UNCHANGED <<m_fd, obj>>
        /\ tx' = [tx EXCEPT ![s] = IF m_Channels[k] = NoConn THEN Polling
                                   ELSE [@ EXCEPT !.pc = "sending", !.conn = m_Channels[k]]]
    BY <1>1, <2>1 DEF Lookup, Found, connVars
  <2>4. \A t \in Senders : t # s => tx'[t] = tx[t]
    BY <2>3 DEF SendTypes
  <2>5. tx'[s].pc = "sending" => m_Channels[k] # NoConn /\ tx'[s].conn = m_Channels[k]
    <3>1. DOMAIN tx = Senders /\ tx[s] = [pc |-> tx[s].pc, link |-> tx[s].link, conn |-> tx[s].conn]
      BY DEF SendTypes
    <3>2. CASE m_Channels[k] = NoConn
      BY <2>3, <3>1, <3>2 DEF Polling
    <3>3. CASE m_Channels[k] # NoConn
      BY <2>3, <3>1, <3>3
    <3> QED BY <3>2, <3>3
  <2> QED BY <2>2, <2>3, <2>4, <2>5 DEF InUse
<1>2. ASSUME NEW s \in Senders, TakeMsg(s) \/ SendData(s) PROVE SenderInv'
  <2>1. \/ tx' = [tx EXCEPT ![s] = Polling]
        \/ tx' = [tx EXCEPT ![s] = [pc |-> "lookup", link |-> Head(m_pSendMsgQueue),
                                    conn |-> NoConn]]
    BY <1>2 DEF TakeMsg, SendData
  <2>2. DOMAIN tx = Senders
    BY DEF SendTypes
  <2>3. tx'[s].pc # "sending" /\ \A t \in Senders : t # s => tx'[t] = tx[t]
    BY <2>1, <2>2 DEF Polling
  <2>4. UNCHANGED <<m_fd, obj>>
    BY <1>2 DEF TakeMsg, SendData, connVars
  <2> QED BY <2>3, <2>4 DEF InUse
<1>3. ASSUME NEW r \in Receivers, CloseChannel(r) PROVE SenderInv'
  BY <1>3 DEF CloseChannel, ChannelMtxFree, sendVars
<1>4. ASSUME NEW r \in Receivers, Install(r) PROVE SenderInv'
  <2>1. /\ tx' = tx /\ m_fd' = m_fd /\ obj' = [obj EXCEPT ![rx[r].conn] = "live"]
    BY <1>4 DEF Install, sendVars
  <2>2. \A d \in Conns : InUse(d) => InUse(d)'
    BY <2>1 DEF InUse, Inv, Types
  <2> QED BY <2>1, <2>2 DEF InUse
<1>5. ASSUME \A r \in Receivers : ~ Install(r) /\ ~ CloseChannel(r), tx' = tx
      PROVE  SenderInv'
  <2>1. \A d \in Conns : InUse(d)' <=> InUse(d)
    BY <1>5, SameInUse
  <2> QED BY <1>5, <2>1 DEF InUse
<1>6. ASSUME \A r \in Receivers : ~ Install(r) /\ ~ CloseChannel(r),
             \A s \in Senders : ~ Sender(s)
      PROVE  tx' = tx
  BY <1>6 DEF Next, Accept, HangUp, Notify, HandleEvent, Put, Receiver, Continue,
     NotifyCb, PopConn, AllocID, CheckSlot, Announce, Enable, ReadCb, EventCb, Release,
     Report, Delete, ClearSlot, sendVars
<1> QED BY <1>1, <1>2, <1>3, <1>4, <1>5, <1>6 DEF Sender
-----------------------------------------------------------------------------
\* Nobody is connected, no thread has begun, and every queue is empty.
LEMMA InitAlive == Init => Alive
<1> SUFFICES ASSUME Init PROVE Alive
  OBVIOUS
<1> USE DEF Init, Idle, Polling
<1>1. SendTypes
  BY DEF SendTypes
<1>2. NotifyInv
  <2>1. \A r \in Receivers : Len(conn_queue[r]) = 0
    BY EmptySeq
  <2>2. \A r \in Receivers : Popping(r) = 0 /\ Owed(r) = 0
    BY DEF Popping, Owed
  <2>3. ringing \in BOOLEAN /\ notify \in [Receivers -> Nat]
    OBVIOUS
  <2>4. \A r \in Receivers : notify[r] = 0
    OBVIOUS
  <2> QED BY <2>1, <2>2, <2>3, <2>4 DEF NotifyInv
<1>3. MutexInv
  BY DEF MutexInv, Closing, InClose
<1>4. SlotInv
  BY DEF SlotInv, InUse
<1>5. PlaceInv
  BY DEF PlaceInv, InHand
<1>6. SenderInv
  BY DEF SenderInv
<1> QED BY <1>1, <1>2, <1>3, <1>4, <1>5, <1>6 DEF Alive

\* No step kills what is in use.
LEMMA NextAlive == Inv /\ Inv' /\ Alive /\ [Next]_vars => Alive'
<1> SUFFICES ASSUME Inv, Inv', Alive, [Next]_vars PROVE Alive'
  OBVIOUS
<1>1. CASE Next
  BY <1>1, SendTypesStep, NotifyStep, MutexStep, SlotStep, PlaceStep, SenderStep DEF Alive
<1>2. CASE UNCHANGED vars
  BY <1>2 DEF vars, Alive, SendTypes, NotifyInv, MutexInv, SlotInv, PlaceInv, SenderInv,
     Popping, Owed, Closing, InHand, InUse
<1> QED BY <1>1, <1>2

\* Both invariants hold of every behaviour.
LEMMA Always == Spec => [](Inv /\ Alive)
BY InitInv, NextInv, InitAlive, NextAlive, PTL DEF Spec

\* A receiver that was woken finds a connection, for any number of receivers
\* that share the work and any backlog: notify_cb never calls front() on an
\* empty queue, though it reads the byte before it locks.
THEOREM NotifiedFinds == Spec => []NotifiedQueueNotEmpty
<1>1. Inv /\ Alive => NotifiedQueueNotEmpty
  <2> SUFFICES ASSUME Inv, Alive, NEW r \in Receivers
               PROVE  notify[r] + (IF rx[r].pc = "pop" THEN 1 ELSE 0) <= Len(conn_queue[r])
    BY DEF NotifiedQueueNotEmpty
  <2>1. notify[r] \in Nat /\ Len(conn_queue[r]) \in Nat
    BY LenProperties DEF Inv, Types, Alive, NotifyInv
  <2>2. notify[r] + Popping(r) + Owed(r) <= Len(conn_queue[r])
    BY DEF Alive, NotifyInv
  <2>3. Owed(r) \in {0, 1}
    BY DEF Owed
  <2> HIDE DEF Owed
  <2> QED BY <2>1, <2>2, <2>3 DEF Popping
<1> QED BY <1>1, Always, PTL

\* A sender never writes through a Channel that was freed or whose socket was
\* closed: the mutex is enough, although CreateChannel writes the table
\* without it.
THEOREM SendsAlive == Spec => []SendsOnLiveChannel
<1>1. Alive => SendsOnLiveChannel
  BY DEF Alive, SenderInv, SendsOnLiveChannel, InUse
<1> QED BY <1>1, Always, PTL

\* libevent never calls back with a Channel that is gone, and a hang-up never
\* closes another client, though Close looks the Channel up by a number that
\* goes back to the pool.
THEOREM ClosesOwn == Spec => []ClosesItsOwnChannel
<1>1. Inv /\ Alive => ClosesItsOwnChannel
  BY ClosesOwnChannel DEF Alive, PlaceInv, ClosesItsOwnChannel, InUse
<1> QED BY <1>1, Always, PTL
-----------------------------------------------------------------------------
(***************************************************************************)
(* Below the connection limit.  There is always an id to spare, so one     *)
(* that was given back waits in the pool behind another until the slot has *)
(* been cleared (GivenBack, and the count of TwoLeft).  So a new Channel   *)
(* finds its slot empty, and a slot is what it should be (OwnSlot); no id  *)
(* is lost (Complete), and no Channel (Reached).                           *)
(*                                                                         *)
(* What the application makes of this is Chain: on each link the events,   *)
(* read in order from the clients it has listed, are those of one          *)
(* connection after the other, and the last of them is the one that is in  *)
(* the table.                                                              *)
(***************************************************************************)
\* A slot has the Channel in use, or the one being closed, or nothing.
OwnSlot ==
    /\ \A c \in Conns : InUse(c) => m_Channels[m_channelID[c]] = c
    /\ \A r \in Receivers : Closing(r) => m_Channels[rx[r].id] = rx[r].conn
    /\ \A r \in Receivers : rx[r].pc \in {"check", "install"} => m_Channels[rx[r].id] = NoConn

\* No id is lost: it is in the pool, on a Channel in use, or in a hand.
Pooled(k) == \E n \in 1..Len(m_ids) : m_ids[n] = k
Complete ==
    \A k \in Ids : \/ Pooled(k)
                   \/ \E c \in Conns : InUse(c) /\ m_channelID[c] = k
                   \/ \E r \in Receivers : Carrying(r) /\ rx[r].id = k

\* An id that was given back is the last in the pool until its slot is cleared.
Behind(r) == rx[r].pc \in {"report", "delete", "clear"}
GivenBack ==
    \A r \in Receivers : Behind(r) => Len(m_ids) > 0 /\ m_ids[Len(m_ids)] = rx[r].id

\* A Channel that lives is in somebody's hands.
ReachedBy(r, c) == c \in armed[r] \/ ((InHand(r) \/ Closing(r)) /\ rx[r].conn = c)
Reached ==
    /\ \A c \in Conns : obj[c] = "live" => \E r \in Receivers : ReachedBy(r, c)
    /\ \A r \in Receivers : rx[r].pc = "clear" => obj[rx[r].conn] = "freed"

Table == OwnSlot /\ Complete /\ GivenBack /\ Reached

\* With an id to spare, a receiver that takes one leaves one.
LEMMA TwoLeft ==
    ASSUME Inv, Alive, Complete, IsFiniteSet(Outstanding), BelowCapacity,
           NEW r \in Receivers, rx[r].pc = "alloc"
    PROVE  Len(m_ids) \in Nat /\ Len(m_ids) >= 2
<1>0. Len(m_ids) \in Nat /\ TotalIDs \in Nat /\ Cardinality(Outstanding) \in Nat
  BY TotalIDsAssumption, FS_CardinalityType, LenProperties DEF Inv, Types
<1> SUFFICES ASSUME Len(m_ids) < 2 PROVE FALSE
  BY <1>0
<1> DEFINE Owner(k, c) == \/ InUse(c) /\ m_channelID[c] = k
                          \/ \E q \in Receivers : Carrying(q) /\ rx[q].id = k /\ rx[q].conn = c
                          \/ Pooled(k) /\ c = rx[r].conn
           f == [k \in Ids |-> CHOOSE c \in Outstanding : Owner(k, c)]
<1>1. /\ rx[r].conn \in Conns /\ Fresh(rx[r].conn) /\ ~ Carrying(r)
      /\ \A q \in Receivers : rx[q].pc \in Before /\ rx[q].conn = rx[r].conn => q = r
  BY DEF Inv, HandInv, QueueInv, Before, InNotify, Carrying
<1>2. \A q \in Receivers : Carrying(q) => rx[q].conn \in Conns
  BY DEF Carrying, Inv, HandInv, InNotify, InClose
<1>3. ASSUME NEW k \in Ids PROVE \E c \in Outstanding : Owner(k, c)
  <2>1. \A c \in Conns : Owner(k, c) => c \in Outstanding
    BY <1>1 DEF Outstanding, InUse, Fresh
  <2>2. \E c \in Conns : Owner(k, c)
    BY <1>1, <1>2 DEF Complete
  <2> QED BY <2>1, <2>2
<1>4. ASSUME NEW q \in Receivers, Carrying(q)
      PROVE  ~ InUse(rx[q].conn) /\ rx[q].conn # rx[r].conn
  <2>1. CASE rx[q].pc = "release"
    <3>1. m_fd[rx[q].conn] = "closed"
      BY <2>1 DEF Inv, CloseInv, InClose
    <3> QED BY <1>1, <3>1 DEF InUse, Fresh
  <2>2. CASE rx[q].pc \in {"check", "install"}
    BY <1>1, <2>2 DEF Inv, QueueInv, Before, Fresh, InUse
  <2> QED BY <1>4, <2>1, <2>2 DEF Carrying
<1>5. ASSUME NEW p \in Receivers, NEW q \in Receivers, Carrying(p), Carrying(q),
             rx[p].conn = rx[q].conn
      PROVE  p = q
  <2>1. CASE rx[p].pc = "release" /\ rx[q].pc = "release"
    BY <2>1 DEF Alive, MutexInv, Closing, InClose
  <2>2. CASE rx[p].pc \in Before /\ rx[q].pc \in Before
    BY <1>5, <2>2 DEF Inv, QueueInv
  <2>3. \A i \in Receivers : /\ rx[i].pc = "release" => m_fd[rx[i].conn] = "closed"
                             /\ rx[i].pc \in Before => m_fd[rx[i].conn] = "open"
    BY DEF Inv, CloseInv, InClose, QueueInv, Fresh
  <2> QED BY <1>5, <2>1, <2>2, <2>3 DEF Carrying, Before
<1>6. ASSUME NEW j \in Ids, NEW k \in Ids, NEW c, Owner(j, c), Owner(k, c)
      PROVE  j = k
  <2>1. CASE InUse(c)
    <3>1. c # rx[r].conn
      BY <1>1, <2>1 DEF Fresh, InUse
    <3> QED BY <1>4, <1>6, <2>1, <3>1
  <2>2. CASE c = rx[r].conn
    <3>1. ~ InUse(c)
      BY <1>1, <2>2 DEF Fresh, InUse
    <3>2. Pooled(j) /\ Pooled(k)
      BY <1>4, <1>6, <2>2, <3>1
    <3> QED BY <1>0, <3>2 DEF Pooled
  <2>3. CASE ~ InUse(c) /\ c # rx[r].conn
    <3>1. PICK p \in Receivers : Carrying(p) /\ rx[p].id = j /\ rx[p].conn = c
      BY <1>6, <2>3
    <3>2. PICK q \in Receivers : Carrying(q) /\ rx[q].id = k /\ rx[q].conn = c
      BY <1>6, <2>3
    <3> QED BY <1>5, <3>1, <3>2
  <2> QED BY <2>1, <2>2, <2>3
<1>7. \A k \in Ids : f[k] \in Outstanding /\ Owner(k, f[k])
  BY <1>3
<1> HIDE DEF f
<1>8. f \in Injection(Ids, Outstanding)
  <2>1. \A j, k \in Ids : f[j] = f[k] => j = k
    <3> HIDE DEF Owner
    <3> QED BY <1>6, <1>7
  <2>2. f \in [Ids -> Outstanding]
    BY <1>7 DEF f
  <2> QED BY <2>1, <2>2 DEF Injection, IsInjective
<1>9. Cardinality(Ids) <= Cardinality(Outstanding)
  BY <1>8, FS_Injection
<1>10. Cardinality(Ids) = TotalIDs
  BY <1>0, FS_Interval DEF Ids
<1> QED BY <1>0, <1>9, <1>10 DEF BelowCapacity
\* A step that moves a receiver is its own.
LEMMA Moves ==
    ASSUME Inv, Next, NEW q \in Receivers
    PROVE  \/ rx'[q] = rx[q] \/ NotifyCb(q) \/ Continue(q)
           \/ \E c \in Conns : EventCb(q, c)
<1>1. ASSUME NEW r \in Receivers, Receiver(r)
      PROVE  \/ rx'[q] = rx[q] \/ NotifyCb(q) \/ Continue(q)
             \/ \E c \in Conns : EventCb(q, c)
  <2>1. CASE r = q
    BY <1>1, <2>1 DEF Receiver, ReadCb
  <2>2. CASE r # q
    BY <1>1, <2>2, OwnPlace
  <2> QED BY <2>1, <2>2
<1> QED
  BY <1>1 DEF Next, Accept, HangUp, Notify, HandleEvent, Put, Sender, TakeMsg, Lookup,
     Found, SendData

\* Close never finds a Channel whose socket it has closed before.
LEMMA ClosesOnce ==
    ASSUME Inv, Alive, OwnSlot, NEW r \in Receivers, CloseChannel(r)
    PROVE  /\ rx[r].pc = "close" /\ rx[r].conn \in Conns /\ rx[r].id \in Ids
           /\ InUse(rx[r].conn) /\ m_channelID[rx[r].conn] = rx[r].id
           /\ m_Channels[rx[r].id] = rx[r].conn
           /\ rx'[r].pc = "release" /\ Keeps(r)
           /\ m_fd' = [m_fd EXCEPT ![rx[r].conn] = "closed"]
           /\ UNCHANGED <<m_Channels, obj, m_channelID, m_ids, armed>>
<1>1. rx[r].pc = "close" /\ rx[r].conn \in Conns /\ rx[r].id \in Ids /\ rx[r].conn # NoConn
  BY NoConnAssumption DEF CloseChannel, Inv, HandInv
<1>2. InUse(rx[r].conn) /\ m_channelID[rx[r].conn] = rx[r].id
  BY <1>1 DEF Alive, PlaceInv, InHand
<1>3. m_Channels[rx[r].id] = rx[r].conn
  BY <1>1, <1>2 DEF OwnSlot
<1>4. m_fd[rx[r].conn] # "closed"
  BY <1>2 DEF InUse
<1>5. /\ m_fd' = [m_fd EXCEPT ![rx[r].conn] = "closed"]
      /\ rx' = [rx EXCEPT ![r] = [@ EXCEPT !.pc = "release", !.conn = rx[r].conn]]
      /\ UNCHANGED <<m_Channels, obj, m_channelID, m_ids, armed>>
  BY <1>1, <1>3, <1>4 DEF CloseChannel
<1>6. rx'[r].pc = "release" /\ Keeps(r)
  <2>1. /\ DOMAIN rx = Receivers
        /\ rx[r] = [pc |-> rx[r].pc, conn |-> rx[r].conn, id |-> rx[r].id]
    BY PlaceShape
  <2>2. rx'[r] = [rx[r] EXCEPT !.pc = "release", !.conn = rx[r].conn]
    BY <1>5, <2>1
  <2>3. PICK x, y, z : rx[r] = [pc |-> x, conn |-> y, id |-> z]
    BY <2>1
  <2> QED BY <2>2, <2>3 DEF Keeps
<1> QED BY <1>1, <1>2, <1>3, <1>5, <1>6

\* Only Install, ClearSlot and CloseChannel change a slot or what may be in it.
LEMMA SameSlots ==
    ASSUME Next, \A r \in Receivers : ~ Install(r) /\ ~ ClearSlot(r)
    PROVE  m_Channels' = m_Channels
BY DEF Next, Accept, HangUp, Notify, HandleEvent, Put, Sender, TakeMsg, Lookup,
   Found, SendData, Receiver, Continue, NotifyCb, PopConn, AllocID, CheckSlot,
   Announce, Enable, ReadCb, EventCb, CloseChannel, Release, Report, Delete

\* What Install does.
LEMMA InstallDoes ==
    ASSUME Inv, NEW r \in Receivers, Install(r)
    PROVE  /\ rx[r].conn \in Conns /\ rx[r].id \in Ids /\ Fresh(rx[r].conn) /\ Carrying(r)
           /\ rx[r].pc = "install" /\ rx'[r].pc = "announce" /\ Keeps(r)
           /\ m_Channels' = [m_Channels EXCEPT ![rx[r].id] = rx[r].conn]
           /\ m_channelID' = [m_channelID EXCEPT ![rx[r].conn] = rx[r].id]
           /\ obj' = [obj EXCEPT ![rx[r].conn] = "live"]
           /\ UNCHANGED <<m_fd, m_ids, armed>>
           /\ InUse(rx[r].conn)'
           /\ \A d \in Conns : d # rx[r].conn =>
                (InUse(d)' <=> InUse(d)) /\ m_channelID'[d] = m_channelID[d]
           /\ \A d \in Conns : InUse(d) => d # rx[r].conn /\ m_channelID[d] # rx[r].id
<1>1. /\ rx[r].conn \in Conns /\ rx[r].id \in Ids /\ Fresh(rx[r].conn) /\ Carrying(r)
      /\ rx[r].pc = "install"
  BY DEF Install, Inv, HandInv, QueueInv, Before, InNotify, Carrying
<1>2. rx'[r].pc = "announce" /\ Keeps(r)
  BY After
<1>3. /\ m_Channels' = [m_Channels EXCEPT ![rx[r].id] = rx[r].conn]
      /\ m_channelID' = [m_channelID EXCEPT ![rx[r].conn] = rx[r].id]
      /\ obj' = [obj EXCEPT ![rx[r].conn] = "live"]
      /\ UNCHANGED <<m_fd, m_ids, armed>>
  BY DEF Install
<1>4. PICK c \in Conns : c = rx[r].conn
  BY <1>1
<1>5. InUse(c)'
  BY <1>1, <1>3, <1>4 DEF Fresh, InUse, Inv, Types
<1>6. InUse(rx[r].conn)'
  BY <1>2, <1>4, <1>5 DEF InUse, Keeps
<1>7. \A d \in Conns : d # c => (InUse(d)' <=> InUse(d)) /\ m_channelID'[d] = m_channelID[d]
  BY <1>3, <1>4 DEF InUse, Inv, Types
<1>8. \A d \in Conns : InUse(d) => d # c /\ m_channelID[d] # rx[r].id
  BY <1>1, <1>4 DEF InUse, Fresh, Inv, PoolInv
<1> QED BY <1>1, <1>2, <1>3, <1>4, <1>6, <1>7, <1>8

\* Who waits for a slot, or is about to clear one, has been doing so.
LEMMA SamePlace ==
    ASSUME Inv, Alive, OwnSlot, Next, NEW q \in Receivers
    PROVE  /\ Closing(q)' => (Closing(q) \/ CloseChannel(q)) /\ Keeps(q)
           /\ rx'[q].pc \in {"check", "install"} => AllocID(q)
                \/ (rx[q].pc \in {"check", "install"} /\ Keeps(q))
           /\ Behind(q)' => (Behind(q) \/ Release(q)) /\ Keeps(q)
           /\ Carrying(q) => (Carrying(q)' /\ Keeps(q)) \/ CheckSlot(q) \/ Install(q) \/ Release(q)
<1> USE DEF Closing, Behind, Carrying, InClose
<1>1. CASE rx'[q] = rx[q]
  BY <1>1 DEF Keeps
<1>2. CASE NotifyCb(q)
  BY <1>2, After DEF NotifyCb
<1>3. ASSUME NEW c \in Conns, EventCb(q, c)
      PROVE  rx[q].pc = "loop" /\ rx'[q].pc = "close"
  BY <1>3, After DEF EventCb
<1>4. CASE PopConn(q)
  BY <1>4, After DEF PopConn
<1>5. CASE AllocID(q)
  BY <1>5, After DEF AllocID, Leaves
<1>6. CASE CheckSlot(q)
  BY <1>6, After DEF CheckSlot, Leaves
<1>7. CASE Install(q) \/ Announce(q) \/ Enable(q)
  BY <1>7, After DEF Install, Announce, Enable, Leaves
<1>8. CASE CloseChannel(q)
  BY <1>8, ClosesOnce
<1>9. CASE Release(q) \/ Report(q) \/ Delete(q) \/ ClearSlot(q)
  BY <1>9, After DEF Release, Report, Delete, ClearSlot, Leaves
<1> QED BY <1>1, <1>2, <1>3, <1>4, <1>5, <1>6, <1>7, <1>8, <1>9, Moves DEF Continue

\* A slot is taken by the one receiver that carries its id, and cleared by the
\* one that closes its Channel.
LEMMA OwnSlotStep ==
    ASSUME Inv, Alive, OwnSlot, GivenBack, Next,
           \A r \in Receivers : rx[r].pc = "alloc" => Len(m_ids) \in Nat /\ Len(m_ids) >= 2
    PROVE  OwnSlot'
<1>0. /\ m_Channels \in [Ids -> Conns \union {NoConn}] /\ NoConn \notin Conns
      /\ \A r \in Receivers : Closing(r) => rx[r].id \in Ids /\ rx[r].conn \in Conns
      /\ \A r \in Receivers : rx[r].pc \in {"check", "install"} => rx[r].id \in Ids
      /\ \A c \in Conns : InUse(c) => m_channelID[c] \in Ids
  BY NoConnAssumption DEF Inv, Types, HandInv, InNotify, Closing, Alive, SlotInv
<1>1. ASSUME NEW r \in Receivers, Install(r) PROVE OwnSlot'
  <2>1. PICK c \in Conns, k \in Ids :
           /\ c = rx[r].conn /\ k = rx[r].id
           /\ m_Channels' = [m_Channels EXCEPT ![k] = c] /\ m_Channels[k] = NoConn
           /\ InUse(c)' /\ m_channelID'[c] = k
           /\ \A d \in Conns : d # c =>
                (InUse(d)' <=> InUse(d)) /\ m_channelID'[d] = m_channelID[d]
           /\ \A d \in Conns : InUse(d) => d # c /\ m_channelID[d] # k
    <3>1. rx[r].conn \in Conns /\ rx[r].id \in Ids /\ m_Channels[rx[r].id] = NoConn
      BY <1>1, InstallDoes DEF OwnSlot
    <3>2. PICK c \in Conns : c = rx[r].conn
      BY <3>1
    <3>3. InUse(c)' /\ m_channelID'[c] = rx[r].id
      <4>1. InUse(rx[r].conn)' /\ rx'[r].conn = c
            /\ m_channelID' = [m_channelID EXCEPT ![c] = rx[r].id]
        BY <1>1, <3>2, InstallDoes DEF Keeps
      <4>2. DOMAIN m_channelID = Conns
        BY DEF Inv, Types
      <4> QED BY <4>1, <4>2 DEF InUse
    <3> QED BY <1>1, <3>1, <3>2, <3>3, InstallDoes
  <2>2. /\ m_Channels'[k] = c /\ \A j \in Ids : j # k => m_Channels'[j] = m_Channels[j]
    BY <1>0, <2>1
  <2>3. ASSUME NEW d \in Conns, InUse(d)'
        PROVE  m_Channels'[m_channelID'[d]] = d
    <3>1. CASE d = c
      BY <2>1, <2>2, <3>1
    <3>2. CASE d # c
      <4>1. InUse(d) /\ m_channelID'[d] = m_channelID[d] /\ m_channelID[d] # k
        BY <2>1, <2>3, <3>2
      <4> QED BY <1>0, <2>2, <4>1 DEF OwnSlot
    <3> QED BY <3>1, <3>2
  <2>4. /\ rx'[r].pc = "announce" /\ Carrying(r)
        /\ \A q \in Receivers : q # r => rx'[q] = rx[q]
    BY <1>1, OwnPlace, InstallDoes DEF Receiver, Continue
  <2>5. ASSUME NEW q \in Receivers, Closing(q)'
        PROVE  m_Channels'[rx'[q].id] = rx'[q].conn
    <3>1. q # r /\ rx'[q] = rx[q] /\ Closing(q)
      BY <2>4, <2>5 DEF Closing, InClose
    <3>2. m_Channels[rx[q].id] = rx[q].conn /\ rx[q].id # k
      BY <1>0, <2>1, <3>1 DEF OwnSlot
    <3> QED BY <1>0, <2>2, <3>1, <3>2
  <2>6. ASSUME NEW q \in Receivers, rx'[q].pc \in {"check", "install"}
        PROVE  m_Channels'[rx'[q].id] = NoConn
    <3>1. q # r /\ rx'[q] = rx[q] /\ rx[q].pc \in {"check", "install"}
      BY <2>4, <2>6
    <3>2. m_Channels[rx[q].id] = NoConn /\ rx[q].id # k
      BY <2>1, <2>4, <3>1 DEF OwnSlot, Carrying, Inv, PoolInv
    <3> QED BY <1>0, <2>2, <3>1, <3>2
  <2> QED BY <2>3, <2>5, <2>6 DEF OwnSlot
<1>2. ASSUME NEW r \in Receivers, ClearSlot(r) PROVE OwnSlot'
  <2>1. PICK k \in Ids : k = rx[r].id /\ m_Channels' = [m_Channels EXCEPT ![k] = NoConn]
    BY <1>0, <1>2 DEF ClearSlot, Closing, InClose
  <2>2. m_Channels'[k] = NoConn /\ \A j \in Ids : j # k => m_Channels'[j] = m_Channels[j]
    BY <1>0, <2>1
  <2>3. /\ Closing(r) /\ ~ Closing(r)' /\ rx'[r].pc = "loop"
        /\ \A q \in Receivers : q # r => rx'[q] = rx[q]
    BY <1>2, OwnPlace, After DEF Receiver, Continue, ClearSlot, Closing, InClose, Leaves
  <2>4. UNCHANGED <<m_fd, obj, m_channelID>>
    BY <1>2 DEF ClearSlot, connVars
  <2>5. ASSUME NEW d \in Conns, InUse(d)'
        PROVE  m_Channels'[m_channelID'[d]] = d
    <3>1. InUse(d) /\ m_channelID'[d] = m_channelID[d]
      BY <2>4, <2>5 DEF InUse
    <3>2. m_Channels[k] = rx[r].conn /\ m_fd[rx[r].conn] = "closed"
      BY <2>1, <2>3 DEF OwnSlot, Inv, CloseInv, Closing
    <3>3. m_channelID[d] # k
      BY <3>1, <3>2 DEF OwnSlot, InUse
    <3> QED BY <1>0, <2>2, <3>1, <3>3 DEF OwnSlot
  <2>6. \A q \in Receivers : ~ Closing(q)'
    BY <2>3 DEF Alive, MutexInv, Closing
  <2>7. ASSUME NEW q \in Receivers, rx'[q].pc \in {"check", "install"}
        PROVE  m_Channels'[rx'[q].id] = NoConn
    <3>1. rx'[q] = rx[q] /\ rx[q].pc \in {"check", "install"}
      BY <2>3, <2>7
    <3> QED BY <1>0, <2>2, <3>1 DEF OwnSlot
  <2> QED BY <2>5, <2>6, <2>7 DEF OwnSlot
<1>3. ASSUME \A r \in Receivers : ~ Install(r) /\ ~ ClearSlot(r)
      PROVE  OwnSlot'
  <2>1. m_Channels' = m_Channels
    BY <1>3, SameSlots
  <2>2. ASSUME NEW d \in Conns, InUse(d)'
        PROVE  InUse(d) /\ m_channelID'[d] = m_channelID[d]
    <3>1. ASSUME NEW r \in Receivers, CloseChannel(r)
          PROVE  InUse(d) /\ m_channelID'[d] = m_channelID[d]
      BY <2>2, <3>1, ClosesOnce DEF InUse, Inv, Types
    <3>2. CASE \A r \in Receivers : ~ CloseChannel(r)
      BY <1>3, <2>2, <3>2, SameInUse
    <3> QED BY <3>1, <3>2
  <2>3. ASSUME NEW q \in Receivers, Closing(q)'
        PROVE  m_Channels[rx'[q].id] = rx'[q].conn
    <3>1. (Closing(q) \/ CloseChannel(q)) /\ Keeps(q)
      BY <2>3, SamePlace
    <3>2. m_Channels[rx[q].id] = rx[q].conn
      BY <3>1, ClosesOnce DEF OwnSlot
    <3> QED BY <3>1, <3>2 DEF Keeps
  <2>4. ASSUME NEW q \in Receivers, AllocID(q), rx'[q].pc = "check"
        PROVE  m_Channels[rx'[q].id] = NoConn
    <3>1. Len(m_ids) \in Nat /\ Len(m_ids) >= 2 /\ m_ids \in Seq(Ids) /\ m_ids # <<>>
      <4>1. rx[q].pc = "alloc"
        BY <2>4 DEF AllocID
      <4>2. Len(m_ids) \in Nat /\ Len(m_ids) >= 2 /\ m_ids \in Seq(Ids)
        BY <4>1 DEF Inv, Types
      <4> QED BY <4>2, EmptySeq
    <3>2. rx'[q].id = Head(m_ids) /\ Head(m_ids) = m_ids[1] /\ m_ids[1] \in Ids
      <4>1. PICK id \in Ids : /\ id = Head(m_ids)
                              /\ rx' = [rx EXCEPT ![q] = [@ EXCEPT !.pc = "check", !.id = id]]
        BY <2>4, <3>1 DEF AllocID, NoFreeID, GetFreeID
      <4>2. rx'[q] = [rx[q] EXCEPT !.pc = "check", !.id = id]
        BY <4>1, PlaceShape
      <4>3. PICK x, y, z : rx[q] = [pc |-> x, conn |-> y, id |-> z]
        BY PlaceShape
      <4>4. rx'[q].id = id
        BY <4>2, <4>3
      <4> QED BY <3>1, <4>1, <4>4, HeadTailProperties
    <3>3. PICK k \in Ids : k = m_ids[1]
      BY <3>2
    <3>4. ASSUME m_Channels[k] # NoConn PROVE FALSE
      <4>1. m_Channels[k] \in Conns /\ m_channelID[m_Channels[k]] = k
        BY <1>0, <3>4 DEF Inv, TableInv
      <4>2. ~ InUse(m_Channels[k])
        BY <3>1, <3>3, <4>1 DEF Inv, PoolInv
      <4>3. PICK p \in Receivers : Closing(p) /\ rx[p].id = k
        BY <3>4, <4>2 DEF Alive, SlotInv
      <4>4. ~ Carrying(p)
        BY <3>1, <3>3, <4>3 DEF Inv, PoolInv
      <4>5. m_ids[Len(m_ids)] = k
        BY <4>3, <4>4 DEF GivenBack, Behind, Closing, InClose, Carrying
      <4> QED BY <3>1, <3>3, <4>5 DEF Inv, PoolInv
    <3> QED BY <3>2, <3>3, <3>4
  <2>5. ASSUME NEW q \in Receivers, rx'[q].pc \in {"check", "install"}
        PROVE  m_Channels[rx'[q].id] = NoConn
    <3>1. CASE AllocID(q)
      <4>1. rx'[q].pc = "check"
        BY <2>5, <3>1, After DEF Leaves
      <4> QED BY <2>4, <3>1, <4>1
    <3>2. CASE rx[q].pc \in {"check", "install"} /\ Keeps(q)
      BY <3>2 DEF OwnSlot, Keeps
    <3> QED BY <2>5, <3>1, <3>2, SamePlace
  <2>6. \A d \in Conns : InUse(d)' => m_Channels'[m_channelID'[d]] = d
    BY <2>1, <2>2 DEF OwnSlot
  <2> QED BY <2>1, <2>3, <2>5, <2>6 DEF OwnSlot
<1> QED BY <1>1, <1>2, <1>3

\* What AllocID and Release do to the pool.
LEMMA PoolDoes ==
    ASSUME Inv, NEW r \in Receivers
    PROVE  /\ AllocID(r) /\ m_ids # <<>> =>
                /\ m_ids' = Tail(m_ids) /\ m_ids' \in Seq(Ids)
                /\ Len(m_ids) \in Nat /\ Len(m_ids') = Len(m_ids) - 1
                /\ \A n \in 1..(Len(m_ids) - 1) : m_ids'[n] = m_ids[n + 1]
                /\ rx'[r].pc = "check" /\ rx'[r].id = m_ids[1]
           /\ Release(r) =>
                /\ rx[r].id \in Ids /\ m_ids' = Append(m_ids, rx[r].id)
                /\ Len(m_ids) \in Nat /\ Len(m_ids') = Len(m_ids) + 1
                /\ \A n \in 1..Len(m_ids) : m_ids'[n] = m_ids[n]
                /\ m_ids'[Len(m_ids) + 1] = rx[r].id
<1>0. m_ids \in Seq(Ids) /\ Len(m_ids) \in Nat
  BY LenProperties DEF Inv, Types
<1>1. ASSUME AllocID(r), m_ids # <<>>
      PROVE  /\ m_ids' = Tail(m_ids) /\ m_ids' \in Seq(Ids)
             /\ Len(m_ids) \in Nat /\ Len(m_ids') = Len(m_ids) - 1
             /\ \A n \in 1..(Len(m_ids) - 1) : m_ids'[n] = m_ids[n + 1]
             /\ rx'[r].pc = "check" /\ rx'[r].id = m_ids[1]
  <2>1. PICK id \in Ids : /\ id = Head(m_ids) /\ m_ids' = Tail(m_ids)
                          /\ rx' = [rx EXCEPT ![r] = [@ EXCEPT !.pc = "check", !.id = id]]
    BY <1>1 DEF AllocID, NoFreeID, GetFreeID
  <2>2. rx'[r] = [rx[r] EXCEPT !.pc = "check", !.id = id]
    BY <2>1, PlaceShape
  <2>3. PICK x, y, z : rx[r] = [pc |-> x, conn |-> y, id |-> z]
    BY PlaceShape
  <2>4. rx'[r].pc = "check" /\ rx'[r].id = id
    BY <2>2, <2>3
  <2>5. /\ Tail(m_ids) \in Seq(Ids) /\ Len(Tail(m_ids)) = Len(m_ids) - 1
        /\ \A n \in 1..Len(Tail(m_ids)) : Tail(m_ids)[n] = m_ids[n + 1]
        /\ Head(m_ids) = m_ids[1]
    BY <1>0, <1>1, HeadTailProperties
  <2> QED BY <1>0, <2>1, <2>4, <2>5
<1>2. ASSUME Release(r)
      PROVE  /\ rx[r].id \in Ids /\ m_ids' = Append(m_ids, rx[r].id)
             /\ Len(m_ids) \in Nat /\ Len(m_ids') = Len(m_ids) + 1
             /\ \A n \in 1..Len(m_ids) : m_ids'[n] = m_ids[n]
             /\ m_ids'[Len(m_ids) + 1] = rx[r].id
  <2>1. rx[r].id \in Ids /\ m_channelID[rx[r].conn] = rx[r].id
    BY <1>2 DEF Release, Inv, HandInv, CloseInv, InClose
  <2>2. m_ids' = Append(m_ids, rx[r].id)
    BY <1>2, <2>1 DEF Release, ReleaseID
  <2> QED BY <1>0, <2>1, <2>2, AppendProperties
<1> QED BY <1>1, <1>2

\* Who touches the pool.
LEMMA SamePool ==
    ASSUME Next, \A r \in Receivers : ~ AllocID(r) /\ ~ Release(r)
    PROVE  m_ids' = m_ids
BY DEF Next, Accept, HangUp, Notify, HandleEvent, Put, Sender, TakeMsg, Lookup,
   Found, SendData, Receiver, Continue, NotifyCb, PopConn, CheckSlot, Install,
   Announce, Enable, ReadCb, EventCb, CloseChannel, Report, Delete, ClearSlot

\* Somebody always has an id: none is lost, since no client is turned away
\* once it has one.
LEMMA CompleteStep ==
    ASSUME Inv, Alive, OwnSlot, Complete, Next
    PROVE  Complete'
<1> SUFFICES ASSUME NEW k \in Ids
             PROVE  \/ Pooled(k)'
                    \/ \E c \in Conns : (InUse(c) /\ m_channelID[c] = k)'
                    \/ \E r \in Receivers : (Carrying(r) /\ rx[r].id = k)'
  BY DEF Complete
<1> DEFINE Goal == \/ Pooled(k)'
                   \/ \E c \in Conns : (InUse(c) /\ m_channelID[c] = k)'
                   \/ \E r \in Receivers : (Carrying(r) /\ rx[r].id = k)'
<1>1. CASE Pooled(k)
  <2>1. PICK n \in 1..Len(m_ids) : m_ids[n] = k
    BY <1>1 DEF Pooled
  <2>2. ASSUME NEW r \in Receivers, AllocID(r) PROVE Goal
    <3>1. m_ids # <<>> /\ Len(m_ids) \in Nat
      BY <2>1, EmptySeq, LenProperties DEF Inv, Types
    <3>2. /\ Len(m_ids') = Len(m_ids) - 1 /\ rx'[r].pc = "check" /\ rx'[r].id = m_ids[1]
          /\ \A i \in 1..(Len(m_ids) - 1) : m_ids'[i] = m_ids[i + 1]
      BY <2>2, <3>1, PoolDoes
    <3>3. CASE n = 1
      BY <2>1, <3>2, <3>3 DEF Carrying
    <3>4. CASE n # 1
      <4>1. n - 1 \in 1..(Len(m_ids) - 1) /\ (n - 1) + 1 = n
        BY <3>1, <3>4
      <4>2. n - 1 \in 1..Len(m_ids') /\ m_ids'[n - 1] = k
        BY <2>1, <3>2, <4>1
      <4> QED BY <4>2 DEF Pooled
    <3> QED BY <3>3, <3>4
  <2>3. ASSUME NEW r \in Receivers, Release(r) PROVE Goal
    <3>1. n \in 1..Len(m_ids') /\ m_ids'[n] = k
      BY <2>1, <2>3, PoolDoes
    <3> QED BY <3>1 DEF Pooled
  <2>4. CASE \A r \in Receivers : ~ AllocID(r) /\ ~ Release(r)
    BY <1>1, <2>4, SamePool DEF Pooled
  <2> QED BY <2>2, <2>3, <2>4
<1>2. ASSUME NEW c \in Conns, InUse(c), m_channelID[c] = k PROVE Goal
  <2>1. ASSUME NEW r \in Receivers, Install(r) PROVE Goal
    <3>1. (InUse(c)' <=> InUse(c)) /\ m_channelID'[c] = m_channelID[c]
      BY <1>2, <2>1, InstallDoes
    <3> QED BY <1>2, <3>1
  <2>2. ASSUME NEW r \in Receivers, CloseChannel(r) PROVE Goal
    <3>1. CASE c = rx[r].conn
      <4>1. Carrying(r)' /\ rx'[r].id = k
        BY <1>2, <2>2, <3>1, ClosesOnce DEF Keeps, Carrying
      <4> QED BY <4>1
    <3>2. CASE c # rx[r].conn
      <4>1. InUse(c)' /\ m_channelID'[c] = k
        BY <1>2, <2>2, <3>2, ClosesOnce DEF InUse, Inv, Types
      <4> QED BY <4>1
    <3> QED BY <3>1, <3>2
  <2>3. CASE \A r \in Receivers : ~ Install(r) /\ ~ CloseChannel(r)
    BY <1>2, <2>3, SameInUse
  <2> QED BY <2>1, <2>2, <2>3
<1>3. ASSUME NEW r \in Receivers, Carrying(r), rx[r].id = k PROVE Goal
  <2>1. CASE Carrying(r)' /\ Keeps(r)
    BY <1>3, <2>1 DEF Keeps
  <2>2. CASE CheckSlot(r)
    <3>1. m_Channels[rx[r].id] = NoConn
      BY <2>2 DEF CheckSlot, OwnSlot
    <3>2. Goto(r, "install")
      BY <2>2, <3>1 DEF CheckSlot, IsUsed
    <3>3. Carrying(r)' /\ rx'[r].id = k
      BY <1>3, <3>2, Places DEF Carrying
    <3> QED BY <3>3
  <2>3. CASE Install(r)
    <3>1. PICK c \in Conns : c = rx[r].conn
      BY <2>3, InstallDoes
    <3>2. /\ InUse(rx[r].conn)' /\ rx'[r].conn = c
          /\ m_channelID' = [m_channelID EXCEPT ![c] = k]
      BY <1>3, <2>3, <3>1, InstallDoes DEF Keeps
    <3>3. DOMAIN m_channelID = Conns
      BY DEF Inv, Types
    <3>4. InUse(c)' /\ m_channelID'[c] = k
      BY <3>2, <3>3 DEF InUse
    <3> QED BY <3>4
  <2>4. CASE Release(r)
    <3>1. PICK n : n = Len(m_ids) + 1
      OBVIOUS
    <3>2. n \in 1..Len(m_ids') /\ m_ids'[n] = k
      BY <1>3, <2>4, <3>1, PoolDoes
    <3> QED BY <3>2 DEF Pooled
  <2> QED BY <1>3, <2>1, <2>2, <2>3, <2>4, SamePlace
<1> QED BY <1>1, <1>2, <1>3 DEF Complete

\* The one receiver that is closing gives its id back last, and others only
\* take from the front.
LEMMA GivenBackStep ==
    ASSUME Inv, Alive, OwnSlot, GivenBack, Next,
           \A r \in Receivers : rx[r].pc = "alloc" => Len(m_ids) \in Nat /\ Len(m_ids) >= 2
    PROVE  GivenBack'
<1> SUFFICES ASSUME NEW q \in Receivers, Behind(q)'
             PROVE  Len(m_ids') > 0 /\ m_ids'[Len(m_ids')] = rx'[q].id
  BY DEF GivenBack
<1>1. (Behind(q) \/ Release(q)) /\ Keeps(q)
  BY SamePlace
<1>2. CASE Release(q)
  BY <1>1, <1>2, PoolDoes DEF Keeps
<1>3. CASE Behind(q)
  <2>1. Len(m_ids) > 0 /\ m_ids[Len(m_ids)] = rx[q].id
    BY <1>3 DEF GivenBack
  <2>2. ASSUME NEW r \in Receivers, AllocID(r)
        PROVE  Len(m_ids') > 0 /\ m_ids'[Len(m_ids')] = rx'[q].id
    <3>1. Len(m_ids) \in Nat /\ Len(m_ids) >= 2
      BY <2>2 DEF AllocID
    <3>2. m_ids # <<>>
      BY <3>1, EmptySeq
    <3>3. PICK n : n = Len(m_ids) - 1
      OBVIOUS
    <3>4. n \in 1..(Len(m_ids) - 1) /\ n + 1 = Len(m_ids) /\ Len(m_ids') = n /\ n > 0
      BY <2>2, <3>1, <3>2, <3>3, PoolDoes
    <3>5. m_ids'[n] = m_ids[n + 1]
      BY <2>2, <3>2, <3>4, PoolDoes
    <3> QED BY <1>1, <2>1, <3>4, <3>5 DEF Keeps
  <2>3. ASSUME NEW r \in Receivers PROVE ~ Release(r)
    BY <1>3 DEF Release, Behind, Alive, MutexInv, Closing, InClose
  <2>4. CASE \A r \in Receivers : ~ AllocID(r)
    BY <1>1, <2>1, <2>3, <2>4, SamePool DEF Keeps
  <2> QED BY <2>2, <2>4
<1> QED BY <1>1, <1>2, <1>3
\* A receiver that is not in a callback of c goes on serving it.
LEMMA ArmedStep ==
    ASSUME Inv, Next, NEW r \in Receivers, NEW c \in armed[r], ~ EventCb(r, c)
    PROVE  c \in armed'[r]
<1>0. armed \in [Receivers -> SUBSET Conns]
  BY DEF Inv, Types
<1>1. ASSUME NEW q \in Receivers, Enable(q) PROVE c \in armed'[r]
  <2>1. armed' = [armed EXCEPT ![q] = @ \union {rx[q].conn}]
    BY <1>1 DEF Enable
  <2> QED BY <1>0, <2>1
<1>2. ASSUME NEW q \in Receivers, NEW d \in Conns, EventCb(q, d) PROVE c \in armed'[r]
  <2>1. armed' = [armed EXCEPT ![q] = @ \ {d}] /\ (q # r \/ d # c)
    BY <1>2 DEF EventCb
  <2> QED BY <1>0, <2>1
<1>3. CASE UNCHANGED armed
  BY <1>3
<1> QED
  BY <1>1, <1>2, <1>3 DEF Next, Accept, HangUp, Notify, HandleEvent, Put, Sender, TakeMsg,
     Lookup, Found, SendData, Receiver, Continue, NotifyCb, PopConn, AllocID, CheckSlot,
     Install, Announce, ReadCb, CloseChannel, Release, Report, Delete, ClearSlot

\* Who makes and deletes Channels.
LEMMA SameObj ==
    ASSUME Inv, Next, NEW c \in Conns, obj'[c] # obj[c]
    PROVE  \E r \in Receivers : rx[r].conn = c /\ (Install(r) \/ Delete(r))
<1>0. DOMAIN obj = Conns
  BY DEF Inv, Types
<1>1. ASSUME NEW r \in Receivers, Install(r) \/ Delete(r) PROVE rx[r].conn = c
  <2>1. \E x : obj' = [obj EXCEPT ![rx[r].conn] = x]
    BY <1>1 DEF Install, Delete
  <2> QED BY <1>0, <2>1
<1>2. obj' # obj
  OBVIOUS
<1>3. \E r \in Receivers : Install(r) \/ Delete(r)
  BY <1>2 DEF Next, Accept, HangUp, Notify, HandleEvent, Put, Sender, TakeMsg, Lookup,
     Found, SendData, Receiver, Continue, NotifyCb, PopConn, AllocID, CheckSlot,
     Announce, Enable, ReadCb, EventCb, CloseChannel, Release, Report, ClearSlot,
     connVars
<1> QED BY <1>1, <1>3

\* A Channel goes from hand to hand until it is deleted.
LEMMA ReachedStep ==
    ASSUME Inv, Alive, OwnSlot, Reached, Next
    PROVE  Reached'
<1>1. ASSUME NEW c \in Conns, obj'[c] = "live"
      PROVE  \E r \in Receivers : ReachedBy(r, c)'
  <2>1. ASSUME NEW r \in Receivers, Install(r), rx[r].conn = c
        PROVE  ReachedBy(r, c)'
    <3>1. rx'[r].pc = "announce" /\ rx'[r].conn = c
      BY <2>1, After DEF Keeps
    <3> QED BY <3>1 DEF InHand, ReachedBy
  <2>2. ASSUME obj[c] = "live"
        PROVE  \E r \in Receivers : ReachedBy(r, c)'
    <3>1. PICK r \in Receivers : ReachedBy(r, c)
      BY <2>2 DEF Reached
    <3>2. CASE c \in armed[r]
      <4>1. EventCb(r, c) => rx'[r].pc = "close" /\ rx'[r].conn = c
        BY After
      <4>2. ~ EventCb(r, c) => c \in armed'[r]
        BY <3>2, ArmedStep
      <4>3. EventCb(r, c) => ReachedBy(r, c)'
        BY <4>1 DEF ReachedBy, InHand
      <4>4. ~ EventCb(r, c) => ReachedBy(r, c)'
        BY <4>2 DEF ReachedBy
      <4> QED BY <4>3, <4>4
    <3>3. CASE (InHand(r) \/ Closing(r)) /\ rx[r].conn = c
      <4>0. rx[r].conn = c /\ rx[r].pc \in {"announce", "enable", "close"} \union InClose
        BY <3>3 DEF InHand, Closing
      <4>1. CASE Enable(r)
        <5>1. c \in armed'[r]
          BY <4>0, <4>1 DEF Enable, Inv, Types
        <5> QED BY <5>1 DEF ReachedBy
      <4>2. ~ ClearSlot(r)
        BY <2>2, <4>0 DEF ClearSlot, Reached
      <4>3. CASE rx'[r].pc \in {"enable"} \union InClose /\ rx'[r].conn = c
        BY <4>3 DEF ReachedBy, InHand, Closing
      <4>4. CASE CloseChannel(r)
        <5>1. rx'[r].pc = "release" /\ rx'[r].conn = c
          BY <4>0, <4>4, ClosesOnce DEF Keeps
        <5> QED BY <4>3, <5>1 DEF InClose
      <4>5. CASE Announce(r) \/ Release(r) \/ Report(r) \/ Delete(r)
        <5>1. rx'[r].pc \in {"enable", "report", "delete", "clear"} /\ rx'[r].conn = c
          BY <4>0, <4>5, After DEF Keeps
        <5> QED BY <4>3, <5>1 DEF InClose
      <4>6. CASE rx'[r] = rx[r]
        BY <4>0, <4>6 DEF ReachedBy, InHand, Closing
      <4>7. ~ NotifyCb(r) /\ ~ PopConn(r) /\ ~ AllocID(r) /\ ~ CheckSlot(r) /\ ~ Install(r)
            /\ \A d \in Conns : ~ EventCb(r, d)
        BY <4>0 DEF NotifyCb, PopConn, AllocID, CheckSlot, Install, EventCb, InClose
      <4> QED BY <4>1, <4>2, <4>4, <4>5, <4>6, <4>7, Moves DEF Continue
    <3> QED BY <3>1, <3>2, <3>3 DEF ReachedBy
  <2>3. CASE obj[c] # "live"
    <3>1. PICK r \in Receivers : rx[r].conn = c /\ (Install(r) \/ Delete(r))
      BY <1>1, <2>3, SameObj
    <3>2. ~ Delete(r)
      BY <1>1, <3>1 DEF Delete, Inv, Types
    <3> QED BY <2>1, <3>1, <3>2
  <2> QED BY <2>2, <2>3
<1>2. ASSUME NEW q \in Receivers, rx'[q].pc = "clear"
      PROVE  obj'[rx'[q].conn] = "freed"
  <2>1. (Behind(q) \/ Release(q)) /\ Keeps(q)
    BY <1>2, SamePlace DEF Behind
  <2>2. ~ Release(q)
    BY <1>2, After
  <2>3. PICK c \in Conns : c = rx[q].conn
    BY <2>1, <2>2 DEF Behind, InClose, Inv, HandInv
  <2>4. CASE Delete(q)
    <3>1. obj'[c] = "freed"
      BY <2>3, <2>4 DEF Delete, Inv, Types
    <3> QED BY <2>1, <2>3, <3>1 DEF Keeps
  <2>5. CASE ~ Delete(q)
    <3>1. rx[q].pc = "clear"
      <4>1. CASE rx'[q] = rx[q]
        BY <1>2, <4>1
      <4>2. CASE Continue(q) \/ NotifyCb(q) \/ \E d \in Conns : EventCb(q, d)
        <5>1. ~ (rx'[q].pc = "clear")
          BY <2>5, <4>2, After, ClosesOnce DEF Continue, Leaves
        <5> QED BY <1>2, <5>1
      <4> QED BY <4>1, <4>2, Moves
    <3>2. obj[c] = "freed"
      BY <2>3, <3>1 DEF Reached
    <3>3. ASSUME obj'[c] # obj[c] PROVE obj'[c] = "freed"
      <4>1. PICK r \in Receivers : rx[r].conn = c /\ (Install(r) \/ Delete(r))
        BY <3>3, SameObj
      <4>2. ~ Install(r)
        BY <3>2, <4>1, InstallDoes DEF Fresh
      <4> QED BY <4>1, <4>2 DEF Delete, Inv, Types
    <3>4. obj'[c] = "freed"
      BY <3>2, <3>3
    <3> QED BY <2>1, <2>3, <3>4 DEF Keeps
  <2> QED BY <2>4, <2>5
<1> QED BY <1>1, <1>2 DEF Reached

\* A step opens one connection at most.
LEMMA OutstandingStep ==
    ASSUME Inv, Alive, OwnSlot, Next, IsFiniteSet(Outstanding)
    PROVE  IsFiniteSet(Outstanding')
<1>1. \E c : Outstanding' \subseteq Outstanding \union {c}
  <2>1. ASSUME NEW c \in Conns, Accept(c)
        PROVE  Outstanding' \subseteq Outstanding \union {c}
    BY <2>1 DEF Accept, Outstanding, Inv, Types
  <2>2. ASSUME \A c \in Conns : ~ Accept(c)
        PROVE  Outstanding' \subseteq Outstanding
    <3>1. \A c \in Conns : m_fd'[c] = "open" => m_fd[c] = "open"
      <4>1. ASSUME NEW r \in Receivers, AllocID(r) \/ CheckSlot(r) \/ CloseChannel(r)
            PROVE  \A c \in Conns : m_fd'[c] = "open" => m_fd[c] = "open"
        <5>1. \/ m_fd' = m_fd
              \/ \E d : m_fd' = [m_fd EXCEPT ![d] = "closed"]
          BY <4>1 DEF AllocID, CheckSlot, CloseChannel
        <5> QED BY <5>1 DEF Inv, Types
      <4>2. CASE UNCHANGED m_fd
        BY <4>2
      <4> QED
        BY <2>2, <4>1, <4>2 DEF Next, HangUp, Notify, HandleEvent, Put, Sender, TakeMsg,
           Lookup, Found, SendData, Receiver, Continue, NotifyCb, PopConn, Install,
           Announce, Enable, ReadCb, EventCb, Release, Report, Delete, ClearSlot, connVars
    <3>2. ASSUME NEW q \in Receivers, rx'[q].conn \in Conns
          PROVE  rx'[q].conn \in Outstanding
      <4>1. CASE rx'[q].conn = rx[q].conn
        BY <3>2, <4>1 DEF Outstanding
      <4>2. CASE NotifyCb(q)
        <5>1. rx'[q].conn = rx[q].conn
          BY <4>2, Places DEF NotifyCb
        <5> QED BY <4>1, <5>1
      <4>3. CASE PopConn(q)
        <5>1. rx'[q] = [pc |-> "alloc", conn |-> Head(conn_queue[q]), id |-> -1]
          BY <4>3, Places DEF PopConn
        <5>2. conn_queue[q] \in Seq(Conns) /\ conn_queue[q] # <<>>
          BY <4>3 DEF PopConn, Inv, Types
        <5>3. Head(conn_queue[q]) = conn_queue[q][1] /\ 1 \in 1..Len(conn_queue[q])
          BY <5>2, HeadTailProperties, EmptySeq, LenProperties
        <5>4. Fresh(conn_queue[q][1])
          BY <5>3 DEF Inv, QueueInv
        <5> QED BY <3>2, <5>1, <5>3, <5>4 DEF Fresh, Outstanding
      <4>4. ASSUME NEW c \in Conns, EventCb(q, c) PROVE rx'[q].conn \in Outstanding
        <5>1. rx'[q].conn = c /\ c \in armed[q]
          BY <4>4, After DEF EventCb
        <5>2. m_fd[c] = "open"
          BY <5>1 DEF Alive, PlaceInv, InUse
        <5> QED BY <5>1, <5>2 DEF Outstanding
      <4>5. CASE Continue(q) /\ ~ PopConn(q)
        <5>1. rx'[q].conn = rx[q].conn \/ rx'[q].conn = NoConn
          BY <4>5, After, ClosesOnce DEF Continue, Leaves, Keeps
        <5> QED BY <3>2, <4>1, <5>1, NoConnAssumption
      <4> QED BY <4>1, <4>2, <4>3, <4>4, <4>5, Moves
    <3> QED BY <3>1, <3>2 DEF Outstanding
  <2> QED BY <2>1, <2>2
<1>2. PICK c : Outstanding' \subseteq Outstanding \union {c}
  BY <1>1
<1>3. IsFiniteSet(Outstanding \union {c})
  BY FS_AddElement
<1> QED BY <1>2, <1>3, FS_Subset
-----------------------------------------------------------------------------
\* The application's half: its list, and the events that are still to come.
Member == [link : Ids, conn : Conns]
Listed(ps, k, c) == \E a \in 1..Len(ps) : ps[a].link = k /\ ps[a].conn = c
Distinct(ps) == \A a, b \in 1..Len(ps) : ps[a].link = ps[b].link => a = b

\* Who is on link k after n of the events es, for an application with the list ps.
On(es, ps, k, c, n) ==
    \/ \E i \in 1..n : /\ es[i].link = k /\ es[i].conn = c
                       /\ es[i].kind # "disconnected"
                       /\ \A j \in (i + 1)..n : es[j].link # k
    \/ (\A j \in 1..n : es[j].link # k) /\ Listed(ps, k, c)

\* Who will be on it after the last: the Channel in the table, from when it is
\* announced to when its end is reported.
Current(k, c) ==
    /\ m_Channels[k] = c
    /\ \A r \in Receivers : rx[r].conn = c => rx[r].pc \notin {"announce", "delete", "clear"}

\* The list of players and the events after it tell one story for each link.
Chain ==
    /\ players \in Seq(Member) /\ Distinct(players)
    /\ \A n \in 1..Len(events) :
         /\ events[n].link \in Ids /\ events[n].conn \in Conns /\ events[n].kind # "exists"
         /\ events[n].kind = "connected" =>
              \A c \in Conns : ~ On(events, players, events[n].link, c, n - 1)
         /\ events[n].kind # "connected" =>
              On(events, players, events[n].link, events[n].conn, n - 1)
    /\ \A k \in Ids, c \in Conns : On(events, players, k, c, Len(events)) <=> Current(k, c)

\* One more event.
LEMMA OnLast ==
    ASSUME NEW es, NEW ps, NEW k, NEW c, NEW n \in Nat, NEW m, m = n + 1
    PROVE  /\ es[m].link = k =>
                (On(es, ps, k, c, m) <=> es[m].conn = c /\ es[m].kind # "disconnected")
           /\ es[m].link # k => (On(es, ps, k, c, m) <=> On(es, ps, k, c, n))
<1>0. \A i : i \in 1..m <=> i \in 1..n \/ i = m
  OBVIOUS
<1>1. \A i \in 1..n : \A j : j \in (i + 1)..m <=> j \in (i + 1)..n \/ j = m
  OBVIOUS
<1>2. \A j : j \notin (m + 1)..m
  OBVIOUS
<1>3. CASE es[m].link = k
  <2>1. ASSUME On(es, ps, k, c, m)
        PROVE  es[m].conn = c /\ es[m].kind # "disconnected"
    BY <1>0, <1>1, <1>3, <2>1 DEF On
  <2>2. ASSUME es[m].conn = c, es[m].kind # "disconnected"
        PROVE  On(es, ps, k, c, m)
    BY <1>0, <1>2, <1>3, <2>2 DEF On
  <2> QED BY <1>3, <2>1, <2>2
<1>4. CASE es[m].link # k
  <2>1. ASSUME On(es, ps, k, c, m) PROVE On(es, ps, k, c, n)
    BY <1>0, <1>1, <1>4, <2>1 DEF On
  <2>2. ASSUME On(es, ps, k, c, n) PROVE On(es, ps, k, c, m)
    BY <1>0, <1>1, <1>4, <2>2 DEF On
  <2> QED BY <1>4, <2>1, <2>2
<1> QED BY <1>3, <1>4

\* Before any event it is whom the application has listed.
LEMMA OnNone ==
    ASSUME NEW es, NEW ps, NEW k, NEW c
    PROVE  On(es, ps, k, c, 0) <=> Listed(ps, k, c)
<1>1. 1..0 = {}
  OBVIOUS
<1> QED BY <1>1 DEF On

\* The first event settles its own link and no other.
LEMMA OnFirst ==
    ASSUME NEW es, NEW ps, NEW k, NEW c
    PROVE  On(es, ps, k, c, 1) <=>
             IF es[1].link = k THEN es[1].conn = c /\ es[1].kind # "disconnected"
             ELSE Listed(ps, k, c)
<1>1. 1..1 = {1} /\ \A j : j \notin (1 + 1)..1
  OBVIOUS
<1> QED BY <1>1 DEF On

\* Later events do not matter.
LEMMA OnPrefix ==
    ASSUME NEW es, NEW fs, NEW ps, NEW k, NEW c, NEW n \in Nat, \A i \in 1..n : es[i] = fs[i]
    PROVE  On(es, ps, k, c, n) <=> On(fs, ps, k, c, n)
<1>1. \A i \in 1..n : \A j \in (i + 1)..n : j \in 1..n
  OBVIOUS
<1> QED BY <1>1 DEF On

\* The application takes the first event.
LEMMA OnTail ==
    ASSUME NEW es, NEW ts, NEW ps, NEW qs, NEW k, NEW c, NEW n \in Nat,
           \A i \in 1..n : ts[i] = es[i + 1],
           Listed(qs, k, c) <=> On(es, ps, k, c, 1)
    PROVE  On(es, ps, k, c, n + 1) <=> On(ts, qs, k, c, n)
<1>0. /\ \A i \in 1..n : i + 1 \in 2..(n + 1) /\ ts[i] = es[i + 1]
      /\ \A i \in 2..(n + 1) : i - 1 \in 1..n /\ ts[i - 1] = es[i]
      /\ \A i \in 1..(n + 1) : i = 1 \/ i \in 2..(n + 1)
      /\ 1 \in 1..(n + 1) /\ \A j : j \notin 2..1
  OBVIOUS
<1>1. CASE \A i \in 2..(n + 1) : es[i].link # k
  <2>1. \A i \in 1..n : ts[i].link # k
    BY <1>0, <1>1
  <2>2. On(ts, qs, k, c, n) <=> Listed(qs, k, c)
    BY <2>1 DEF On
  <2>3. On(es, ps, k, c, n + 1) <=> On(es, ps, k, c, 1)
    <3>1. On(es, ps, k, c, n + 1) <=>
            IF es[1].link = k THEN es[1].conn = c /\ es[1].kind # "disconnected"
            ELSE Listed(ps, k, c)
      BY <1>0, <1>1 DEF On
    <3>2. On(es, ps, k, c, 1) <=>
            IF es[1].link = k THEN es[1].conn = c /\ es[1].kind # "disconnected"
            ELSE Listed(ps, k, c)
      BY OnFirst
    <3> QED BY <3>1, <3>2
  <2> QED BY <2>2, <2>3
<1>2. ASSUME NEW i \in 2..(n + 1), es[i].link = k
      PROVE  On(es, ps, k, c, n + 1) <=> On(ts, qs, k, c, n)
  <2>1. i \in 1..(n + 1) /\ i - 1 \in 1..n /\ ts[i - 1].link = k
    BY <1>0, <1>2
  <2>2. ASSUME On(es, ps, k, c, n + 1) PROVE On(ts, qs, k, c, n)
    <3>1. PICK x \in 1..(n + 1) :
             /\ es[x].link = k /\ es[x].conn = c /\ es[x].kind # "disconnected"
             /\ \A j \in (x + 1)..(n + 1) : es[j].link # k
      BY <1>2, <2>1, <2>2 DEF On
    <3>2. x >= i
      BY <1>2, <3>1
    <3>3. x - 1 \in 1..n /\ ts[x - 1] = es[x]
      BY <1>0, <3>1, <3>2
    <3>4. \A j \in ((x - 1) + 1)..n : ts[j].link # k
      <4>1. \A j \in ((x - 1) + 1)..n : j \in 1..n /\ j + 1 \in (x + 1)..(n + 1)
        BY <3>1, <3>2
      <4> QED BY <1>0, <3>1, <4>1
    <3> QED BY <3>1, <3>3, <3>4 DEF On
  <2>3. ASSUME On(ts, qs, k, c, n) PROVE On(es, ps, k, c, n + 1)
    <3>1. PICK x \in 1..n :
             /\ ts[x].link = k /\ ts[x].conn = c /\ ts[x].kind # "disconnected"
             /\ \A j \in (x + 1)..n : ts[j].link # k
      BY <2>1, <2>3 DEF On
    <3>2. x + 1 \in 1..(n + 1) /\ ts[x] = es[x + 1]
      BY <1>0, <3>1
    <3>3. \A j \in (x + 1 + 1)..(n + 1) : es[j].link # k
      <4>1. \A j \in (x + 1 + 1)..(n + 1) : j \in 2..(n + 1) /\ j - 1 \in (x + 1)..n
        BY <3>1
      <4> QED BY <1>0, <3>1, <4>1
    <3> QED BY <3>1, <3>2, <3>3 DEF On
  <2> QED BY <2>2, <2>3
<1> QED BY <1>1, <1>2

\* A step that tells the application of one client more, or one message more.
LEMMA ChainAppend ==
    ASSUME Alive, Chain, NEW e, events' = Append(events, e), players' = players,
           e \in LinkEvents, e.link \in Ids, e.conn \in Conns, e.kind # "exists",
           e.kind = "connected" => \A c \in Conns : ~ Current(e.link, c),
           e.kind # "connected" => Current(e.link, e.conn),
           \A k \in Ids, c \in Conns :
              Current(k, c)' <=> IF e.link = k THEN e.conn = c /\ e.kind # "disconnected"
                                 ELSE Current(k, c)
    PROVE  Chain'
<1>1. /\ events \in Seq(LinkEvents) /\ Len(events) \in Nat /\ Len(events') = Len(events) + 1
      /\ \A n \in 1..Len(events) : events'[n] = events[n]
      /\ events'[Len(events) + 1] = e
  <2>1. events \in Seq(LinkEvents)
    BY DEF Alive, SendTypes
  <2> HIDE DEF LinkEvents
  <2> QED BY <2>1, AppendProperties, LenProperties
<1>2. ASSUME NEW k, NEW c, NEW n \in 0..Len(events)
      PROVE  On(events, players, k, c, n) <=> On(events', players', k, c, n)
  <2>1. n \in Nat /\ \A i \in 1..n : events[i] = events'[i]
    BY <1>1
  <2> QED BY <2>1, OnPrefix
<1>3. ASSUME NEW n \in 1..Len(events')
      PROVE  /\ events'[n].link \in Ids /\ events'[n].conn \in Conns
             /\ events'[n].kind # "exists"
             /\ events'[n].kind = "connected" =>
                  \A c \in Conns : ~ On(events', players', events'[n].link, c, n - 1)
             /\ events'[n].kind # "connected" =>
                  On(events', players', events'[n].link, events'[n].conn, n - 1)
  <2>1. n - 1 \in 0..Len(events)
    BY <1>1
  <2>2. CASE n \in 1..Len(events)
    BY <1>1, <1>2, <2>1, <2>2 DEF Chain
  <2>3. CASE n = Len(events) + 1
    <3>1. n - 1 = Len(events) /\ events'[n] = e
      BY <1>1, <2>3
    <3> QED BY <1>2, <2>1, <3>1 DEF Chain
  <2> QED BY <1>1, <2>2, <2>3
<1>4. ASSUME NEW k \in Ids, NEW c \in Conns
      PROVE  On(events', players', k, c, Len(events')) <=> Current(k, c)'
  <2>1. On(events', players', k, c, Len(events')) <=>
          IF e.link = k THEN e.conn = c /\ e.kind # "disconnected"
          ELSE On(events', players', k, c, Len(events))
    <3>1. PICK m, n, es, ps : /\ n \in Nat /\ n = Len(events) /\ m = n + 1
                              /\ es = events' /\ es[m] = e /\ ps = players'
      BY <1>1
    <3>2. m = n + 1 /\ n \in Nat
      BY <3>1
    <3>3. /\ es[m].link = k =>
                (On(es, ps, k, c, m) <=> es[m].conn = c /\ es[m].kind # "disconnected")
          /\ es[m].link # k => (On(es, ps, k, c, m) <=> On(es, ps, k, c, n))
      BY <3>2, OnLast
    <3> QED BY <1>1, <3>1, <3>3
  <2>2. On(events', players', k, c, Len(events)) <=> Current(k, c)
    BY <1>1, <1>2 DEF Chain
  <2> QED BY <1>1, <2>1, <2>2
<1> QED BY <1>3, <1>4 DEF Chain

\* A step that tells it nothing.
LEMMA ChainSame ==
    ASSUME Chain, UNCHANGED <<events, players>>,
           \A k \in Ids, c \in Conns : Current(k, c)' <=> Current(k, c)
    PROVE  Chain'
BY DEF Chain

\* Clients are announced and reported one by one: all other slots have what
\* they had.
Told == {"announce", "delete", "clear"}
LEMMA OthersCurrent ==
    ASSUME Inv, NEW r \in Receivers, NEW c \in Conns, NEW k \in Ids,
           rx[r].conn = c, rx'[r].conn \in {c, NoConn},
           \A q \in Receivers : q # r => rx'[q] = rx[q],
           \A j \in Ids : j # k => m_Channels'[j] = m_Channels[j] /\ m_Channels[j] # c,
           NEW j \in Ids, NEW d \in Conns, j # k
    PROVE  Current(j, d)' <=> Current(j, d)
<1>1. m_Channels'[j] = m_Channels[j] /\ m_Channels[j] # c /\ d # NoConn
  BY NoConnAssumption
<1>2. CASE d = c
  BY <1>1, <1>2 DEF Current
<1>3. CASE d # c
  <2>1. \A q \in Receivers : rx'[q].conn = d => q # r /\ rx'[q] = rx[q]
    BY <1>1, <1>3
  <2>2. \A q \in Receivers : rx[q].conn = d => q # r /\ rx'[q] = rx[q]
    BY <1>3
  <2> QED BY <1>1, <2>1, <2>2 DEF Current
<1> QED BY <1>2, <1>3

\* A Channel is in one slot, its own.
LEMMA OneSlot ==
    ASSUME Inv, NEW c \in Conns
    PROVE  /\ \A j \in Ids : m_Channels[j] = c => m_channelID[c] = j
           /\ Fresh(c) => \A j \in Ids : m_Channels[j] # c
BY NoConnAssumption DEF Inv, TableInv, Fresh

\* Four steps change who is on a link; all the others leave it.
LEMMA SameCurrent ==
    ASSUME Inv, Alive, OwnSlot, Next,
           \A r \in Receivers : ~ Install(r) /\ ~ ClearSlot(r) /\ ~ Announce(r) /\ ~ Report(r)
    PROVE  \A k \in Ids, c \in Conns : Current(k, c)' <=> Current(k, c)
<1>1. m_Channels' = m_Channels
  BY SameSlots
<1>2. ASSUME NEW q \in Receivers
      PROVE  /\ rx'[q].pc \in Told <=> rx[q].pc \in Told
             /\ rx[q].pc \in Told => rx'[q].conn = rx[q].conn
  <2>1. CASE rx'[q] = rx[q]
    BY <2>1
  <2>2. CASE Delete(q)
    <3>1. rx'[q].pc = "clear" /\ rx'[q].conn = rx[q].conn /\ rx[q].pc = "delete"
      BY <2>2, After DEF Delete, Keeps
    <3> QED BY <3>1 DEF Told
  <2>3. ASSUME rx[q].pc \notin Told, rx'[q].pc \notin Told
        PROVE  /\ rx'[q].pc \in Told <=> rx[q].pc \in Told
               /\ rx[q].pc \in Told => rx'[q].conn = rx[q].conn
    BY <2>3
  <2>4. ASSUME \/ NotifyCb(q) \/ PopConn(q) \/ AllocID(q) \/ CheckSlot(q) \/ Enable(q)
               \/ CloseChannel(q) \/ Release(q)
               \/ \E c \in Conns : EventCb(q, c)
        PROVE  rx[q].pc \notin Told /\ rx'[q].pc \notin Told
    <3>1. rx[q].pc \in {"loop", "pop", "alloc", "check", "enable", "close", "release"}
      BY <2>4 DEF NotifyCb, PopConn, AllocID, CheckSlot, Enable, CloseChannel, Release, EventCb
    <3>2. rx'[q].pc \in {"pop", "alloc", "check", "install", "loop", "release", "report", "close"}
      BY <2>4, After, ClosesOnce DEF Leaves
    <3> QED BY <3>1, <3>2 DEF Told
  <2> QED BY <2>1, <2>2, <2>3, <2>4, Moves DEF Continue
<1>3. ASSUME NEW k \in Ids, NEW c \in Conns PROVE Current(k, c)' <=> Current(k, c)
  BY <1>1, <1>2 DEF Current, Told
<1> QED BY <1>3

\* Who talks to the application.  The slot that CheckSlot tests is empty.
LEMMA SameEvents ==
    ASSUME OwnSlot, Next, ~ HandleEvent,
           \A r \in Receivers : /\ ~ Announce(r) /\ ~ Report(r)
                                /\ \A c \in Conns : ~ ReadCb(r, c)
    PROVE  UNCHANGED <<events, players>>
<1>1. ASSUME NEW r \in Receivers, CheckSlot(r) PROVE UNCHANGED <<events, players>>
  <2>1. m_Channels[rx[r].id] = NoConn
    BY <1>1 DEF CheckSlot, OwnSlot
  <2> QED BY <1>1, <2>1 DEF CheckSlot, IsUsed, appVars
<1>2. CASE UNCHANGED <<events, players>>
  BY <1>2
<1> QED
  BY <1>1, <1>2 DEF Next, Accept, HangUp, Notify, Put, Sender, TakeMsg, Lookup, Found,
     SendData, Receiver, Continue, NotifyCb, PopConn, AllocID, Install, Enable, EventCb,
     CloseChannel, Release, Delete, ClearSlot, appVars

\* The step that a receiver takes with the Channel c in slot k.
LEMMA AnnounceChain ==
    ASSUME Inv, Alive, OwnSlot, Chain, NEW r \in Receivers, Announce(r)
    PROVE  Chain'
<1>1. PICK c \in Conns, k \in Ids :
         /\ c = rx[r].conn /\ k = m_channelID[c] /\ InUse(c) /\ m_Channels[k] = c
         /\ InHand(r) /\ rx[r].pc = "announce"
  BY DEF Announce, Inv, HandInv, InNotify, Alive, PlaceInv, InHand, OwnSlot
<1>2. PICK e : /\ e = [kind |-> "connected", link |-> k, conn |-> c]
               /\ events' = Append(events, e) /\ players' = players /\ m_Channels' = m_Channels
  BY <1>1 DEF Announce, Event, appVars
<1>3. /\ rx'[r].pc = "enable" /\ rx'[r].conn = c
      /\ \A q \in Receivers : q # r => rx'[q] = rx[q]
  BY <1>1, After, OwnPlace DEF Receiver, Continue, Keeps
<1>4. e \in LinkEvents /\ e.link = k /\ e.conn = c /\ e.kind = "connected"
  BY <1>2 DEF LinkEvents
<1>5. \A d \in Conns : ~ Current(k, d)
  BY <1>1 DEF Current
<1>6. Current(k, c)'
  <2>1. ASSUME NEW q \in Receivers, rx'[q].conn = c, rx'[q].pc \in {"announce", "delete", "clear"}
        PROVE  FALSE
    <3>1. q # r /\ rx[q].conn = c /\ rx[q].pc \in {"announce", "delete", "clear"}
      BY <1>3, <2>1
    <3>2. rx[q].pc # "announce"
      BY <1>1, <3>1 DEF Alive, PlaceInv, InHand
    <3>3. m_fd[c] = "closed"
      BY <3>1, <3>2 DEF Inv, CloseInv, InClose
    <3> QED BY <1>1, <3>3 DEF InUse
  <2> QED BY <1>1, <1>2, <2>1 DEF Current
<1>7. ASSUME NEW j \in Ids, NEW d \in Conns
      PROVE  Current(j, d)' <=> IF e.link = j THEN e.conn = d /\ e.kind # "disconnected"
                                ELSE Current(j, d)
  <2>1. CASE j = k /\ d = c
    BY <1>4, <1>6, <2>1
  <2>2. CASE j = k /\ d # c
    <3>1. ~ Current(j, d)'
      BY <1>1, <1>2, <2>2 DEF Current
    <3> QED BY <1>4, <2>2, <3>1
  <2>3. CASE j # k
    <3>1. \A i \in Ids : i # k => m_Channels'[i] = m_Channels[i] /\ m_Channels[i] # c
      BY <1>1, <1>2, OneSlot
    <3>2. Current(j, d)' <=> Current(j, d)
      BY <1>1, <1>3, <2>3, <3>1, OthersCurrent
    <3> QED BY <1>4, <2>3, <3>2
  <2> QED BY <2>1, <2>2, <2>3
<1> QED BY <1>2, <1>4, <1>5, <1>7, ChainAppend

\* A hang-up is reported of the client that is on the link, and frees it.
LEMMA ReportChain ==
    ASSUME Inv, Alive, OwnSlot, Chain, NEW r \in Receivers, Report(r)
    PROVE  Chain'
<1>1. PICK c \in Conns, k \in Ids :
         /\ c = rx[r].conn /\ k = rx[r].id /\ m_Channels[k] = c /\ m_channelID[c] = k
         /\ Closing(r) /\ rx[r].pc = "report" /\ m_fd[c] = "closed"
  <2>1. rx[r].conn \in Conns /\ rx[r].id \in Ids /\ Closing(r) /\ rx[r].pc = "report"
    BY DEF Report, Inv, HandInv, InClose, Closing
  <2>2. m_Channels[rx[r].id] = rx[r].conn /\ m_fd[rx[r].conn] = "closed"
    BY <2>1 DEF OwnSlot, Inv, CloseInv, Closing
  <2> QED BY <2>1, <2>2, OneSlot
<1>2. PICK e : /\ e = [kind |-> "disconnected", link |-> k, conn |-> c]
               /\ events' = Append(events, e) /\ players' = players /\ m_Channels' = m_Channels
  BY <1>1 DEF Report, Event, appVars
<1>3. /\ rx'[r].pc = "delete" /\ rx'[r].conn = c
      /\ \A q \in Receivers : q # r => rx'[q] = rx[q]
  BY <1>1, After, OwnPlace DEF Receiver, Continue, Keeps
<1>4. e \in LinkEvents /\ e.link = k /\ e.conn = c /\ e.kind = "disconnected"
  BY <1>2 DEF LinkEvents
<1>5. Current(k, c)
  <2>1. ASSUME NEW q \in Receivers, rx[q].conn = c, rx[q].pc \in {"announce", "delete", "clear"}
        PROVE  FALSE
    <3>1. rx[q].pc # "announce"
      BY <1>1, <2>1 DEF Alive, PlaceInv, InHand, InUse
    <3>2. q = r
      BY <1>1, <2>1, <3>1 DEF Alive, MutexInv, Closing, InClose
    <3> QED BY <1>1, <2>1, <3>2
  <2> QED BY <1>1, <2>1 DEF Current
<1>6. \A d \in Conns : ~ Current(k, d)'
  BY <1>1, <1>2, <1>3 DEF Current
<1>7. ASSUME NEW j \in Ids, NEW d \in Conns
      PROVE  Current(j, d)' <=> IF e.link = j THEN e.conn = d /\ e.kind # "disconnected"
                                ELSE Current(j, d)
  <2>1. CASE j = k
    BY <1>4, <1>6, <2>1
  <2>2. CASE j # k
    <3>1. \A i \in Ids : i # k => m_Channels'[i] = m_Channels[i] /\ m_Channels[i] # c
      BY <1>1, <1>2, OneSlot
    <3>2. Current(j, d)' <=> Current(j, d)
      BY <1>1, <1>3, <2>2, <3>1, OthersCurrent
    <3> QED BY <1>4, <2>2, <3>2
  <2> QED BY <2>1, <2>2
<1> QED BY <1>2, <1>4, <1>5, <1>7, ChainAppend

\* Data comes from the client that is on the link.
LEMMA ReadChain ==
    ASSUME Inv, Alive, OwnSlot, Chain, NEW r \in Receivers, NEW c \in Conns, ReadCb(r, c)
    PROVE  Chain'
<1>1. PICK k \in Ids : k = m_channelID[c] /\ InUse(c) /\ m_Channels[k] = c /\ c \in armed[r]
  BY DEF ReadCb, Inv, HandInv, Alive, PlaceInv, OwnSlot
<1>2. PICK e : /\ e = [kind |-> "data", link |-> k, conn |-> c]
               /\ events' = Append(events, e) /\ players' = players
               /\ m_Channels' = m_Channels /\ rx' = rx
  BY <1>1 DEF ReadCb, Event, appVars
<1>4. e \in LinkEvents /\ e.link = k /\ e.conn = c /\ e.kind = "data"
  BY <1>2 DEF LinkEvents
<1>5. Current(k, c)
  <2>1. ASSUME NEW q \in Receivers, rx[q].conn = c, rx[q].pc \in {"announce", "delete", "clear"}
        PROVE  FALSE
    <3>1. rx[q].pc # "announce"
      BY <1>1, <2>1 DEF Alive, PlaceInv, InHand
    <3>2. m_fd[c] = "closed"
      BY <2>1, <3>1 DEF Inv, CloseInv, InClose
    <3> QED BY <1>1, <3>2 DEF InUse
  <2> QED BY <1>1, <2>1 DEF Current
<1>6. \A j \in Ids, d \in Conns : Current(j, d)' <=> Current(j, d)
  BY <1>2 DEF Current
<1>7. \A d \in Conns : Current(k, d) <=> d = c
  BY <1>1, <1>5 DEF Current
<1>8. \A j \in Ids, d \in Conns :
         Current(j, d)' <=> IF e.link = j THEN e.conn = d /\ e.kind # "disconnected"
                            ELSE Current(j, d)
  BY <1>4, <1>6, <1>7
<1> QED BY <1>2, <1>4, <1>5, <1>8, ChainAppend

\* The slot of a Channel that is about to be announced was empty, and that of
\* one whose end was reported is taken back.
LEMMA SlotsChain ==
    ASSUME Inv, Alive, OwnSlot, Chain, NEW r \in Receivers, Install(r) \/ ClearSlot(r)
    PROVE  Chain'
<1>1. PICK c \in Conns, k \in Ids :
         /\ c = rx[r].conn /\ k = rx[r].id
         /\ Install(r) => /\ Fresh(c) /\ rx'[r].pc = "announce" /\ rx'[r].conn = c
                          /\ m_Channels' = [m_Channels EXCEPT ![k] = c]
                          /\ m_Channels[k] = NoConn
         /\ ClearSlot(r) => /\ rx'[r].conn = NoConn /\ rx[r].pc = "clear"
                            /\ m_Channels' = [m_Channels EXCEPT ![k] = NoConn]
                            /\ m_Channels[k] = c
  <2>1. CASE Install(r)
    <3>1. /\ rx[r].conn \in Conns /\ rx[r].id \in Ids /\ Fresh(rx[r].conn)
          /\ rx'[r].pc = "announce" /\ rx'[r].conn = rx[r].conn /\ rx[r].pc = "install"
          /\ m_Channels' = [m_Channels EXCEPT ![rx[r].id] = rx[r].conn]
      BY <2>1, InstallDoes DEF Keeps
    <3>2. m_Channels[rx[r].id] = NoConn /\ ~ ClearSlot(r)
      BY <3>1 DEF OwnSlot, ClearSlot
    <3> QED BY <3>1, <3>2
  <2>2. CASE ClearSlot(r)
    <3>1. /\ rx[r].conn \in Conns /\ rx[r].id \in Ids /\ rx[r].pc = "clear"
          /\ rx'[r].conn = NoConn /\ ~ Install(r)
          /\ m_Channels' = [m_Channels EXCEPT ![rx[r].id] = NoConn]
      BY <2>2, After DEF ClearSlot, Install, Inv, HandInv, InClose, Leaves
    <3>2. m_Channels[rx[r].id] = rx[r].conn
      BY <3>1 DEF OwnSlot, Closing, InClose
    <3> QED BY <3>1, <3>2
  <2> QED BY <2>1, <2>2
<1>2. UNCHANGED <<events, players>> /\ \A q \in Receivers : q # r => rx'[q] = rx[q]
  BY OwnPlace DEF Receiver, Continue, Install, ClearSlot, appVars
<1>3. \A i \in Ids : i # k => m_Channels'[i] = m_Channels[i] /\ m_Channels[i] # c
  <2>1. \A i \in Ids : i # k => m_Channels'[i] = m_Channels[i]
    BY <1>1 DEF Inv, Types
  <2>2. CASE Install(r)
    BY <1>1, <2>1, <2>2, OneSlot
  <2>3. CASE ClearSlot(r)
    BY <1>1, <2>1, <2>3, OneSlot
  <2> QED BY <2>2, <2>3
<1>4. ASSUME NEW d \in Conns PROVE ~ Current(k, d) /\ ~ Current(k, d)'
  <2>1. DOMAIN m_Channels = Ids /\ d # NoConn
    BY NoConnAssumption DEF Inv, Types
  <2>2. CASE Install(r)
    <3>1. m_Channels'[k] = c
      BY <1>1, <2>1, <2>2
    <3> QED BY <1>1, <2>1, <2>2, <3>1 DEF Current
  <2>3. CASE ClearSlot(r)
    <3>1. m_Channels'[k] = NoConn
      BY <1>1, <2>1, <2>3
    <3> QED BY <1>1, <2>1, <2>3, <3>1 DEF Current
  <2> QED BY <2>2, <2>3
<1>5. ASSUME NEW j \in Ids, NEW d \in Conns PROVE Current(j, d)' <=> Current(j, d)
  <2>1. CASE j = k
    BY <1>4, <2>1
  <2>2. CASE j # k
    <3>1. rx'[r].conn \in {c, NoConn} /\ rx[r].conn = c
      BY <1>1
    <3> QED BY <1>2, <1>3, <2>2, <3>1, OthersCurrent
  <2> QED BY <2>1, <2>2
<1> QED BY <1>2, <1>5, ChainSame

\* An element less.
LEMMA RemoveShape ==
    ASSUME NEW S, NEW q \in Seq(S), NEW k \in DOMAIN q
    PROVE  /\ RemoveAt(q, k) \in Seq(S) /\ Len(q) \in Nat /\ k \in 1..Len(q)
           /\ Len(RemoveAt(q, k)) = Len(q) - 1
           /\ \A i \in 1..(k - 1) : RemoveAt(q, k)[i] = q[i]
           /\ \A i \in k..(Len(q) - 1) : RemoveAt(q, k)[i] = q[i + 1]
<1>1. Len(q) \in Nat /\ DOMAIN q = 1..Len(q) /\ k \in 1..Len(q)
  OBVIOUS
<1>2. PICK a \in Seq(S) : /\ a = SubSeq(q, 1, k - 1) /\ Len(a) = k - 1
                          /\ \A i \in 1..(k - 1) : a[i] = q[i]
  <2>1. /\ SubSeq(q, 1, k - 1) \in Seq(S) /\ Len(SubSeq(q, 1, k - 1)) = k - 1
        /\ \A i \in 1..(k - 1) : SubSeq(q, 1, k - 1)[i] = q[i]
    BY <1>1
  <2> QED BY <2>1
<1>3. PICK b \in Seq(S) : /\ b = SubSeq(q, k + 1, Len(q)) /\ Len(b) = Len(q) - k
                          /\ \A i \in 1..(Len(q) - k) : b[i] = q[k + i]
  <2>1. /\ SubSeq(q, k + 1, Len(q)) \in Seq(S) /\ Len(SubSeq(q, k + 1, Len(q))) = Len(q) - k
        /\ \A i \in 1..(Len(q) - k) : SubSeq(q, k + 1, Len(q))[i] = q[k + i]
    BY <1>1, SMTT(30)
  <2> QED BY <2>1
<1>4. RemoveAt(q, k) = a \o b
  BY <1>2, <1>3 DEF RemoveAt
<1>5. a \o b \in Seq(S) /\ Len(a \o b) = Len(q) - 1
  <2>1. a \o b \in Seq(S) /\ Len(a \o b) = Len(a) + Len(b)
    BY ConcatProperties
  <2>2. /\ Len(a) = k - 1 /\ Len(b) = Len(q) - k
        /\ k \in Nat /\ Len(q) \in Nat /\ Len(a) \in Nat /\ Len(b) \in Nat
    BY <1>1, <1>2, <1>3
  <2>3. Len(a) + Len(b) = Len(q) - 1
    BY <2>2
  <2> QED BY <2>1, <2>3
<1>6. ASSUME NEW i \in 1..(k - 1)
      PROVE  (a \o b)[i] = q[i]
  BY <1>1, <1>2, <1>3, <1>6, ConcatProperties
<1>7. ASSUME NEW i \in k..(Len(q) - 1)
      PROVE  (a \o b)[i] = q[i + 1]
  <2>1. i \in 1..(Len(a) + Len(b)) /\ ~ i <= Len(a)
    BY <1>1, <1>2, <1>3, <1>7, SMTT(30)
  <2>2. (a \o b)[i] = b[i - Len(a)]
    BY <1>2, <1>3, <2>1, ConcatProperties, ZenonT(30)
  <2>3. i - Len(a) \in 1..(Len(q) - k) /\ k + (i - Len(a)) = i + 1
    BY <1>1, <1>2, <1>7
  <2> QED BY <1>3, <2>2, <2>3
<1> QED BY <1>1, <1>4, <1>5, <1>6, <1>7

\* The application strikes a client off its list.
Without(ps, k) == RemoveFirstMatch(ps, LAMBDA p : p.link = k)
\* Nobody else is struck off with it.
LEMMA StruckOff ==
    ASSUME NEW ps \in Seq(Member), Distinct(ps), NEW k
    PROVE  /\ Without(ps, k) \in Seq(Member) /\ Distinct(Without(ps, k))
           /\ \A j, c : Listed(Without(ps, k), j, c) <=> Listed(ps, j, c) /\ j # k
<1> DEFINE I == {i \in 1..Len(ps) : ps[i].link = k}
           i0 == IF I # {} THEN Min(I) ELSE 0
<1>0. Len(ps) \in Nat /\ DOMAIN ps = 1..Len(ps)
  OBVIOUS
<1>1. Without(ps, k) = IF \E i \in 1..Len(ps) : ps[i].link = k THEN RemoveAt(ps, i0) ELSE ps
  BY DEF Without, RemoveFirstMatch, SelectInSeq
<1>2. CASE \A i \in 1..Len(ps) : ps[i].link # k
  <2>1. Without(ps, k) = ps
    BY <1>1, <1>2
  <2> QED BY <1>2, <2>1 DEF Listed
<1>3. ASSUME NEW a \in 1..Len(ps), ps[a].link = k
      PROVE  /\ Without(ps, k) \in Seq(Member) /\ Distinct(Without(ps, k))
             /\ \A j, c : Listed(Without(ps, k), j, c) <=> Listed(ps, j, c) /\ j # k
  <2>1. I = {a}
    BY <1>3 DEF Distinct
  <2>2. i0 = a
    BY <1>0, <1>3, <2>1 DEF Min
  <2> HIDE DEF i0, I
  <2>3. Without(ps, k) = RemoveAt(ps, a)
    BY <1>1, <1>3, <2>2
  <2>4. /\ RemoveAt(ps, a) \in Seq(Member) /\ Len(RemoveAt(ps, a)) = Len(ps) - 1
        /\ \A i \in 1..(a - 1) : RemoveAt(ps, a)[i] = ps[i]
        /\ \A i \in a..(Len(ps) - 1) : RemoveAt(ps, a)[i] = ps[i + 1]
    <3>1. a \in DOMAIN ps
      BY <1>0, <1>3
    <3> QED BY <3>1, RemoveShape
  <2>5. PICK qs \in Seq(Member), n \in Nat :
           /\ qs = Without(ps, k) /\ n = Len(ps) /\ Len(qs) = n - 1
           /\ \A i \in 1..(a - 1) : qs[i] = ps[i]
           /\ \A i \in a..(n - 1) : qs[i] = ps[i + 1]
    BY <1>0, <2>3, <2>4
  <2>6. a \in 1..n /\ \A i \in 1..n : ps[i].link = k => i = a
    BY <1>3, <2>5 DEF Distinct
  <2>7. ASSUME NEW j \in 1..(n - 1)
        PROVE  \E i \in 1..n : i # a /\ qs[j] = ps[i] /\ (i = j \/ i = j + 1) /\ (i = j <=> j < a)
    <3>1. CASE j < a
      <4>1. j \in 1..(a - 1) /\ j \in 1..n /\ j # a
        BY <2>5, <2>6, <3>1
      <4>2. qs[j] = ps[j]
        BY <2>5, <4>1
      <4> QED BY <3>1, <4>1, <4>2
    <3>2. CASE ~ j < a
      <4>1. j \in a..(n - 1) /\ j + 1 \in 1..n /\ j + 1 # a /\ j + 1 # j
        BY <2>5, <2>6, <3>2
      <4>2. qs[j] = ps[j + 1]
        BY <2>5, <4>1
      <4> QED BY <3>2, <4>1, <4>2
    <3> QED BY <3>1, <3>2
  <2>8. Distinct(qs)
    <3> SUFFICES ASSUME NEW i \in 1..(n - 1), NEW j \in 1..(n - 1), qs[i].link = qs[j].link
                 PROVE  i = j
      BY <2>5 DEF Distinct
    <3>1. PICK x \in 1..n : qs[i] = ps[x] /\ (x = i \/ x = i + 1) /\ (x = i <=> i < a)
      BY <2>7
    <3>2. PICK y \in 1..n : qs[j] = ps[y] /\ (y = j \/ y = j + 1) /\ (y = j <=> j < a)
      BY <2>7
    <3>3. x = y
      BY <2>5, <3>1, <3>2 DEF Distinct
    <3> QED BY <2>6, <3>1, <3>2, <3>3
  <2>9. ASSUME NEW j, NEW c, Listed(qs, j, c) PROVE Listed(ps, j, c) /\ j # k
    <3>1. PICK x \in 1..(n - 1) : qs[x].link = j /\ qs[x].conn = c
      BY <2>5, <2>9 DEF Listed
    <3>2. PICK i \in 1..n : i # a /\ qs[x] = ps[i]
      BY <2>7
    <3> QED BY <2>5, <2>6, <3>1, <3>2 DEF Listed
  <2>10. ASSUME NEW j, NEW c, Listed(ps, j, c), j # k PROVE Listed(qs, j, c)
    <3>1. PICK i \in 1..n : ps[i].link = j /\ ps[i].conn = c
      BY <2>5, <2>10 DEF Listed
    <3>2. i # a
      BY <1>3, <2>10, <3>1
    <3>3. CASE i < a
      <4>1. i \in 1..(a - 1) /\ i \in 1..(n - 1)
        BY <2>6, <3>3
      <4> QED BY <2>5, <3>1, <4>1 DEF Listed
    <3>4. CASE ~ i < a
      <4>1. i - 1 \in a..(n - 1) /\ i - 1 \in 1..(n - 1) /\ (i - 1) + 1 = i
        BY <2>6, <3>2, <3>4
      <4>2. qs[i - 1] = ps[i]
        BY <2>5, <4>1
      <4> QED BY <2>5, <3>1, <4>1, <4>2 DEF Listed
    <3> QED BY <3>3, <3>4
  <2> QED BY <2>5, <2>8, <2>9, <2>10
<1> QED BY <1>2, <1>3

\* The application is told what its list is to be.
LEMMA ListStep ==
    ASSUME Chain, HandleEvent, 1 \in 1..Len(events), events[1] = Head(events)
    PROVE  /\ players' \in Seq(Member) /\ Distinct(players')
           /\ \A k, c : Listed(players', k, c) <=> On(events, players, k, c, 1)
<1>0. players \in Seq(Member) /\ Distinct(players) /\ Len(players) \in Nat
  BY DEF Chain
<1>1. PICK e : /\ e = events[1] /\ e = Head(events) /\ e.link \in Ids /\ e.conn \in Conns
               /\ e.kind # "exists"
               /\ e.kind = "connected" => \A c \in Conns : ~ Listed(players, e.link, c)
               /\ e.kind # "connected" => Listed(players, e.link, e.conn)
  <2>1. 1 - 1 = 0
    OBVIOUS
  <2> QED BY <2>1, OnNone DEF Chain
<1>2. ASSUME NEW k, NEW c
      PROVE  On(events, players, k, c, 1) <=>
               IF e.link = k THEN e.conn = c /\ e.kind # "disconnected" ELSE Listed(players, k, c)
  BY <1>1, OnFirst
<1>3. CASE e.kind = "connected"
  <2>1. PICK m \in Member : m = [link |-> e.link, conn |-> e.conn]
    BY <1>1 DEF Member
  <2>2. players' = Append(players, m)
    BY <1>1, <1>3, <2>1 DEF HandleEvent
  <2>3. /\ Append(players, m) \in Seq(Member) /\ Len(Append(players, m)) = Len(players) + 1
        /\ \A i \in 1..Len(players) : Append(players, m)[i] = players[i]
        /\ Append(players, m)[Len(players) + 1] = m
    BY <1>0, AppendProperties
  <2>4. PICK ps, qs, n :
           /\ n \in Nat /\ ps = players /\ qs = players' /\ n = Len(ps) /\ Len(qs) = n + 1
           /\ \A i \in 1..n : qs[i] = ps[i]
           /\ qs[n + 1] = m
    BY <1>0, <2>2, <2>3
  <2>5. \A i \in 1..n : ps[i].link # m.link
    <3>1. \A i \in 1..n : ps[i].conn \in Conns
      <4>1. \A i \in 1..n : ps[i] \in Member
        BY <1>0, <2>4
      <4> QED BY <4>1 DEF Member
    <3> QED BY <1>1, <1>3, <2>1, <2>4, <3>1 DEF Listed
  <2>6. \A i \in 1..(n + 1) : i \in 1..n \/ i = n + 1
    BY <2>4
  <2>7. Distinct(qs)
    BY <1>0, <2>4, <2>5, <2>6 DEF Distinct
  <2>8. ASSUME NEW k, NEW c
        PROVE  Listed(qs, k, c) <=> Listed(ps, k, c) \/ (k = m.link /\ c = m.conn)
    <3>1. \A i \in 1..n : i \in 1..(n + 1)
      BY <2>4
    <3> QED BY <2>4, <2>6, <3>1 DEF Listed
  <2>9. \A c : ~ Listed(ps, m.link, c)
    BY <2>4, <2>5 DEF Listed
  <2>10. m.link = e.link /\ m.conn = e.conn
    BY <2>1
  <2>11. \A k, c : Listed(players', k, c) <=> On(events, players, k, c, 1)
    BY <1>2, <1>3, <2>4, <2>8, <2>9, <2>10
  <2> QED BY <2>2, <2>3, <2>4, <2>7, <2>11
<1>4. CASE e.kind = "disconnected"
  <2>1. players' = Without(players, e.link)
    BY <1>1, <1>4 DEF HandleEvent, Without
  <2>2. /\ players' \in Seq(Member) /\ Distinct(players')
        /\ \A k, c : Listed(players', k, c) <=> Listed(players, k, c) /\ k # e.link
    BY <1>0, <2>1, StruckOff
  <2> QED BY <1>2, <1>4, <2>2
<1>5. CASE e.kind # "connected" /\ e.kind # "disconnected"
  <2>1. players' = players
    BY <1>1, <1>5 DEF HandleEvent, appVars
  <2>2. \A c : Listed(players, e.link, c) <=> c = e.conn
    BY <1>0, <1>1, <1>5 DEF Listed, Distinct
  <2> QED BY <1>0, <1>2, <1>5, <2>1, <2>2
<1> QED BY <1>3, <1>4, <1>5

\* Handling the first event moves its effect from the events to the list.
LEMMA HandleChain ==
    ASSUME Alive, Chain, HandleEvent
    PROVE  Chain'
<1>1. /\ Len(events) \in Nat \ {0} /\ 1 \in 1..Len(events) /\ events[1] = Head(events)
      /\ Len(events') = Len(events) - 1
      /\ \A i \in 1..(Len(events) - 1) : events'[i] = events[i + 1]
  <2>1. events \in Seq(LinkEvents) /\ events # <<>> /\ events' = Tail(events)
    BY DEF HandleEvent, Alive, SendTypes
  <2> HIDE DEF LinkEvents
  <2>2. /\ Len(events) \in Nat \ {0} /\ Head(events) = events[1]
        /\ Len(Tail(events)) = Len(events) - 1
        /\ \A i \in 1..Len(Tail(events)) : Tail(events)[i] = events[i + 1]
    BY <2>1, HeadTailProperties, LenProperties, EmptySeq
  <2> QED BY <2>1, <2>2
<1>2. /\ players' \in Seq(Member) /\ Distinct(players')
      /\ \A k, c : Listed(players', k, c) <=> On(events, players, k, c, 1)
  BY <1>1, ListStep
<1>3. ASSUME NEW k, NEW c, NEW n \in 0..Len(events')
      PROVE  On(events', players', k, c, n) <=> On(events, players, k, c, n + 1)
  <2>1. PICK es, ts, ps, qs : /\ es = events /\ ts = events' /\ ps = players /\ qs = players'
                              /\ n \in Nat /\ \A i \in 1..n : ts[i] = es[i + 1]
                              /\ Listed(qs, k, c) <=> On(es, ps, k, c, 1)
    BY <1>1, <1>2
  <2>2. On(es, ps, k, c, n + 1) <=> On(ts, qs, k, c, n)
    BY <2>1, OnTail
  <2> QED BY <2>1, <2>2
<1>4. ASSUME NEW n \in 1..Len(events')
      PROVE  /\ events'[n].link \in Ids /\ events'[n].conn \in Conns
             /\ events'[n].kind # "exists"
             /\ events'[n].kind = "connected" =>
                  \A c \in Conns : ~ On(events', players', events'[n].link, c, n - 1)
             /\ events'[n].kind # "connected" =>
                  On(events', players', events'[n].link, events'[n].conn, n - 1)
  <2>1. /\ n + 1 \in 1..Len(events) /\ (n + 1) - 1 = n /\ (n - 1) + 1 = n
        /\ n - 1 \in 0..Len(events') /\ events'[n] = events[n + 1]
    BY <1>1
  <2>2. \A k, c : On(events', players', k, c, n - 1) <=> On(events, players, k, c, n)
    BY <1>3, <2>1
  <2>3. /\ events[n + 1].link \in Ids /\ events[n + 1].conn \in Conns
        /\ events[n + 1].kind # "exists"
        /\ events[n + 1].kind = "connected" =>
             \A c \in Conns : ~ On(events, players, events[n + 1].link, c, n)
        /\ events[n + 1].kind # "connected" =>
             On(events, players, events[n + 1].link, events[n + 1].conn, n)
    BY <2>1 DEF Chain
  <2> QED BY <2>1, <2>2, <2>3
<1>5. ASSUME NEW k \in Ids, NEW c \in Conns
      PROVE  On(events', players', k, c, Len(events')) <=> Current(k, c)'
  <2>1. Current(k, c)' <=> Current(k, c)
    BY DEF HandleEvent, Current
  <2>2. Len(events') \in 0..Len(events') /\ Len(events') + 1 = Len(events)
    BY <1>1
  <2>3. On(events', players', k, c, Len(events')) <=> On(events, players, k, c, Len(events))
    BY <1>3, <2>2
  <2> QED BY <2>1, <2>3 DEF Chain
<1> QED BY <1>2, <1>4, <1>5 DEF Chain

\* Every step keeps the application and the table in step.
LEMMA ChainStep ==
    ASSUME Inv, Alive, OwnSlot, Chain, Next
    PROVE  Chain'
<1>1. CASE HandleEvent
  BY <1>1, HandleChain
<1>2. ASSUME NEW r \in Receivers, NEW c \in Conns, ReadCb(r, c) PROVE Chain'
  BY <1>2, ReadChain
<1>3. ASSUME NEW r \in Receivers, Announce(r) \/ Report(r) \/ Install(r) \/ ClearSlot(r)
      PROVE  Chain'
  BY <1>3, AnnounceChain, ReportChain, SlotsChain
<1>4. ASSUME ~ HandleEvent,
             \A r \in Receivers : /\ ~ Announce(r) /\ ~ Report(r) /\ ~ Install(r) /\ ~ ClearSlot(r)
                                  /\ \A c \in Conns : ~ ReadCb(r, c)
      PROVE  Chain'
  BY <1>4, SameEvents, SameCurrent, ChainSame
<1> QED BY <1>1, <1>2, <1>3, <1>4

\* There is an id to spare at every moment.
Roomy == IsFiniteSet(Outstanding) /\ (TotalIDs # 0 => BelowCapacity) /\ Table /\ Chain

\* All of it holds at the start, after every step, and so always.
LEMMA InitRoomy == Init => Roomy
<1> SUFFICES ASSUME Init PROVE Roomy
  OBVIOUS
<1> USE DEF Init, Idle
<1>1. Outstanding = {}
  BY NoConnAssumption DEF Outstanding
<1>2. IsFiniteSet({}) /\ Cardinality({}) = 0
  BY FS_EmptySet
<1>3. TotalIDs # 0 => BelowCapacity
  BY <1>1, <1>2, TotalIDsAssumption DEF BelowCapacity
<1>4. OwnSlot /\ GivenBack /\ Reached
  BY DEF OwnSlot, GivenBack, Reached, InUse, Closing, InClose, Behind
<1>5. Complete
  <2> SUFFICES ASSUME NEW k \in Ids PROVE Pooled(k)
    BY DEF Complete
  <2>1. /\ k + 1 \in 1..TotalIDs /\ Len(m_ids) = TotalIDs
        /\ m_ids[k + 1] = (k + 1) - 1 /\ (k + 1) - 1 = k
    BY TotalIDsAssumption DEF PoolInit, Ids
  <2> QED BY <2>1 DEF Pooled
<1>6. Chain
  <2>1. players = <<>> /\ events = <<>> /\ Len(players) = 0 /\ Len(events) = 0
    BY EmptySeq
  <2>2. \A k, c : ~ On(events, players, k, c, 0)
    BY <2>1, OnNone DEF Listed
  <2>3. \A k \in Ids, c \in Conns : ~ Current(k, c)
    BY NoConnAssumption DEF Current
  <2>4. players \in Seq(Member) /\ Distinct(players)
    BY <2>1 DEF Distinct
  <2> QED BY <2>1, <2>2, <2>3, <2>4 DEF Chain
<1> QED BY <1>1, <1>2, <1>3, <1>4, <1>5, <1>6 DEF Roomy, Table

LEMMA NextRoomy ==
    Inv /\ Alive /\ Roomy /\ [Next /\ BelowCapacity']_vars => Roomy'
<1> SUFFICES ASSUME Inv, Alive, Roomy, [Next /\ BelowCapacity']_vars PROVE Roomy'
  OBVIOUS
<1>1. CASE Next /\ BelowCapacity'
  <2>1. IsFiniteSet(Outstanding')
    BY <1>1, OutstandingStep DEF Roomy, Table
  <2>2. TotalIDs # 0
    <3>1. Cardinality(Outstanding') \in Nat /\ Cardinality(Outstanding') < TotalIDs
      BY <1>1, <2>1, FS_CardinalityType DEF BelowCapacity
    <3> QED BY <3>1
  <2>3. \A r \in Receivers : rx[r].pc = "alloc" => Len(m_ids) \in Nat /\ Len(m_ids) >= 2
    BY <2>2, TwoLeft DEF Roomy, Table
  <2>4. Table'
    BY <1>1, <2>3, OwnSlotStep, CompleteStep, GivenBackStep, ReachedStep DEF Roomy, Table
  <2>5. Chain'
    BY <1>1, ChainStep DEF Roomy, Table
  <2> QED BY <1>1, <2>1, <2>4, <2>5 DEF Roomy
<1>2. CASE UNCHANGED vars
  <2>1. UNCHANGED <<m_ids, rx, armed, m_Channels, m_fd, obj, m_channelID, events, players>>
    BY <1>2 DEF vars
  <2>2. Outstanding' = Outstanding
    BY <2>1 DEF Outstanding
  <2>3. BelowCapacity' <=> BelowCapacity
    BY <2>2 DEF BelowCapacity
  <2>4. Table'
    BY <2>1 DEF Roomy, Table, OwnSlot, Complete, GivenBack, Reached, ReachedBy, InUse, Closing,
       Carrying, InHand, Behind, Pooled
  <2>5. Chain'
    BY <2>1 DEF Roomy, Chain, Current
  <2> QED BY <2>2, <2>3, <2>4, <2>5 DEF Roomy
<1> QED BY <1>1, <1>2

LEMMA AlwaysRoomy == RoomySpec => [](Inv /\ Alive /\ Roomy)
<1>1. Init => Inv /\ Alive /\ Roomy
  BY InitInv, InitAlive, InitRoomy
<1>2. Inv /\ Alive /\ Roomy /\ [Next /\ BelowCapacity']_vars => (Inv /\ Alive /\ Roomy)'
  BY NextInv, NextAlive, NextRoomy
<1> QED BY <1>1, <1>2, PTL DEF RoomySpec

\* While an id is spare, a client whose callbacks are enabled is in the table
\* under its id, whatever the other receivers install and clear without the
\* mutex meanwhile: messages to it reach it, and its hang-up finds it.
THEOREM TableKept == RoomySpec => []ConnectedIsInTable
<1>1. Inv /\ Alive /\ Roomy => ConnectedIsInTable
  <2> SUFFICES ASSUME Inv, Alive, Roomy, NEW r \in Receivers, NEW c \in armed[r]
               PROVE  m_Channels[m_channelID[c]] = c
    BY DEF ConnectedIsInTable
  <2>1. c \in Conns /\ InUse(c)
    BY DEF Inv, Types, Alive, PlaceInv
  <2> QED BY <2>1 DEF Roomy, Table, OwnSlot
<1> QED BY <1>1, AlwaysRoomy, PTL

\* While an id is spare, no Channel is ever left without a receiver that will
\* hear of its client's end: the end of every announced client is reported.
THEOREM EndsReported == RoomySpec => []DisconnectIsReported
<1>1. Roomy => DisconnectIsReported
  BY DEF Roomy, Table, Reached, ReachedBy, DisconnectIsReported
<1> QED BY <1>1, AlwaysRoomy, PTL

\* While an id is spare, CreateChannel finds the slot of its new id empty: an id
\* that was released before its slot was cleared is not taken out in between.
THEOREM FreshSlot == RoomySpec => []FreshIdNotInUse
<1>1. Alive /\ Roomy => FreshIdNotInUse
  <2>1. ASSUME Alive, Roomy PROVE FreshIdNotInUse
    <3>1. DOMAIN events = 1..Len(events)
      <4>1. events \in Seq(LinkEvents)
        BY <2>1 DEF Alive, SendTypes
      <4> HIDE DEF LinkEvents
      <4> QED BY <4>1
    <3> QED BY <2>1, <3>1 DEF Roomy, Chain, FreshIdNotInUse
  <2> QED BY <2>1
<1> QED BY <1>1, AlwaysRoomy, PTL

\* While an id is spare, the application never has two clients with one link id,
\* however long the events wait: the end of the one comes before the next.
THEOREM OneEach == RoomySpec => []OneClientPerLink
<1>1. Roomy => OneClientPerLink
  BY DEF Roomy, Chain, Distinct, OneClientPerLink
<1> QED BY <1>1, AlwaysRoomy, PTL

\* While an id is spare, what a client sends is put down to that client: when
\* its message comes up, its link id leads to the connection that sent it.
THEOREM DataOwn == RoomySpec => []DataFromOwnClient
<1>1. Alive /\ Roomy => DataFromOwnClient
  <2> SUFFICES ASSUME Alive, Roomy, events # <<>>, Head(events).kind = "data"
               PROVE  \E a \in DOMAIN players :
                        /\ players[a] = [link |-> Head(events).link, conn |-> Head(events).conn]
                        /\ \A b \in 1..(a - 1) : players[b].link # Head(events).link
    BY DEF DataFromOwnClient
  <2>1. 1 \in 1..Len(events) /\ events[1] = Head(events)
    <3>1. events \in Seq(LinkEvents) /\ events # <<>>
      BY DEF Alive, SendTypes
    <3> HIDE DEF LinkEvents
    <3> QED BY <3>1, HeadTailProperties, LenProperties, EmptySeq
  <2>2. players \in Seq(Member) /\ Distinct(players)
    BY DEF Roomy, Chain
  <2>3. Listed(players, Head(events).link, Head(events).conn)
    <3>1. On(events, players, events[1].link, events[1].conn, 1 - 1)
      BY <2>1 DEF Roomy, Chain
    <3>2. 1 - 1 = 0
      OBVIOUS
    <3> QED BY <2>1, <3>1, <3>2, OnNone
  <2>4. PICK a \in 1..Len(players) :
           players[a].link = Head(events).link /\ players[a].conn = Head(events).conn
    BY <2>3 DEF Listed
  <2>5. players[a] = [link |-> Head(events).link, conn |-> Head(events).conn]
    <3>1. players[a] \in Member
      BY <2>2, <2>4
    <3> QED BY <2>4, <3>1 DEF Member
  <2>6. \A b \in 1..(a - 1) : players[b].link # Head(events).link
    <3>1. \A b \in 1..(a - 1) : b \in 1..Len(players) /\ b # a
      BY <2>2, <2>4
    <3> QED BY <2>2, <2>4, <3>1 DEF Distinct
  <2> QED BY <2>2, <2>4, <2>5, <2>6
<1> QED BY <1>1, AlwaysRoomy, PTL
=============================================================================
