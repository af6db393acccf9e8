---------------------------- MODULE ChannelManager ----------------------------
(***************************************************************************)
(* ChannelManager (src/NetEventService/ChannelManager.cpp): the pool of    *)
(* link ids, a queue.  GetFreeID and ReleaseID run under m_cid_mtx and     *)
(* touch nothing else, so each is one atomic action.                       *)
(***************************************************************************)
EXTENDS Integers, Sequences

CONSTANT TotalIDs   \* maxConnects of NetEventServer::Start

ASSUME TotalIDsAssumption == TotalIDs \in Nat

VARIABLE m_ids      \* the ids that are free, in the order they will be used

Ids == 0..(TotalIDs - 1)

\* Init(0, size) pushes the ids in order.
PoolInit == m_ids = [k \in 1..TotalIDs |-> k - 1]

NoFreeID == m_ids = <<>>

\* What if GetFreeID forgot to pop?
GetFreeID_NoPop(id) == m_ids # <<>> /\ id = Head(m_ids) /\ UNCHANGED m_ids

\* GetFreeID() returns id.
GetFreeID(id) ==
    /\ m_ids # <<>>
    /\ id = Head(m_ids)
    /\ m_ids' = Tail(m_ids)

\* What if the pool were a stack?
ReleaseID_Stack(id) == m_ids' = <<id>> \o m_ids

ReleaseID(id) == m_ids' = Append(m_ids, id)
=============================================================================
