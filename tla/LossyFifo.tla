------------------------------ MODULE LossyFifo ------------------------------
(***************************************************************************)
(* What MessageQueueAB promises to the threads that push into it and to    *)
(* the one thread that drains it: a FIFO that never blocks a producer,     *)
(* keeps fewer than Capacity undelivered messages by discarding the        *)
(* oldest, and hands the consumer one batch at a time.                     *)
(* Messages are the serial numbers of their pushes.                        *)
(***************************************************************************)
EXTENDS Integers, Sequences

CONSTANTS Capacity,   \* m_queueMax of MessageQueueAB
          MaxPush     \* bound on the number of messages ever pushed

VARIABLES pending,   \* pushed, not yet handed over
          batch,     \* handed over to the consumer, not yet handled
          handled,   \* every message handled so far, in order
          dropped    \* every message discarded at the limit

fifoVars == <<pending, batch, handled, dropped>>

\* One message goes in; at the limit the oldest that is pending goes out.
Offer(n) ==
    LET full == Len(pending) + 1 >= Capacity
        q    == Append(pending, n)
    IN  /\ pending' = IF full THEN Tail(q) ELSE q
        /\ dropped' = IF full THEN dropped \union {Head(q)} ELSE dropped
        /\ UNCHANGED <<batch, handled>>

\* All that is pending becomes the next batch, once the previous one is done.
Collect ==
    /\ batch = <<>>
    /\ batch' = pending
    /\ pending' = <<>>
    /\ UNCHANGED <<handled, dropped>>

HandleFirst ==
    /\ batch # <<>>
    /\ handled' = Append(handled, Head(batch))
    /\ batch' = Tail(batch)
    /\ UNCHANGED <<pending, dropped>>

Serials == 1..MaxPush

FifoInit ==
    /\ pending = <<>>
    /\ batch = <<>>
    /\ handled = <<>>
    /\ dropped = {}

\* A push takes the serial number after all those in use.
Used == {handled[i] : i \in DOMAIN handled} \union dropped
          \union {batch[i] : i \in DOMAIN batch}
          \union {pending[i] : i \in DOMAIN pending}

FifoNext ==
    \/ \E n \in Serials : Used = 1..(n - 1) /\ Offer(n)
    \/ Collect
    \/ HandleFirst

FifoSpec == FifoInit /\ [][FifoNext]_fifoVars
=============================================================================
