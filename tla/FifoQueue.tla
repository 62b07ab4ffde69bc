------------------------------ MODULE FifoQueue ------------------------------
(***************************************************************************)
(* What the repository's packet and frame queues promise to the threads    *)
(* that share one: packets leave in the order in which they were put, each *)
(* at most once, and none disappears unless the queue is flushed.          *)
(***************************************************************************)
EXTENDS Sequences

CONSTANT Packets    \* what is queued

VARIABLES
  queue,      \* the packets inside, oldest first
  taken,      \* the packets handed to consumers, in the order of delivery
  dropped     \* the packets removed by a flush

fifoVars == <<queue, taken, dropped>>

FifoInit ==
  /\ queue = <<>>
  /\ taken = <<>>
  /\ dropped = {}

Put(p) ==
  /\ queue' = Append(queue, p)
  /\ UNCHANGED <<taken, dropped>>

Take ==
  /\ queue # <<>>
  /\ queue' = Tail(queue)
  /\ taken' = Append(taken, Head(queue))
  /\ UNCHANGED dropped

Clear ==
  /\ queue' = <<>>
  /\ dropped' = dropped \cup {queue[i] : i \in DOMAIN queue}
  /\ UNCHANGED taken

FifoNext ==
  \/ \E p \in Packets : Put(p)
  \/ Take
  \/ Clear

FifoSpec == FifoInit /\ [][FifoNext]_fifoVars
==============================================================================
