----------------------------- MODULE PthreadQueue -----------------------------
(***************************************************************************)
(* The blocking queues of PthreadQueue.cpp and PacketQueue.cpp: a          *)
(* std::queue with two counters behind one mutex and one condition         *)
(* variable, shared by the threads of a player.  The four classes differ   *)
(* only in the data they hold and in one early return:                     *)
(* PthreadFrameQueue::deQueue leaves without unlocking when it does not    *)
(* block and finds nothing (constant UnlockOnEmpty).                       *)
(*                                                                         *)
(* A critical section is one step after the step that acquires the mutex:  *)
(* no other thread reads what it writes before the mutex is released.      *)
(***************************************************************************)
EXTENDS Naturals, Sequences, FiniteSets

CONSTANTS
  Producers,      \* threads that call enQueue
  Consumers,      \* threads that call deQueue
  Pollers,        \* the consumers that pass block = false
  Flushers,       \* threads that call flush, once, from a destructor
  Packets,        \* the packets (or frames) the producers can obtain
  Size,           \* Size[p] is p->size in bytes
  Word,           \* counters of bytes wrap at this value (2^32 in the code)
  UnlockOnEmpty,  \* FALSE for PthreadFrameQueue
  MaxFailures,    \* bound on the av_packet_ref calls that fail in deQueue
  NoThread, NoPacket

Threads == Producers \cup Consumers \cup Flushers

ASSUME QueueAssumption ==
  /\ IsFiniteSet(Threads)
  /\ Pollers \subseteq Consumers
  /\ Producers \cap Consumers = {}
  /\ Producers \cap Flushers = {}
  /\ Consumers \cap Flushers = {}
  /\ NoThread \notin Threads
  /\ NoPacket \notin Packets
  /\ Word \in Nat \ {0}
  /\ Size \in [Packets -> Nat]
  /\ UnlockOnEmpty \in BOOLEAN
  /\ MaxFailures \in Nat

VARIABLES
  queue,       \* std::queue<AVPacket*>
  nb_packets,  \* nb_packets / nb_frames
  size,        \* bytes queued, as the code counts them
  mutex,       \* the owner, or NoThread
  pc,          \* where each thread is
  item,        \* the packet a producer is enqueuing
  unread,      \* the packets no producer has obtained yet
  failures,    \* av_packet_ref failures in deQueue so far
  put,         \* history: every packet pushed, in order
  taken,       \* history: every packet a consumer received, in order
  dropped      \* history: the packets flush removed

vars == <<queue, nb_packets, size, mutex, pc, item, unread, failures,
          put, taken, dropped>>

history == <<put, taken, dropped>>

PC == {"idle", "enq", "deq", "flush", "wait", "woken",
       "enq_cs", "deq_cs", "flush_cs", "gone"}

\* The threads inside the mutex, asleep on the condition, and on their way
\* to look at the queue.
Critical == {t \in Threads : pc[t] \in {"enq_cs", "deq_cs", "flush_cs"}}
Waiting  == {t \in Threads : pc[t] = "wait"}
OnTheWay == {t \in Threads : pc[t] \in {"woken", "deq_cs"}}

Elements(s) == {s[i] : i \in DOMAIN s}

Init ==
  /\ queue = <<>>
  /\ nb_packets = 0
  /\ size = 0
  /\ mutex = NoThread
  /\ pc = [t \in Threads |-> "idle"]
  /\ item = [t \in Producers |-> NoPacket]
  /\ unread = Packets
  /\ failures = 0
  /\ put = <<>>
  /\ taken = <<>>
  /\ dropped = {}

-------------------------------------------------------------------------------
(* Calls.                                                                  *)

\* enQueue up to the lock: the packet is referenced; if that fails, enQueue
\* returns false and the packet never reaches the queue.
EnQueueRef(t) ==
  /\ pc[t] = "idle"
  /\ \E p \in unread :
       /\ unread' = unread \ {p}
       /\ \/ /\ pc' = [pc EXCEPT ![t] = "enq"]
             /\ item' = [item EXCEPT ![t] = p]
          \/ UNCHANGED <<pc, item>>
  /\ UNCHANGED <<queue, nb_packets, size, mutex, failures, history>>

DeQueueCall(t) ==
  /\ pc[t] = "idle"
  /\ pc' = [pc EXCEPT ![t] = "deq"]
  /\ UNCHANGED <<queue, nb_packets, size, mutex, item, unread, failures, history>>

FlushCall(t) ==
  /\ pc[t] = "idle"
  /\ pc' = [pc EXCEPT ![t] = "flush"]
  /\ UNCHANGED <<queue, nb_packets, size, mutex, item, unread, failures, history>>

-------------------------------------------------------------------------------
(* The mutex and the condition variable.                                   *)

\* The section a thread enters when it gets the mutex.  A thread woken in
\* cond_wait returns to the head of deQueue's loop with the mutex held.
Section(where) ==
  IF where \in {"enq", "flush"} THEN [enq |-> "enq_cs", flush |-> "flush_cs"][where]
                               ELSE "deq_cs"

Lock(t) ==
  /\ pc[t] \in {"enq", "deq", "flush", "woken"}
  /\ mutex = NoThread
  /\ mutex' = t
  /\ pc' = [pc EXCEPT ![t] = Section(pc[t])]
  /\ UNCHANGED <<queue, nb_packets, size, item, unread, failures, history>>

\* POSIX and SDL let a wait return without a signal.
SpuriousWakeup(t) ==
  /\ pc[t] = "wait"
  /\ pc' = [pc EXCEPT ![t] = "woken"]
  /\ UNCHANGED <<queue, nb_packets, size, mutex, item, unread, failures, history>>

\* cond_signal by t, which then returns from its call: one sleeper is woken,
\* if there is one.
SignalAndReturn(t) ==
  \/ /\ Waiting = {}
     /\ pc' = [pc EXCEPT ![t] = "idle"]
  \/ \E w \in Waiting : pc' = [pc EXCEPT ![t] = "idle", ![w] = "woken"]

-------------------------------------------------------------------------------
(* Bugs these critical sections could have; no specification uses them.    *)

\* enQueue forgets cond_signal.
EnQueuePushSilent(t) ==
  /\ pc[t] = "enq_cs"
  /\ queue' = Append(queue, item[t])
  /\ size' = (size + Size[item[t]]) % Word
  /\ nb_packets' = nb_packets + 1
  /\ pc' = [pc EXCEPT ![t] = "idle"]
  /\ mutex' = NoThread
  /\ item' = [item EXCEPT ![t] = NoPacket]
  /\ put' = Append(put, item[t])
  /\ UNCHANGED <<unread, failures, taken, dropped>>

\* deQueue pops the front and hands over some packet, with some byte count.
DeQueueTakeAs(t, p, bytes) ==
  /\ pc[t] = "deq_cs"
  /\ queue # <<>>
  /\ queue' = Tail(queue)
  /\ nb_packets' = nb_packets - 1
  /\ size' = bytes
  /\ taken' = Append(taken, p)
  /\ mutex' = NoThread
  /\ pc' = [pc EXCEPT ![t] = "idle"]
  /\ UNCHANGED <<item, unread, failures, put, dropped>>

\* It hands over back() instead of front(); it does not count the bytes down.
DeQueueTakeBack(t) ==
  DeQueueTakeAs(t, queue[Len(queue)], (size + Word - (Size[Head(queue)] % Word)) % Word)
DeQueueTakeUncounted(t) == DeQueueTakeAs(t, Head(queue), size)

\* The failure path of deQueue keeps the mutex.
DeQueueRefFailsLocked(t) ==
  /\ pc[t] = "deq_cs"
  /\ queue # <<>>
  /\ failures < MaxFailures
  /\ failures' = failures + 1
  /\ mutex' = t
  /\ pc' = [pc EXCEPT ![t] = "idle"]
  /\ UNCHANGED <<queue, nb_packets, size, item, unread, history>>

-------------------------------------------------------------------------------
(* The critical sections.                                                  *)

EnQueuePush(t) ==
  /\ pc[t] = "enq_cs"
  /\ queue' = Append(queue, item[t])
  /\ size' = (size + Size[item[t]]) % Word
  /\ nb_packets' = nb_packets + 1
  /\ SignalAndReturn(t)
  /\ mutex' = NoThread
  /\ item' = [item EXCEPT ![t] = NoPacket]
  /\ put' = Append(put, item[t])
  /\ UNCHANGED <<unread, failures, taken, dropped>>

\* The head is handed over, popped and uncounted.
DeQueueTake(t) ==
  /\ pc[t] = "deq_cs"
  /\ queue # <<>>
  /\ queue' = Tail(queue)
  /\ nb_packets' = nb_packets - 1
  /\ size' = (size + Word - (Size[Head(queue)] % Word)) % Word
  /\ taken' = Append(taken, Head(queue))
  /\ mutex' = NoThread
  /\ pc' = [pc EXCEPT ![t] = "idle"]
  /\ UNCHANGED <<item, unread, failures, put, dropped>>

\* av_packet_ref fails: deQueue returns false, the head stays in the queue.
DeQueueRefFails(t) ==
  /\ pc[t] = "deq_cs"
  /\ queue # <<>>
  /\ failures < MaxFailures
  /\ failures' = failures + 1
  /\ mutex' = NoThread
  /\ pc' = [pc EXCEPT ![t] = "idle"]
  /\ UNCHANGED <<queue, nb_packets, size, item, unread, history>>

\* Nothing queued and block = false.
DeQueueEmpty(t) ==
  /\ pc[t] = "deq_cs"
  /\ queue = <<>>
  /\ t \in Pollers
  /\ mutex' = IF UnlockOnEmpty THEN NoThread ELSE mutex
  /\ pc' = [pc EXCEPT ![t] = "idle"]
  /\ UNCHANGED <<queue, nb_packets, size, item, unread, failures, history>>

\* Nothing queued and block = true: cond_wait releases the mutex and sleeps.
DeQueueWait(t) ==
  /\ pc[t] = "deq_cs"
  /\ queue = <<>>
  /\ t \notin Pollers
  /\ mutex' = NoThread
  /\ pc' = [pc EXCEPT ![t] = "wait"]
  /\ UNCHANGED <<queue, nb_packets, size, item, unread, failures, history>>

\* flush pops everything; it counts packets down but leaves size alone.
Flush(t) ==
  /\ pc[t] = "flush_cs"
  /\ queue' = <<>>
  /\ nb_packets' = nb_packets - Len(queue)
  /\ dropped' = dropped \cup Elements(queue)
  /\ mutex' = NoThread
  /\ pc' = [pc EXCEPT ![t] = "gone"]
  /\ UNCHANGED <<size, item, unread, failures, put, taken>>

-------------------------------------------------------------------------------
EnQueue(t) == EnQueueRef(t) \/ Lock(t) \/ EnQueuePush(t)

DeQueue(t) ==
  \/ DeQueueCall(t)
  \/ Lock(t)
  \/ SpuriousWakeup(t)
  \/ DeQueueTake(t)
  \/ DeQueueRefFails(t)
  \/ DeQueueEmpty(t)
  \/ DeQueueWait(t)

FlushQueue(t) == FlushCall(t) \/ Lock(t) \/ Flush(t)

Next ==
  \/ \E t \in Producers : EnQueue(t)
  \/ \E t \in Consumers : DeQueue(t)
  \/ \E t \in Flushers  : FlushQueue(t)

Spec == Init /\ [][Next]_vars

(***************************************************************************)
(* Every thread that can move does move; a consumer calls deQueue again    *)
(* (the decoding and display loops do); the mutex is not withheld forever  *)
(* from one contender.  Nothing is assumed about producers or those who    *)
(* poll starting a call, about spurious wakeups or about flush.            *)
(***************************************************************************)
Fairness ==
  /\ \A t \in Threads : SF_vars(Lock(t))
  /\ \A t \in Producers : WF_vars(EnQueuePush(t))
  /\ \A t \in Consumers \ Pollers : WF_vars(DeQueueCall(t))
  /\ \A t \in Consumers :
       WF_vars(DeQueueTake(t) \/ DeQueueRefFails(t) \/ DeQueueEmpty(t) \/ DeQueueWait(t))
  /\ \A t \in Flushers : WF_vars(Flush(t))

FairSpec == Spec /\ Fairness

-------------------------------------------------------------------------------
(* Properties.                                                             *)

\* The values the variables of enQueue, deQueue and flush range over.
TypeOK ==
  /\ queue \in Seq(Packets)
  /\ nb_packets \in Nat
  /\ size \in 0 .. Word - 1
  /\ mutex \in Threads \cup {NoThread}
  /\ pc \in [Threads -> PC]
  /\ item \in [Producers -> Packets \cup {NoPacket}]
  /\ unread \subseteq Packets
  /\ failures \in 0 .. MaxFailures
  /\ put \in Seq(Packets)
  /\ taken \in Seq(Packets)
  /\ dropped \subseteq Packets

\* The counter that players read without the lock, to decide whether the queue
\* is full, is the number of queued elements after every enQueue, deQueue and
\* flush, failed ones included.
CounterIsLength == nb_packets = Len(queue)

\* A thread is inside a critical section exactly while it owns the mutex; the
\* one way to return from a call and keep it is deQueue's early return when
\* nothing is queued and block is false, in the class that does not unlock.
LockDiscipline ==
  /\ \A t \in Critical : mutex = t
  /\ mutex # NoThread /\ mutex \notin Critical =>
       ~UnlockOnEmpty /\ mutex \in Pollers /\ queue = <<>>

\* cond_signal wakes one sleeper for each element pushed and deQueue looks at
\* the queue before it sleeps: while a consumer sleeps, no more elements are
\* queued than there are consumers on their way to fetch one.  A failed
\* av_packet_ref uses a signal up without removing the element, so each one may
\* strand one sleeper.
NoLostWakeup ==
  Waiting # {} => Len(queue) <= Cardinality(OnTheWay) + failures

\* With the one consumer each queue of the players has, deQueue never sleeps on
\* a queue that holds something, whatever fails.
SleepsOnlyWhenEmpty == Waiting # {} => queue = <<>>

\* No element is lost, doubled or reordered between enQueue and deQueue: what
\* was delivered, followed by what is queued, is what was pushed without what
\* flush removed.
InOrder == taken \o queue = SelectSeq(put, LAMBDA p : p \notin dropped)

Sums == INSTANCE Functions

Bytes(packets) == Sums!SumFunctionOnSet(Size, packets)

\* PthreadPacketQueue counts the bytes it holds, modulo the width of size, plus
\* the bytes of everything flush ever removed: flush does not give them back.
SizeCountsBytes == size = (Bytes(Elements(queue)) + Bytes(dropped)) % Word

\* The mutex and the condition variable together implement a FIFO queue.
Fifo == INSTANCE FifoQueue
ImplementsFifo == Fifo!FifoSpec

\* A packet that enQueue accepted is eventually received by a consumer or
\* flushed: no interleaving of signals, spurious wakeups and failed references
\* leaves it in the queue forever, unless the early return keeps the mutex.
Delivered ==
  \A p \in Packets :
    p \in Elements(put)
      ~> p \in Elements(taken) \cup dropped \/ mutex \notin Critical \cup {NoThread}
===============================================================================
