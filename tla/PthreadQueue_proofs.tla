------------------------- MODULE PthreadQueue_proofs -------------------------
(***************************************************************************)
(* Theorems about the blocking queue for any number of threads, any set of *)
(* packets and any number of failed references.                            *)
(***************************************************************************)
EXTENDS PthreadQueue, FiniteSetTheorems, SequenceTheorems, WellFoundedInduction, TLAPS

\* A producer on its way to the mutex holds a packet, and only a consumer is
\* ever in deQueue.
ItemHeld == \A t \in Producers : pc[t] \in {"enq", "enq_cs"} => item[t] \in Packets

DeQueueing == {t \in Threads : pc[t] \in {"deq", "wait", "woken", "deq_cs"}}

OnlyConsumersDeQueue == DeQueueing \subseteq Consumers

IInv == TypeOK /\ CounterIsLength /\ LockDiscipline /\ ItemHeld /\ OnlyConsumersDeQueue

-------------------------------------------------------------------------------
(* What an operation on the sequence does to the counter and to the type.  *)

LEMMA PushPop ==
  ASSUME NEW s \in Seq(Packets), NEW p \in Packets
  PROVE  /\ Append(s, p) \in Seq(Packets)
         /\ Len(Append(s, p)) = Len(s) + 1
         /\ s # <<>> => /\ Head(s) \in Packets
                        /\ Tail(s) \in Seq(Packets)
                        /\ Len(s) >= 1
                        /\ Len(Tail(s)) = Len(s) - 1
  BY AppendProperties, HeadTailProperties, EmptySeq

LEMMA WrapsInWord ==
  ASSUME NEW n \in Int
  PROVE  n % Word \in 0 .. Word - 1
  BY QueueAssumption

-------------------------------------------------------------------------------
LEMMA InitInv == Init => IInv
  BY QueueAssumption
     DEF Init, IInv, TypeOK, CounterIsLength, LockDiscipline, ItemHeld,
         OnlyConsumersDeQueue, DeQueueing, Critical, Threads, PC

\* One step per action; each preserves the five conjuncts together.
LEMMA NextInv == IInv /\ [Next]_vars => IInv'
<1> SUFFICES ASSUME IInv, [Next]_vars PROVE IInv'
  OBVIOUS
<1> USE QueueAssumption DEF history
<1>e. ASSUME NEW t \in Producers, EnQueueRef(t) PROVE IInv'
  BY <1>e, ZenonT(60) DEF EnQueueRef, IInv, TypeOK, CounterIsLength, LockDiscipline, ItemHeld,
              OnlyConsumersDeQueue, DeQueueing, Critical, Threads, PC
<1>l. ASSUME NEW t \in Threads, Lock(t) PROVE IInv'
  BY <1>l DEF Lock, Section, IInv, TypeOK, CounterIsLength, LockDiscipline, ItemHeld,
              OnlyConsumersDeQueue, DeQueueing, Critical, Threads, PC
<1>p. ASSUME NEW t \in Producers, EnQueuePush(t) PROVE IInv'
  <2>1. item[t] \in Packets
    BY <1>p DEF EnQueuePush, IInv, ItemHeld
  <2>2. size' \in 0 .. Word - 1
    <3>1. size + Size[item[t]] \in Int
      BY <2>1 DEF IInv, TypeOK
    <3>2. (size + Size[item[t]]) % Word \in 0 .. Word - 1
      BY <3>1, WrapsInWord
    <3> QED
      BY <3>2, <1>p DEF EnQueuePush
  <2>3. queue' \in Seq(Packets) /\ put' \in Seq(Packets)
    BY <1>p, <2>1, PushPop DEF EnQueuePush, IInv, TypeOK
  <2>4. nb_packets' \in Nat /\ nb_packets' = Len(queue')
    BY <1>p, <2>1, PushPop DEF EnQueuePush, IInv, TypeOK, CounterIsLength
  <2> QED
    BY <1>p, <2>2, <2>3, <2>4, ZenonT(60)
       DEF EnQueuePush, SignalAndReturn, Waiting, IInv, TypeOK, CounterIsLength,
           LockDiscipline, ItemHeld, OnlyConsumersDeQueue, DeQueueing, Critical,
           Threads, PC
<1>c. ASSUME NEW t \in Consumers, DeQueueCall(t) PROVE IInv'
  BY <1>c DEF DeQueueCall, IInv, TypeOK, CounterIsLength, LockDiscipline, ItemHeld,
              OnlyConsumersDeQueue, DeQueueing, Critical, Threads, PC
<1>s. ASSUME NEW t \in Consumers, SpuriousWakeup(t) PROVE IInv'
  BY <1>s DEF SpuriousWakeup, IInv, TypeOK, CounterIsLength, LockDiscipline, ItemHeld,
              OnlyConsumersDeQueue, DeQueueing, Critical, Threads, PC
<1>t. ASSUME NEW t \in Consumers, DeQueueTake(t) PROVE IInv'
  <2>1. queue \in Seq(Packets) /\ queue # <<>>
    BY <1>t DEF DeQueueTake, IInv, TypeOK
  <2>2. size' \in 0 .. Word - 1
    <3>1. Size[Head(queue)] \in Int
      BY <2>1, PushPop
    <3>2. Size[Head(queue)] % Word \in Int
      BY <3>1, WrapsInWord
    <3>3. size + Word - (Size[Head(queue)] % Word) \in Int
      BY <3>2 DEF IInv, TypeOK
    <3>4. (size + Word - (Size[Head(queue)] % Word)) % Word \in 0 .. Word - 1
      BY <3>3, WrapsInWord
    <3> QED
      BY <3>4, <1>t DEF DeQueueTake
  <2>3. queue' \in Seq(Packets) /\ taken' \in Seq(Packets)
    BY <1>t, <2>1, PushPop DEF DeQueueTake, IInv, TypeOK
  <2>4. nb_packets' \in Nat /\ nb_packets' = Len(queue')
    BY <1>t, <2>1, PushPop DEF DeQueueTake, IInv, TypeOK, CounterIsLength
  <2> QED
    BY <1>t, <2>2, <2>3, <2>4
       DEF DeQueueTake, IInv, TypeOK, CounterIsLength, LockDiscipline, ItemHeld,
           OnlyConsumersDeQueue, DeQueueing, Critical, Threads, PC
<1>r. ASSUME NEW t \in Consumers, DeQueueRefFails(t) PROVE IInv'
  BY <1>r DEF DeQueueRefFails, IInv, TypeOK, CounterIsLength, LockDiscipline, ItemHeld,
              OnlyConsumersDeQueue, DeQueueing, Critical, Threads, PC
<1>m. ASSUME NEW t \in Consumers, DeQueueEmpty(t) PROVE IInv'
  BY <1>m DEF DeQueueEmpty, IInv, TypeOK, CounterIsLength, LockDiscipline, ItemHeld,
              OnlyConsumersDeQueue, DeQueueing, Critical, Threads, PC
<1>w. ASSUME NEW t \in Consumers, DeQueueWait(t) PROVE IInv'
  BY <1>w DEF DeQueueWait, IInv, TypeOK, CounterIsLength, LockDiscipline, ItemHeld,
              OnlyConsumersDeQueue, DeQueueing, Critical, Threads, PC
<1>f. ASSUME NEW t \in Flushers, FlushCall(t) PROVE IInv'
  BY <1>f DEF FlushCall, IInv, TypeOK, CounterIsLength, LockDiscipline, ItemHeld,
              OnlyConsumersDeQueue, DeQueueing, Critical, Threads, PC
<1>x. ASSUME NEW t \in Flushers, Flush(t) PROVE IInv'
  BY <1>x, EmptySeq, ElementOfSeq
     DEF Flush, Elements, IInv, TypeOK, CounterIsLength, LockDiscipline, ItemHeld,
         OnlyConsumersDeQueue, DeQueueing, Critical, Threads, PC
<1>u. CASE UNCHANGED vars
  BY <1>u DEF vars, IInv, TypeOK, CounterIsLength, LockDiscipline, ItemHeld,
              OnlyConsumersDeQueue, DeQueueing, Critical
<1> QED
  BY <1>e, <1>l, <1>p, <1>c, <1>s, <1>t, <1>r, <1>m, <1>w, <1>f, <1>x, <1>u
     DEF Next, EnQueue, DeQueue, FlushQueue, Threads

LEMMA InductiveInvariant == Spec => []IInv
  BY InitInv, NextInv, PTL DEF Spec

\* The variables of the queue keep their types in every reachable state: in
\* particular nb_packets never runs below zero.
THEOREM TypeCorrect == Spec => []TypeOK
<1>1. IInv => TypeOK
  BY DEF IInv
<1> QED
  BY <1>1, InductiveInvariant, PTL

\* nb_packets / nb_frames is the length of the queue in every reachable state,
\* so the full and empty tests of the players read the right number.
THEOREM CounterCorrect == Spec => []CounterIsLength
<1>1. IInv => CounterIsLength
  BY DEF IInv
<1> QED
  BY <1>1, InductiveInvariant, PTL

\* Critical sections exclude one another, and only a non-blocking deQueue of an
\* empty PthreadFrameQueue returns with the mutex held.
THEOREM LockCorrect == Spec => []LockDiscipline
<1>1. IInv => LockDiscipline
  BY DEF IInv
<1> QED
  BY <1>1, InductiveInvariant, PTL

-------------------------------------------------------------------------------
(* Wakeups.                                                                *)

SingleConsumer == \A c, d \in Consumers : c = d

\* The consumer of a queue with a single consumer never sleeps while something
\* is queued, whatever references fail and however often it is woken for nothing.
THEOREM SingleConsumerSleepsOnlyWhenEmpty ==
  ASSUME SingleConsumer
  PROVE  Spec => []SleepsOnlyWhenEmpty
<1>1. Init => SleepsOnlyWhenEmpty
  BY DEF Init, SleepsOnlyWhenEmpty
<1>2. IInv /\ SleepsOnlyWhenEmpty /\ [Next]_vars => SleepsOnlyWhenEmpty'
  <2> SUFFICES ASSUME IInv, SleepsOnlyWhenEmpty, [Next]_vars, Waiting' # {}
               PROVE  queue' = <<>>
    BY DEF SleepsOnlyWhenEmpty
  <2> USE QueueAssumption DEF history, SingleConsumer
  <2>0. pc \in [Threads -> PC] /\ Waiting \subseteq Consumers
    BY DEF IInv, TypeOK, OnlyConsumersDeQueue, DeQueueing, Waiting
  <2>p. ASSUME NEW t \in Producers, EnQueuePush(t) PROVE FALSE
    <3>1. CASE Waiting = {}
      BY <2>0, <2>p, <3>1 DEF EnQueuePush, SignalAndReturn, Waiting
    <3>2. ASSUME NEW w \in Waiting, pc' = [pc EXCEPT ![t] = "idle", ![w] = "woken"]
          PROVE  FALSE
      <4>1. PICK v \in Waiting' : TRUE
        OBVIOUS
      <4>a. v \in Threads /\ pc'[v] = "wait"
        BY <4>1 DEF Waiting
      <4>b. t \in Threads /\ w \in Threads
        BY DEF Waiting, Threads
      <4>2. v # w /\ v # t /\ v \in Threads /\ pc[v] = "wait"
        BY <2>0, <3>2, <4>a, <4>b
      <4> QED
        BY <2>0, <4>2 DEF Waiting
    <3> QED
      BY <2>p, <3>1, <3>2 DEF EnQueuePush, SignalAndReturn
  <2>t. ASSUME NEW t \in Consumers, DeQueueTake(t) PROVE FALSE
    <3>1. PICK v \in Waiting' : TRUE
      OBVIOUS
    <3>a. v \in Threads /\ t \in Threads /\ pc'[v] = "wait"
      BY <3>1 DEF Waiting, Threads
    <3>2. v \in Waiting /\ pc[t] = "deq_cs" /\ pc[v] = "wait"
      BY <2>0, <2>t, <3>a DEF DeQueueTake, Waiting
    <3> QED
      BY <2>0, <3>2
  <2>w. ASSUME NEW t \in Consumers, DeQueueWait(t) PROVE queue' = <<>>
    BY <2>w DEF DeQueueWait
  <2>x. ASSUME NEW t \in Flushers, Flush(t) PROVE queue' = <<>>
    BY <2>x DEF Flush
  <2>o. ASSUME \/ \E t \in Producers : EnQueueRef(t)
               \/ \E t \in Threads : Lock(t)
               \/ \E t \in Consumers : \/ DeQueueCall(t) \/ SpuriousWakeup(t)
                                       \/ DeQueueRefFails(t) \/ DeQueueEmpty(t)
               \/ \E t \in Flushers : FlushCall(t)
               \/ UNCHANGED vars
        PROVE  queue' = <<>>
    <3>1. Waiting' \subseteq Waiting /\ queue' = queue
      BY <2>0, <2>o DEF EnQueueRef, Lock, Section, DeQueueCall, SpuriousWakeup,
                        DeQueueRefFails, DeQueueEmpty, FlushCall, Waiting, vars, Threads, PC
    <3> QED
      BY <3>1 DEF SleepsOnlyWhenEmpty
  <2> QED
    BY <2>p, <2>t, <2>w, <2>x, <2>o DEF Next, EnQueue, DeQueue, FlushQueue, Threads
<1> QED
  BY <1>1, <1>2, InductiveInvariant, PTL DEF Spec

\* The threads on their way to the queue are finitely many, in the next state as
\* in this one.
LEMMA OnTheWayFinite ==
  /\ IsFiniteSet(OnTheWay) /\ Cardinality(OnTheWay) \in Nat
  /\ IsFiniteSet(OnTheWay') /\ Cardinality(OnTheWay') \in Nat
<1>1. OnTheWay \subseteq Threads /\ OnTheWay' \subseteq Threads
  BY DEF OnTheWay
<1> QED
  BY <1>1, QueueAssumption, FS_Subset, FS_CardinalityType

\* While a consumer sleeps there is no more in the queue than the consumers on
\* their way and the failed references account for: no signal is lost between
\* deQueue's look at the queue and its sleep, whatever the number of threads.
THEOREM WakeupsNotLost == Spec => []NoLostWakeup
<1>1. Init => NoLostWakeup
  BY DEF Init, NoLostWakeup, Waiting
<1>2. IInv /\ NoLostWakeup /\ [Next]_vars => NoLostWakeup'
  <2> SUFFICES ASSUME IInv, NoLostWakeup, [Next]_vars, Waiting' # {}
               PROVE  Len(queue') <= Cardinality(OnTheWay') + failures'
    BY DEF NoLostWakeup
  <2> USE QueueAssumption DEF history
  <2>0. /\ pc \in [Threads -> PC] /\ queue \in Seq(Packets)
        /\ Len(queue) \in Nat /\ failures \in Nat
        /\ Waiting # {} => Len(queue) <= Cardinality(OnTheWay) + failures
    BY LenProperties DEF IInv, TypeOK, NoLostWakeup
  <2>1. ASSUME Waiting # {}, queue' = queue, failures' = failures,
               OnTheWay \subseteq OnTheWay'
        PROVE  Len(queue') <= Cardinality(OnTheWay') + failures'
    <3>1. Cardinality(OnTheWay) <= Cardinality(OnTheWay')
      BY <2>1, OnTheWayFinite, FS_Subset
    <3> QED
      BY <2>0, <2>1, <3>1, OnTheWayFinite
  <2>2. ASSUME queue' = <<>>, failures' \in Nat
        PROVE  Len(queue') <= Cardinality(OnTheWay') + failures'
    BY <2>2, OnTheWayFinite, EmptySeq
  <2>p. ASSUME NEW t \in Producers, EnQueuePush(t)
        PROVE  Len(queue') <= Cardinality(OnTheWay') + failures'
    <3>1. Waiting # {}
      BY <2>0, <2>p DEF EnQueuePush, SignalAndReturn, Waiting, Threads
    <3>2. PICK w \in Waiting : pc' = [pc EXCEPT ![t] = "idle", ![w] = "woken"]
      BY <2>p, <3>1 DEF EnQueuePush, SignalAndReturn
    <3>3. w \in Threads /\ w \notin OnTheWay /\ OnTheWay' = OnTheWay \cup {w}
      BY <2>0, <2>p, <3>2 DEF EnQueuePush, Waiting, OnTheWay, Threads
    <3>4. Cardinality(OnTheWay') = Cardinality(OnTheWay) + 1
      BY <3>3, OnTheWayFinite, FS_AddElement
    <3>5. item[t] \in Packets
      BY <2>p DEF EnQueuePush, IInv, ItemHeld
    <3>6. Len(queue') = Len(queue) + 1 /\ failures' = failures
      BY <2>0, <2>p, <3>5, PushPop DEF EnQueuePush
    <3> QED
      BY <2>0, <3>1, <3>4, <3>6, OnTheWayFinite
  <2>t. ASSUME NEW t \in Consumers, DeQueueTake(t) \/ DeQueueRefFails(t)
        PROVE  Len(queue') <= Cardinality(OnTheWay') + failures'
    <3>1. Waiting # {} /\ t \in OnTheWay /\ OnTheWay' = OnTheWay \ {t}
      BY <2>0, <2>t DEF DeQueueTake, DeQueueRefFails, Waiting, OnTheWay, Threads
    <3>2. Cardinality(OnTheWay') = Cardinality(OnTheWay) - 1
      BY <3>1, OnTheWayFinite, FS_RemoveElement
    <3>3. Len(queue') - failures' = Len(queue) - failures - 1 /\ failures' \in Nat
          /\ Len(queue') \in Nat
      BY <2>0, <2>t, PushPop DEF DeQueueTake, DeQueueRefFails
    <3> QED
      BY <2>0, <3>1, <3>2, <3>3, OnTheWayFinite
  <2>w. ASSUME NEW t \in Consumers, DeQueueWait(t) \/ DeQueueEmpty(t)
        PROVE  Len(queue') <= Cardinality(OnTheWay') + failures'
    BY <2>0, <2>2, <2>w DEF DeQueueWait, DeQueueEmpty
  <2>x. ASSUME NEW t \in Flushers, Flush(t)
        PROVE  Len(queue') <= Cardinality(OnTheWay') + failures'
    BY <2>0, <2>2, <2>x DEF Flush
  <2>o. ASSUME \/ \E t \in Producers : EnQueueRef(t)
               \/ \E t \in Threads : Lock(t)
               \/ \E t \in Consumers : DeQueueCall(t) \/ SpuriousWakeup(t)
               \/ \E t \in Flushers : FlushCall(t)
               \/ UNCHANGED vars
        PROVE  Len(queue') <= Cardinality(OnTheWay') + failures'
    <3>1. Waiting' \subseteq Waiting /\ OnTheWay \subseteq OnTheWay'
      BY <2>0, <2>o DEF EnQueueRef, Lock, Section, DeQueueCall, SpuriousWakeup,
                        FlushCall, Waiting, OnTheWay, vars, Threads, PC
    <3>2. queue' = queue /\ failures' = failures
      BY <2>o DEF EnQueueRef, Lock, DeQueueCall, SpuriousWakeup, FlushCall, vars
    <3> QED
      BY <2>1, <3>1, <3>2
  <2> QED
    BY <2>p, <2>t, <2>w, <2>x, <2>o DEF Next, EnQueue, DeQueue, FlushQueue, Threads
<1> QED
  BY <1>1, <1>2, InductiveInvariant, PTL DEF Spec

-------------------------------------------------------------------------------
(* Refinement.                                                             *)

\* Whatever the interleaving, the queue with its mutex and condition variable
\* is a FIFO queue: packets leave in order, each once, none but by a flush.
THEOREM RefinesFifo == Spec => ImplementsFifo
<1>1. Init => Fifo!FifoInit
  BY DEF Init, Fifo!FifoInit
<1>2. IInv /\ [Next]_vars => [Fifo!FifoNext]_(Fifo!fifoVars)
  <2> SUFFICES ASSUME IInv, [Next]_vars
               PROVE  Fifo!FifoNext \/ UNCHANGED <<queue, taken, dropped>>
    BY DEF Fifo!fifoVars
  <2> USE DEF history
  <2>p. ASSUME NEW t \in Producers, EnQueuePush(t) PROVE Fifo!FifoNext
    <3>1. item[t] \in Packets
      BY <2>p DEF EnQueuePush, IInv, ItemHeld
    <3>2. Fifo!Put(item[t])
      BY <2>p DEF EnQueuePush, Fifo!Put
    <3> QED
      BY <3>1, <3>2 DEF Fifo!FifoNext
  <2>t. ASSUME NEW t \in Consumers, DeQueueTake(t) PROVE Fifo!FifoNext
    BY <2>t DEF DeQueueTake, Fifo!Take, Fifo!FifoNext
  <2>x. ASSUME NEW t \in Flushers, Flush(t) PROVE Fifo!FifoNext
    BY <2>x DEF Flush, Elements, Fifo!Clear, Fifo!FifoNext
  <2>o. ASSUME \/ \E t \in Producers : EnQueueRef(t)
               \/ \E t \in Threads : Lock(t)
               \/ \E t \in Consumers : \/ DeQueueCall(t) \/ SpuriousWakeup(t)
                                       \/ DeQueueRefFails(t) \/ DeQueueEmpty(t)
                                       \/ DeQueueWait(t)
               \/ \E t \in Flushers : FlushCall(t)
               \/ UNCHANGED vars
        PROVE  UNCHANGED <<queue, taken, dropped>>
    BY <2>o DEF EnQueueRef, Lock, DeQueueCall, SpuriousWakeup, DeQueueRefFails,
                DeQueueEmpty, DeQueueWait, FlushCall, vars
  <2> QED
    BY <2>p, <2>t, <2>x, <2>o DEF Next, EnQueue, DeQueue, FlushQueue, Threads
<1> QED
  BY <1>1, <1>2, InductiveInvariant, PTL DEF Spec, ImplementsFifo, Fifo!FifoSpec

-------------------------------------------------------------------------------
(* Sums over finite sets, by induction on the subsets: of the sets that     *)
(* break a claim one is minimal, and its subsets keep the claim.            *)

\* A set of naturals has a least element.
LEMMA LeastNatural ==
  ASSUME NEW T, T \subseteq Nat, T # {}
  PROVE  \E x \in T : \A y \in T : ~ (y < x)
<1>1. PICK x \in T : \A y \in T : ~ (<<y, x>> \in OpToRel(<, Nat))
  BY WFMin, NatLessThanWellFounded
<1>2. \A y \in T : y \in Nat /\ (y < x => <<y, x>> \in OpToRel(<, Nat))
  BY DEF OpToRel
<1> QED
  BY <1>1, <1>2

\* Of some subsets of a finite set, one holds no other.
LEMMA SmallestSubset ==
  ASSUME NEW S, IsFiniteSet(S), NEW F, F \subseteq SUBSET S, F # {}
  PROVE  \E x \in F : \A y \in F : y \subseteq x => y = x
<1>0. SUBSET S = FiniteSubsetsOf(S)
  BY FS_FiniteSubsetsOfFinite
<1>1. PICK x \in F : \A y \in F : ~ (<<y, x>> \in StrictSubsetOrdering(S))
  BY <1>0, WFMin, FS_StrictSubsetOrderingWellFounded
<1>2. ASSUME NEW y \in F, y \subseteq x PROVE y = x
  BY <1>1, <1>2 DEF StrictSubsetOrdering
<1> QED
  BY <1>1, <1>2

\* The function the fold of the community modules computes with, and its equation.
Some(s) == CHOOSE x \in s : TRUE
SumStep(g, T) ==
  [s \in SUBSET T |-> IF s = {} THEN 0 ELSE Size[Some(s)] + g[s \ {Some(s)}]]
IsSum(g, T) == g = SumStep(g, T)
Sum(T) == CHOOSE g : IsSum(g, T)

LEMMA BytesDef == \A T : Bytes(T) = Sum(T)[T]
  BY DEF Bytes, Sums!SumFunctionOnSet, Sums!FoldFunctionOnSet, Sums!MapThenFoldSet,
         IsSum, SumStep, Some, Sum

LEMMA SomeIn ==
  ASSUME NEW s, s # {}
  PROVE  Some(s) \in s
  BY DEF Some

\* The function that sums is defined: there is one on the subsets of up to n elements.
LEMMA SumExists ==
  ASSUME NEW T, IsFiniteSet(T)
  PROVE  IsSum(Sum(T), T)
<1> DEFINE Small(n) == {s \in SUBSET T : Cardinality(s) <= n}
           Upto(g, n) == \A s \in Small(n) : g[s] = SumStep(g, T)[s]
           Bad == {n \in Nat : ~ \E g : Upto(g, n)}
<1>0. \A s \in SUBSET T : IsFiniteSet(s) /\ Cardinality(s) \in Nat /\ Cardinality(s) <= Cardinality(T)
  BY FS_Subset, FS_CardinalityType
<1>1. Bad = {}
  <2> SUFFICES ASSUME Bad # {} PROVE FALSE
    OBVIOUS
  <2>1. PICK n \in Bad : \A m \in Bad : ~ (m < n)
    BY LeastNatural
  <2>2. n # 0
    <3> DEFINE z == [s \in SUBSET T |-> 0]
    <3>1. \A s \in Small(0) : s = {}
      BY <1>0, FS_EmptySet
    <3>2. Upto(z, 0)
      BY <3>1 DEF SumStep
    <3> QED
      BY <3>2
  <2>3. n - 1 \in Nat /\ n - 1 \notin Bad
    BY <2>1, <2>2
  <2>4. PICK g : Upto(g, n - 1)
    BY <2>3
  <2> DEFINE h == [s \in SUBSET T |-> IF s \in Small(n - 1) THEN g[s] ELSE SumStep(g, T)[s]]
  <2>5. \A s \in Small(n) : s # {} => s \ {Some(s)} \in Small(n - 1)
    BY <1>0, <2>1, SomeIn, FS_RemoveElement
  <2>6. \A s \in Small(n) : s # {} => h[s \ {Some(s)}] = g[s \ {Some(s)}]
    BY <2>5
  <2>7. \A s \in Small(n) : SumStep(h, T)[s] = SumStep(g, T)[s]
    BY <2>6 DEF SumStep
  <2>8. \A s \in Small(n) : h[s] = SumStep(g, T)[s]
    BY <2>4
  <2>9. Upto(h, n)
    BY <2>7, <2>8
  <2> QED
    BY <2>9, <2>1
<1>2. PICK g : Upto(g, Cardinality(T))
  BY <1>1, FS_CardinalityType
<1>3. SUBSET T = Small(Cardinality(T))
  BY <1>0
<1> DEFINE f == SumStep(g, T)
<1>4. \A s \in SUBSET T : f[s] = g[s]
  BY <1>2, <1>3
<1>5. \A s \in SUBSET T : s # {} => f[s \ {Some(s)}] = g[s \ {Some(s)}]
  BY <1>4
<1>6. f = SumStep(f, T)
  BY <1>5 DEF SumStep
<1> QED
  BY <1>6 DEF IsSum, Sum

LEMMA SumStepAt ==
  ASSUME NEW T, IsFiniteSet(T), NEW s \in SUBSET T
  PROVE  Sum(T)[s] = IF s = {} THEN 0 ELSE Size[Some(s)] + Sum(T)[s \ {Some(s)}]
<1>1. Sum(T) = SumStep(Sum(T), T)
  BY SumExists DEF IsSum
<1>2. SumStep(Sum(T), T)[s] = IF s = {} THEN 0 ELSE Size[Some(s)] + Sum(T)[s \ {Some(s)}]
  BY DEF SumStep
<1> QED
  BY <1>1, <1>2

LEMMA SumNat ==
  ASSUME NEW T \in SUBSET Packets, IsFiniteSet(T)
  PROVE  \A s \in SUBSET T : Sum(T)[s] \in Nat
<1> DEFINE Bad == {s \in SUBSET T : Sum(T)[s] \notin Nat}
<1>0. Bad \subseteq SUBSET T
  OBVIOUS
<1>1. ASSUME NEW s \in Bad, \A t \in Bad : t \subseteq s => t = s
      PROVE  FALSE
  <2>1. Sum(T)[s] = IF s = {} THEN 0 ELSE Size[Some(s)] + Sum(T)[s \ {Some(s)}]
    BY SumStepAt
  <2>2. s # {}
    BY <2>1
  <2>3. s \ {Some(s)} \notin Bad /\ Some(s) \in s
    BY <1>1, <2>2, SomeIn
  <2>4. Sum(T)[s \ {Some(s)}] \in Nat /\ Size[Some(s)] \in Nat
    BY <2>3, QueueAssumption
  <2>5. Sum(T)[s] \in Nat
    BY <2>1, <2>2, <2>4
  <2> QED
    BY <2>5
<1> HIDE DEF Bad
<1>2. Bad = {}
  BY <1>0, <1>1, SmallestSubset
<1> QED
  BY <1>2 DEF Bad

\* The order of the summands does not matter.
LEMMA SumRemove ==
  ASSUME NEW T \in SUBSET Packets, IsFiniteSet(T)
  PROVE  \A s \in SUBSET T : \A x \in s : Sum(T)[s] = Size[x] + Sum(T)[s \ {x}]
<1> DEFINE Good(s) == \A x \in s : Sum(T)[s] = Size[x] + Sum(T)[s \ {x}]
           Bad == {s \in SUBSET T : ~ Good(s)}
<1>0. Bad \subseteq SUBSET T
  OBVIOUS
<1>1. ASSUME NEW s \in Bad, \A t \in Bad : t \subseteq s => t = s
      PROVE  FALSE
  <2>2. PICK x \in s : Sum(T)[s] # Size[x] + Sum(T)[s \ {x}]
    OBVIOUS
  <2> DEFINE y == Some(s)
  <2>3. y \in s /\ Sum(T)[s] = Size[y] + Sum(T)[s \ {y}]
    BY <2>2, SomeIn, SumStepAt
  <2>4. x # y
    BY <2>2, <2>3
  <2> HIDE DEF y
  <2>5. Good(s \ {x}) /\ Good(s \ {y})
    BY <1>1, <2>2, <2>3
  <2> DEFINE rest == Sum(T)[s \ {x, y}]
  <2>6. (s \ {y}) \ {x} = s \ {x, y} /\ (s \ {x}) \ {y} = s \ {x, y}
    OBVIOUS
  <2>7. Sum(T)[s \ {y}] = Size[x] + rest /\ Sum(T)[s \ {x}] = Size[y] + rest
    BY <2>2, <2>3, <2>4, <2>5, <2>6
  <2>8. Size[x] \in Nat /\ Size[y] \in Nat /\ rest \in Nat
    BY <2>2, <2>3, SumNat, QueueAssumption
  <2> HIDE DEF Good, rest
  <2> QED
    BY <2>2, <2>3, <2>7, <2>8
<1> HIDE DEF Bad
<1>2. Bad = {}
  BY <1>0, <1>1, SmallestSubset
<1> QED
  BY <1>2 DEF Bad

\* Neither does the set the function is defined on.
LEMMA SumDomain ==
  ASSUME NEW T \in SUBSET Packets, IsFiniteSet(T), NEW U \in SUBSET T
  PROVE  Sum(T)[U] = Sum(U)[U]
<1> DEFINE Bad == {s \in SUBSET U : Sum(T)[s] # Sum(U)[s]}
<1>0. IsFiniteSet(U) /\ Bad \subseteq SUBSET U
  BY FS_Subset
<1>1. ASSUME NEW s \in Bad, \A t \in Bad : t \subseteq s => t = s
      PROVE  FALSE
  <2>1. /\ Sum(T)[s] = IF s = {} THEN 0 ELSE Size[Some(s)] + Sum(T)[s \ {Some(s)}]
        /\ Sum(U)[s] = IF s = {} THEN 0 ELSE Size[Some(s)] + Sum(U)[s \ {Some(s)}]
    BY <1>0, SumStepAt
  <2>2. s # {}
    BY <2>1
  <2>3. s \ {Some(s)} \notin Bad /\ Some(s) \in s
    BY <1>1, <2>2, SomeIn
  <2>4. Sum(T)[s \ {Some(s)}] = Sum(U)[s \ {Some(s)}]
    BY <2>3
  <2> QED
    BY <2>1, <2>2, <2>4
<1> HIDE DEF Bad
<1>2. Bad = {}
  BY <1>0, <1>1, SmallestSubset
<1> QED
  BY <1>2 DEF Bad

LEMMA BytesEmpty == Bytes({}) = 0
  BY BytesDef, SumStepAt, FS_EmptySet

LEMMA BytesAdd ==
  ASSUME NEW S \in SUBSET Packets, IsFiniteSet(S), NEW p \in Packets \ S
  PROVE  /\ Bytes(S) \in Nat
         /\ Bytes(S \cup {p}) = Size[p] + Bytes(S)
<1> DEFINE T == S \cup {p}
<1>1. IsFiniteSet(T) /\ T \in SUBSET Packets /\ S \in SUBSET T
  BY FS_AddElement
<1>2. Sum(T)[T] = Size[p] + Sum(T)[T \ {p}] /\ T \ {p} = S
  BY <1>1, SumRemove
<1>3. Sum(T)[S] = Sum(S)[S] /\ Sum(S)[S] \in Nat
  BY <1>1, SumDomain, SumNat
<1> QED
  BY <1>2, <1>3, BytesDef

-------------------------------------------------------------------------------
(* Arithmetic of a counter that wraps.                                      *)

LEMMA ModBound ==
  ASSUME NEW w \in Nat \ {0}, NEW a \in Int
  PROVE a % w \in 0 .. w - 1 /\ \E q \in Int : a = w * q + (a % w)
<1>1. a % w \in 0 .. w - 1
  OBVIOUS
<1>2. a \div w \in Int
  OBVIOUS
<1>3. a = w * (a \div w) + (a % w)
  OBVIOUS
<1> QED
  BY <1>1, <1>2, <1>3

LEMMA ModUnique ==
  ASSUME NEW w \in Nat \ {0}, NEW q \in Int, NEW r \in 0 .. w - 1
  PROVE (w * q + r) % w = r
<1> DEFINE a == w * q + r
<1>0. a \in Int
  OBVIOUS
<1>1. PICK p \in Int : a = w * p + (a % w)
  BY <1>0, ModBound
<1>2. a % w \in 0 .. w - 1
  BY <1>0, ModBound
<1>3. w * (p - q) = r - (a % w)
  BY <1>1, <1>2
<1>4. p - q = 0
  <2>1. CASE p - q >= 1
    <3>1. w * (p - q) >= w
      BY <2>1
    <3> QED
      BY <3>1, <1>3, <1>2
  <2>2. CASE p - q <= -1
    <3>1. w * (p - q) <= -w
      BY <2>2
    <3> QED
      BY <3>1, <1>3, <1>2
  <2> QED
    BY <2>1, <2>2
<1> QED
  BY <1>3, <1>4, <1>2

\* A sum grows by what is added to the summand, and shrinks by what is taken off it.
LEMMA WrappedSum ==
  ASSUME NEW a \in Nat, NEW b \in Nat
  PROVE  /\ ((a % Word) + b) % Word = (a + b) % Word
         /\ (((a + b) % Word) + Word - (b % Word)) % Word = a % Word
<1>0. Word \in Nat \ {0} /\ a \in Int /\ b \in Int /\ a + b \in Int
  BY QueueAssumption
<1>a. ASSUME NEW c \in Int
      PROVE  c % Word \in 0 .. Word - 1 /\ \E q \in Int : c = Word * q + (c % Word)
  BY <1>0, ModBound
<1>1. PICK q \in Int : a = Word * q + (a % Word)
  BY <1>0, <1>a
<1>2. PICK r \in Int : b = Word * r + (b % Word)
  BY <1>0, <1>a
<1>3. PICK k \in Int : a + b = Word * k + ((a + b) % Word)
  <2> DEFINE c == a + b
  <2> HIDE DEF c
  <2>1. c \in Int
    BY <1>0 DEF c
  <2>2. \E k \in Int : c = Word * k + (c % Word)
    BY <2>1, <1>a
  <2> QED
    BY <2>2 DEF c
<1>4. /\ a % Word \in 0 .. Word - 1 /\ b % Word \in 0 .. Word - 1
      /\ (a + b) % Word \in 0 .. Word - 1
  BY <1>0, WrapsInWord
<1> DEFINE am == a % Word
           bm == b % Word
           sm == (a + b) % Word
<1> HIDE DEF am, bm, sm
<1>5. (am + b) % Word = sm
  <2>0. Word * (k - q) = Word * k - Word * q /\ Word * k \in Int /\ Word * q \in Int
    BY <1>0
  <2> DEFINE wk == Word * k
             wq == Word * q
  <2>a. a = wq + am /\ a + b = wk + sm /\ am \in Int /\ sm \in Int
    BY <1>0, <1>1, <1>3, <1>4 DEF am, sm
  <2>b. wk \in Int /\ wq \in Int /\ Word * (k - q) = wk - wq
    BY <2>0
  <2> HIDE DEF wk, wq
  <2>1. am + b = Word * (k - q) + sm
    BY <2>a, <2>b
  <2>2. (Word * (k - q) + sm) % Word = sm
    BY <1>0, <1>4, ModUnique DEF sm
  <2> QED
    BY <2>1, <2>2
<1>6. (sm + Word - bm) % Word = am
  <2>1. sm + Word - bm = Word * (q + r - k + 1) + am
    BY <1>0, <1>1, <1>2, <1>3, <1>4 DEF am, bm, sm
  <2>2. (Word * (q + r - k + 1) + am) % Word = am
    BY <1>0, <1>4, ModUnique DEF am
  <2> QED
    BY <2>1, <2>2
<1> QED
  BY <1>5, <1>6 DEF am, bm, sm

-------------------------------------------------------------------------------
(* The counter of bytes.                                                   *)

\* What a sequence holds is finite; pushing adds an element, popping a sequence
\* that holds nothing twice removes its head.
Injective(s) == \A i, j \in DOMAIN s : s[i] = s[j] => i = j

LEMMA ElementsFinite ==
  ASSUME NEW s \in Seq(Packets)
  PROVE  Elements(s) \in SUBSET Packets /\ IsFiniteSet(Elements(s))
<1>1. DOMAIN s = 1 .. Len(s) /\ Len(s) \in Nat /\ s \in [1 .. Len(s) -> Packets]
  BY LenProperties
<1>2. IsFiniteSet(1 .. Len(s))
  BY <1>1, FS_Interval
<1>3. s \in Surjection(1 .. Len(s), Elements(s))
  BY <1>1 DEF Surjection, Elements
<1> QED
  BY <1>1, <1>2, <1>3, FS_Surjection DEF Elements

LEMMA ElementsPush ==
  ASSUME NEW s \in Seq(Packets), NEW p \in Packets
  PROVE  /\ Elements(Append(s, p)) = Elements(s) \cup {p}
         /\ Injective(s) /\ p \notin Elements(s) => Injective(Append(s, p))
<1>1. /\ DOMAIN s = 1 .. Len(s) /\ Len(s) \in Nat
      /\ DOMAIN Append(s, p) = 1 .. Len(s) + 1
      /\ Append(s, p)[Len(s) + 1] = p
      /\ \A i \in 1 .. Len(s) : Append(s, p)[i] = s[i]
  BY LenProperties, AppendProperties
<1>2. 1 .. Len(s) + 1 = (1 .. Len(s)) \cup {Len(s) + 1}
  BY <1>1
<1>3. ASSUME Injective(s), p \notin Elements(s)
      PROVE  Injective(Append(s, p))
  BY <1>1, <1>2, <1>3 DEF Injective, Elements
<1> QED
  BY <1>1, <1>2, <1>3 DEF Elements

LEMMA ElementsPop ==
  ASSUME NEW s \in Seq(Packets), s # <<>>, Injective(s)
  PROVE  /\ Injective(Tail(s))
         /\ Head(s) \in Elements(s) /\ Head(s) \notin Elements(Tail(s))
         /\ Elements(s) = Elements(Tail(s)) \cup {Head(s)}
<1>1. /\ DOMAIN s = 1 .. Len(s) /\ Len(s) \in Nat /\ Len(s) >= 1
      /\ DOMAIN Tail(s) = 1 .. Len(s) - 1
      /\ \A i \in 1 .. Len(s) - 1 : Tail(s)[i] = s[i + 1]
      /\ Head(s) = s[1]
  BY LenProperties, HeadTailProperties, EmptySeq
<1>2. \A i \in 1 .. Len(s) - 1 : i + 1 \in 1 .. Len(s) /\ i + 1 # 1
  BY <1>1
<1>3. \A i \in 1 .. Len(s) : i = 1 \/ (i - 1 \in 1 .. Len(s) - 1 /\ (i - 1) + 1 = i)
  BY <1>1
<1>4. Injective(Tail(s))
  <2> SUFFICES ASSUME NEW i \in 1 .. Len(s) - 1, NEW j \in 1 .. Len(s) - 1,
                      Tail(s)[i] = Tail(s)[j]
               PROVE  i = j
    BY <1>1 DEF Injective
  <2>1. i + 1 = j + 1
    BY <1>1, <1>2 DEF Injective
  <2> QED
    BY <1>1, <2>1
<1>5. Head(s) \in Elements(s) /\ Elements(Tail(s)) \subseteq Elements(s)
  BY <1>1, <1>2 DEF Elements
<1>6. Head(s) \notin Elements(Tail(s))
  BY <1>1, <1>2 DEF Elements, Injective
<1>7. Elements(s) \subseteq Elements(Tail(s)) \cup {Head(s)}
  <2> SUFFICES ASSUME NEW i \in 1 .. Len(s), i # 1
               PROVE  s[i] \in Elements(Tail(s))
    BY <1>1 DEF Elements
  <2>1. i - 1 \in DOMAIN Tail(s) /\ Tail(s)[i - 1] = s[i]
    BY <1>1, <1>3
  <2> QED
    BY <2>1 DEF Elements
<1> QED
  BY <1>4, <1>5, <1>6, <1>7

\* A packet is in one place at a time: not yet obtained, held by one producer, once in
\* the queue, or flushed.
OnePlace ==
  /\ Injective(queue)
  /\ IsFiniteSet(dropped)
  /\ Elements(queue) \cap dropped = {}
  /\ unread \cap (Elements(queue) \cup dropped) = {}
  /\ \A t \in Producers : item[t] \in Packets =>
       /\ item[t] \notin unread \cup Elements(queue) \cup dropped
       /\ \A u \in Producers : item[u] = item[t] => u = t

LEMMA OnePlaceInit == Init => OnePlace
  BY QueueAssumption, FS_EmptySet DEF Init, OnePlace, Injective, Elements

LEMMA OnePlaceNext == IInv /\ OnePlace /\ [Next]_vars => OnePlace'
<1> SUFFICES ASSUME IInv, OnePlace, [Next]_vars PROVE OnePlace'
  OBVIOUS
<1> USE QueueAssumption DEF history
<1>0. /\ queue \in Seq(Packets) /\ unread \subseteq Packets /\ dropped \subseteq Packets
      /\ item \in [Producers -> Packets \cup {NoPacket}]
  BY DEF IInv, TypeOK
<1>e. ASSUME NEW t \in Producers, EnQueueRef(t) PROVE OnePlace'
  <2>1. PICK p \in unread : /\ unread' = unread \ {p}
                            /\ \/ item' = [item EXCEPT ![t] = p]
                               \/ item' = item
    BY <1>e DEF EnQueueRef
  <2>2. queue' = queue /\ dropped' = dropped
    BY <1>e DEF EnQueueRef
  <2> QED
    BY <1>0, <2>1, <2>2 DEF OnePlace
<1>p. ASSUME NEW t \in Producers, EnQueuePush(t) PROVE OnePlace'
  <2>1. item[t] \in Packets
    BY <1>p DEF EnQueuePush, IInv, ItemHeld
  <2>2. /\ queue' = Append(queue, item[t]) /\ item' = [item EXCEPT ![t] = NoPacket]
        /\ unread' = unread /\ dropped' = dropped
    BY <1>p DEF EnQueuePush
  <2>3. Injective(queue') /\ Elements(queue') = Elements(queue) \cup {item[t]}
    BY <1>0, <2>1, <2>2, ElementsPush DEF OnePlace
  <2> QED
    BY <1>0, <2>1, <2>2, <2>3 DEF OnePlace
<1>t. ASSUME NEW t \in Consumers, DeQueueTake(t) PROVE OnePlace'
  <2>1. /\ queue # <<>> /\ queue' = Tail(queue)
        /\ item' = item /\ unread' = unread /\ dropped' = dropped
    BY <1>t DEF DeQueueTake
  <2>2. Injective(queue') /\ Elements(queue') \subseteq Elements(queue)
    BY <1>0, <2>1, ElementsPop DEF OnePlace
  <2> QED
    BY <2>1, <2>2 DEF OnePlace
<1>x. ASSUME NEW t \in Flushers, Flush(t) PROVE OnePlace'
  <2>1. /\ queue' = <<>> /\ dropped' = dropped \cup Elements(queue)
        /\ item' = item /\ unread' = unread
    BY <1>x DEF Flush
  <2>2. Injective(queue') /\ Elements(queue') = {}
    BY <2>1 DEF Injective, Elements
  <2>3. IsFiniteSet(dropped')
    BY <1>0, <2>1, ElementsFinite, FS_Union DEF OnePlace
  <2> QED
    BY <2>1, <2>2, <2>3 DEF OnePlace
<1>o. ASSUME UNCHANGED <<queue, dropped, unread, item>> PROVE OnePlace'
  BY <1>o DEF OnePlace
<1> QED
  BY <1>e, <1>p, <1>t, <1>x, <1>o
     DEF Next, EnQueue, DeQueue, FlushQueue, Lock, DeQueueCall, SpuriousWakeup,
         DeQueueRefFails, DeQueueEmpty, DeQueueWait, FlushCall, vars

\* The queued and the flushed packets are counted apart, so a flush moves bytes from
\* one sum to the other.
LEMMA BytesFlush ==
  ASSUME NEW S \in SUBSET Packets, IsFiniteSet(S),
         NEW D \in SUBSET Packets, IsFiniteSet(D), S \cap D = {}
  PROVE  Bytes(D \cup S) = Bytes(S) + Bytes(D) /\ Bytes(S) \in Nat /\ Bytes(D) \in Nat
<1> DEFINE Good(s) == Bytes(D \cup s) = Bytes(s) + Bytes(D) /\ Bytes(s) \in Nat
           Bad == {s \in SUBSET S : ~ Good(s)}
<1>0. Bad \subseteq SUBSET S
  OBVIOUS
<1>1. \A s \in SUBSET S : IsFiniteSet(s) /\ IsFiniteSet(D \cup s)
  BY FS_Subset, FS_Union
<1>2. Bytes(D) \in Nat
  <2>1. D \in SUBSET D /\ Sum(D)[D] \in Nat
    BY SumNat
  <2> QED
    BY <2>1, BytesDef
<1>3. Good({})
  BY <1>2, BytesEmpty
<1>4. ASSUME NEW s \in Bad, \A t \in Bad : t \subseteq s => t = s
      PROVE  FALSE
  <2>1. s # {}
    BY <1>3, <1>4
  <2>2. PICK x \in s : TRUE
    BY <2>1
  <2> DEFINE r == s \ {x}
  <2>3. Good(r)
    BY <1>4, <2>2
  <2>4. r \in SUBSET Packets /\ IsFiniteSet(r) /\ x \in Packets \ r /\ s = r \cup {x}
    BY <1>1, <2>2
  <2>5. /\ D \cup r \in SUBSET Packets /\ IsFiniteSet(D \cup r) /\ x \in Packets \ (D \cup r)
        /\ D \cup s = (D \cup r) \cup {x}
    BY <1>1, <2>2, <2>4
  <2>6. Bytes(s) = Size[x] + Bytes(r) /\ Bytes(D \cup s) = Size[x] + Bytes(D \cup r)
    BY <2>4, <2>5, BytesAdd
  <2>7. Size[x] \in Nat
    BY <2>4, QueueAssumption
  <2>8. Bytes(r) \in Nat /\ Bytes(D \cup r) = Bytes(r) + Bytes(D)
    BY <2>3
  <2> HIDE DEF r
  <2>9. Bytes(s) \in Nat /\ Bytes(D \cup s) = Bytes(s) + Bytes(D)
    BY <1>2, <2>6, <2>7, <2>8
  <2> QED
    BY <2>9
<1> HIDE DEF Bad
<1>5. Bad = {}
  BY <1>0, <1>4, SmallestSubset
<1> QED
  BY <1>2, <1>5 DEF Bad

\* size is the number of bytes queued and of bytes ever flushed, modulo its width, in
\* every reachable state: additions and subtractions stay paired whatever the threads
\* do, and nothing but flush makes the counter drift from the queue.
THEOREM SizeCorrect == Spec => []SizeCountsBytes
<1>1. Init => SizeCountsBytes
  <2> SUFFICES ASSUME Init PROVE SizeCountsBytes
    OBVIOUS
  <2>1. Elements(queue) = {} /\ dropped = {} /\ size = 0
    BY DEF Init, Elements
  <2>2. 0 % Word = 0
    BY QueueAssumption
  <2> QED
    BY <2>1, <2>2, BytesEmpty DEF SizeCountsBytes
<1>2. IInv /\ OnePlace /\ SizeCountsBytes /\ [Next]_vars => SizeCountsBytes'
  <2> SUFFICES ASSUME IInv, OnePlace, SizeCountsBytes, [Next]_vars
               PROVE  SizeCountsBytes'
    OBVIOUS
  <2> USE QueueAssumption DEF history
  <2>0. /\ queue \in Seq(Packets) /\ dropped \subseteq Packets
        /\ Elements(queue) \in SUBSET Packets /\ IsFiniteSet(Elements(queue))
        /\ IsFiniteSet(dropped) /\ Elements(queue) \cap dropped = {}
    BY ElementsFinite DEF IInv, TypeOK, OnePlace
  <2>1. Bytes(Elements(queue)) \in Nat /\ Bytes(dropped) \in Nat
    BY <2>0, BytesFlush
  <2>p. ASSUME NEW t \in Producers, EnQueuePush(t) PROVE SizeCountsBytes'
    <3>1. item[t] \in Packets \ Elements(queue)
      BY <2>p DEF EnQueuePush, IInv, ItemHeld, OnePlace
    <3>2. /\ queue' = Append(queue, item[t]) /\ dropped' = dropped
          /\ size' = (size + Size[item[t]]) % Word
      BY <2>p DEF EnQueuePush
    <3>3. Bytes(Elements(queue')) = Size[item[t]] + Bytes(Elements(queue))
      BY <2>0, <3>1, <3>2, ElementsPush, BytesAdd
    <3>4. Size[item[t]] \in Nat
      BY <3>1
    <3> DEFINE held == Bytes(Elements(queue)) + Bytes(dropped)
    <3>a. held \in Nat /\ size = held % Word
      BY <2>1 DEF SizeCountsBytes
    <3> HIDE DEF held
    <3>b. size' = (held + Size[item[t]]) % Word
      BY <3>a, <3>2, <3>4, WrappedSum
    <3>5. size' = (Bytes(Elements(queue)) + Bytes(dropped) + Size[item[t]]) % Word
      BY <3>b DEF held
    <3>6. Bytes(Elements(queue)) + Bytes(dropped) + Size[item[t]]
            = Bytes(Elements(queue')) + Bytes(dropped)
      BY <2>1, <3>3, <3>4
    <3> QED
      BY <3>2, <3>5, <3>6 DEF SizeCountsBytes
  <2>t. ASSUME NEW t \in Consumers, DeQueueTake(t) PROVE SizeCountsBytes'
    <3>1. /\ queue # <<>> /\ queue' = Tail(queue) /\ dropped' = dropped
          /\ size' = (size + Word - (Size[Head(queue)] % Word)) % Word
      BY <2>t DEF DeQueueTake
    <3> DEFINE h == Head(queue)
               rest == Elements(Tail(queue))
    <3>2. /\ rest \in SUBSET Packets /\ IsFiniteSet(rest) /\ h \in Packets \ rest
          /\ Elements(queue) = rest \cup {h}
      BY <2>0, <3>1, ElementsPop, ElementsFinite, PushPop DEF OnePlace
    <3>3. Bytes(Elements(queue)) = Size[h] + Bytes(rest) /\ Bytes(rest) \in Nat
      BY <3>2, BytesAdd
    <3>4. Size[h] \in Nat
      BY <3>2
    <3> HIDE DEF h, rest
    <3>5. size = (Bytes(rest) + Bytes(dropped) + Size[h]) % Word
      <4>1. Bytes(Elements(queue)) + Bytes(dropped) = Bytes(rest) + Bytes(dropped) + Size[h]
        BY <2>1, <3>3, <3>4
      <4> QED
        BY <4>1 DEF SizeCountsBytes
    <3>6. (size + Word - (Size[h] % Word)) % Word = (Bytes(rest) + Bytes(dropped)) % Word
      <4>1. Bytes(rest) + Bytes(dropped) \in Nat
        BY <2>1, <3>3
      <4> QED
        BY <3>4, <3>5, <4>1, WrappedSum
    <3> QED
      BY <3>1, <3>6 DEF SizeCountsBytes, h, rest
  <2>x. ASSUME NEW t \in Flushers, Flush(t) PROVE SizeCountsBytes'
    <3>1. queue' = <<>> /\ dropped' = dropped \cup Elements(queue) /\ size' = size
      BY <2>x DEF Flush
    <3>2. Elements(queue') = {}
      BY <3>1 DEF Elements
    <3>3. Bytes(dropped') = Bytes(Elements(queue)) + Bytes(dropped)
      BY <2>0, <3>1, BytesFlush
    <3>4. Bytes(Elements(queue')) + Bytes(dropped') = Bytes(Elements(queue)) + Bytes(dropped)
      BY <2>1, <3>2, <3>3, BytesEmpty
    <3> QED
      BY <3>1, <3>4 DEF SizeCountsBytes
  <2>o. ASSUME UNCHANGED <<queue, dropped, size>> PROVE SizeCountsBytes'
    BY <2>o DEF SizeCountsBytes
  <2> QED
    BY <2>p, <2>t, <2>x, <2>o
       DEF Next, EnQueue, DeQueue, FlushQueue, EnQueueRef, Lock, DeQueueCall,
           SpuriousWakeup, DeQueueRefFails, DeQueueEmpty, DeQueueWait, FlushCall, vars
<1> QED
  BY <1>1, <1>2, OnePlaceInit, OnePlaceNext, InductiveInvariant, PTL DEF Spec
===============================================================================
