-------------------------- MODULE OpenALPlayer_proofs --------------------------
(***************************************************************************)
(* Theorems about the circulating buffers of OpenALPlayer, for any number  *)
(* of buffers, any file and any number of failures.                        *)
(***************************************************************************)
EXTENDS MCPlayers, SequenceTheorems, TLAPS

Slot == [buffer : Buffers, frame : Nat]

\* What the variables hold.
Kinds ==
  /\ at \in {"open", "read", "prime", "play", "query", "while", "refill", "state", "ended"}
  /\ pos \in Nat /\ audio_buff \in Nat /\ audio_size \in {"zero", "failed", "some"}
  /\ processed \in Nat /\ bufferId \in Buffers \cup {NoBuffer} /\ lost \in Nat
  /\ primed \in {0, NBuffers} /\ deleted \in BOOLEAN
  /\ state \in {"initial", "playing", "stopped"}
  /\ source \in Seq(Slot) /\ played \in Nat

\* Before the buffers are filled nothing is queued, and none is out; afterwards one is
\* out exactly while its next frame is read.
InHand ==
  /\ primed = 0 => /\ at \in {"open", "read", "prime", "ended"}
                   /\ bufferId = NoBuffer /\ source = <<>> /\ lost = 0
  /\ primed # 0 => /\ at \notin {"open", "prime"}
                   /\ bufferId # NoBuffer <=> at \in {"read", "refill"}

\* What is left of the count: the buffer that is out was counted too.
Left == IF at \in {"read", "refill"} THEN processed - 1 ELSE processed

Counting == at = "while" \/ (primed # 0 /\ at \in {"read", "refill"})

\* As many buffers as are left to unqueue are queued, and a source that plays has gone
\* past them.
Counted ==
  Counting => /\ Left \in Nat /\ Left <= Len(source)
              /\ state = "playing" => Left <= played

Playing ==
  /\ played <= Len(source)
  /\ state = "playing" => played < Len(source)
  /\ state = "initial" => played = 0

HeardFirst(n) == \A i \in 1 .. n : i <= Len(source) => source[i].frame \in heard

\* What is counted as played was played.
WasHeard ==
  /\ Counting => HeardFirst(Left)
  /\ state = "playing" => HeardFirst(played)
  /\ at = "query" /\ state = "stopped" => HeardFirst(Len(source))

Alive == ~deleted => InHand /\ Counted /\ Playing /\ WasHeard /\ PoolConserved

IInv == Kinds /\ Alive

-------------------------------------------------------------------------------
LEMMA Constants ==
  /\ NBuffers \in Nat /\ NBuffers > 0 /\ 0 \notin Buffers
BY OpenALAssumption DEF Buffers

LEMMA InitInv == Init => IInv
<1> SUFFICES ASSUME Init PROVE IInv
  OBVIOUS
<1>1. Kinds
  BY EmptySeq DEF Init, Kinds, NoFrame, NoBuffer
<1>2. Len(source) = 0 /\ source = <<>> /\ played = 0 /\ state = "initial" /\ primed = 0
      /\ at = "open" /\ lost = 0 /\ bufferId = NoBuffer
  BY EmptySeq DEF Init
<1>3. InHand /\ Counted /\ Playing /\ WasHeard /\ PoolConserved
  BY <1>2 DEF InHand, Counted, Counting, Playing, WasHeard, PoolConserved
<1> QED
  BY <1>1, <1>3 DEF IInv, Alive

\* The steps of the thread that leave the source and the buffers alone, and are not
\* taken while buffers are counted.
LEMMA QuietSteps ==
  ASSUME IInv, ~deleted, ~Counting, ~Counting', Kinds',
         UNCHANGED <<bufferId, lost, primed, state, source, played, heard, deleted>>,
         InHand',
         at' = "query" => at = "query" \/ state # "stopped"
  PROVE  IInv'
BY DEF IInv, Alive, Counted, Playing, WasHeard, HeardFirst, PoolConserved

LEMMA DeviceStep == IInv /\ DevicePlays => IInv'
<1> SUFFICES ASSUME IInv, DevicePlays PROVE IInv'
  OBVIOUS
<1>1. /\ ~deleted /\ state = "playing" /\ played < Len(source) /\ played \in Nat
      /\ Len(source) \in Nat
  BY LenProperties DEF DevicePlays, IInv, Kinds, Alive, Playing
<1>2. /\ played' = played + 1 /\ heard' = heard \cup {source[played + 1].frame}
      /\ state' = IF played + 1 = Len(source) THEN "stopped" ELSE "playing"
      /\ UNCHANGED <<at, pos, audio_buff, audio_size, processed, bufferId, primed, lost,
                     source, deleted>>
  BY DEF DevicePlays, fileVars, poolVars
<1>3. Kinds' /\ InHand' /\ PoolConserved' /\ Playing'
  BY <1>1, <1>2 DEF IInv, Alive, Kinds, InHand, PoolConserved, Playing
<1>4. Counted'
  <2>1. Left' = Left /\ Counting' = Counting
    BY <1>2 DEF Left, Counting
  <2> QED
    BY <1>1, <1>2, <2>1 DEF IInv, Alive, Counted
<1>5. WasHeard'
  <2>1. Left' = Left /\ Counting' = Counting
    BY <1>2 DEF Left, Counting
  <2>2. \A n : HeardFirst(n) => HeardFirst(n)'
    BY <1>2 DEF HeardFirst
  <2>3. HeardFirst(played)'
    <3>1. \A i \in 1 .. played : source[i].frame \in heard
      BY <1>1 DEF IInv, Alive, WasHeard, HeardFirst
    <3> QED
      BY <1>1, <1>2, <3>1 DEF HeardFirst
  <2> QED
    <3>1. (Counting => HeardFirst(Left))'
      BY <1>1, <2>1, <2>2 DEF IInv, Alive, WasHeard
    <3>2. state' = "stopped" => Len(source)' = played'
      BY <1>1, <1>2
    <3> QED
      BY <3>1, <3>2, <2>3 DEF WasHeard, HeardFirst
<1> QED
  BY <1>3, <1>4, <1>5 DEF IInv, Alive

\* alSourcePlay starts from the head of the queue: nothing is counted as played.
LEMMA PlayStep ==
  ASSUME IInv, ~deleted, primed # 0, at \notin {"read", "refill"},
         at' = "query", alSourcePlay,
         UNCHANGED <<fileVars, poolVars, heard, deleted>>
  PROVE  IInv'
<1>1. /\ Len(source) \in Nat /\ (source # <<>> => Len(source) > 0)
      /\ (source = <<>> => Len(source) = 0)
  BY LenProperties, EmptySeq DEF IInv, Kinds
<1>2. /\ state' = IF source = <<>> THEN "stopped" ELSE "playing"
      /\ played' = 0 /\ source' = source
      /\ UNCHANGED <<pos, audio_buff, audio_size, processed, bufferId, primed, lost,
                     heard, deleted>>
  BY DEF alSourcePlay, fileVars, poolVars
<1>3. Kinds' /\ InHand' /\ Playing' /\ PoolConserved' /\ ~Counting'
  BY <1>1, <1>2 DEF IInv, Alive, Kinds, InHand, Playing, PoolConserved, Counting
<1>4. Counted' /\ WasHeard'
  BY <1>1, <1>2, <1>3 DEF Counted, WasHeard, HeardFirst
<1> QED
  BY <1>3, <1>4 DEF IInv, Alive

LEMMA QueryStep ==
  IInv /\ ~deleted /\ (FirstPlay \/ CountProcessed \/ EndWhile \/ CheckState) => IInv'
<1> SUFFICES ASSUME IInv, ~deleted,
                    FirstPlay \/ CountProcessed \/ EndWhile \/ CheckState
             PROVE  IInv'
  OBVIOUS
<1>0. Len(source) \in Nat
  BY LenProperties DEF IInv, Kinds
<1>1. CASE CountProcessed
  <2>1. /\ at = "query" /\ at' = "while" /\ processed' = BuffersProcessed
        /\ UNCHANGED <<pos, audio_buff, audio_size, bufferId, primed, lost, state, source,
                       played, heard, deleted>>
    BY <1>1 DEF CountProcessed, fileVars, sourceVars
  <2>2. /\ processed' \in Nat /\ processed' <= Len(source)
        /\ state # "stopped" => processed' = played
        /\ state = "stopped" => processed' = Len(source)
    BY <1>0, <2>1 DEF BuffersProcessed, IInv, Kinds, Alive, Playing
  <2>3. Kinds' /\ InHand' /\ Playing' /\ PoolConserved'
    BY <1>0, <2>1, <2>2 DEF IInv, Alive, Kinds, InHand, Playing, PoolConserved
  <2>4. Counting' /\ Left' = processed'
    BY <2>1 DEF Counting, Left
  <2>5. Counted'
    BY <2>1, <2>2, <2>4 DEF Counted, IInv, Kinds
  <2>6. \A i \in 1 .. processed' : i <= Len(source) => source[i].frame \in heard
    <3>1. CASE state = "initial"
      BY <2>2, <3>1 DEF IInv, Alive, Playing
    <3>2. CASE state = "playing"
      BY <2>2, <3>2 DEF IInv, Alive, WasHeard, HeardFirst
    <3>3. CASE state = "stopped"
      BY <2>1, <2>2, <3>3 DEF IInv, Alive, WasHeard, HeardFirst
    <3> QED
      BY <3>1, <3>2, <3>3 DEF IInv, Kinds
  <2>7. WasHeard'
    BY <2>1, <2>4, <2>6 DEF IInv, Alive, WasHeard, HeardFirst
  <2> QED
    BY <2>3, <2>5, <2>7 DEF IInv, Alive
<1>2. CASE EndWhile
  <2>1. /\ at = "while" /\ at' = "state"
        /\ UNCHANGED <<pos, audio_buff, audio_size, processed, bufferId, primed, lost,
                       state, source, played, heard, deleted>>
    BY <1>2 DEF EndWhile, fileVars, sourceVars, poolVars
  <2>2. Kinds' /\ InHand' /\ Playing' /\ PoolConserved' /\ ~Counting'
    BY <1>0, <2>1 DEF IInv, Alive, Kinds, InHand, Playing, PoolConserved, Counting
  <2> QED
    BY <2>1, <2>2 DEF IInv, Alive, Counted, WasHeard, HeardFirst
<1>3. CASE CheckState
  <2>1. /\ at = "state" /\ primed # 0
        /\ UNCHANGED <<fileVars, poolVars, heard, deleted>>
    BY <1>3 DEF CheckState, IInv, Alive, InHand
  <2>2. CASE at' = "query" /\ alSourcePlay
    BY <2>1, <2>2, PlayStep
  <2>3. CASE /\ UNCHANGED sourceVars
             /\ \/ state = "playing" /\ at' = "query"
                \/ at' = "ended"
    <3>1. UNCHANGED <<pos, audio_buff, audio_size, processed, bufferId, primed, lost,
                      state, source, played, heard, deleted>>
      BY <2>1, <2>3 DEF fileVars, poolVars, sourceVars
    <3>2. ~Counting /\ ~Counting'
      BY <2>1, <2>3 DEF Counting
    <3>3. Kinds' /\ InHand'
      BY <2>1, <2>3, <3>1 DEF IInv, Alive, Kinds, InHand
    <3> QED
      BY <2>3, <3>1, <3>2, <3>3, QuietSteps
  <2> QED
    BY <1>3, <2>2, <2>3 DEF CheckState
<1>4. CASE FirstPlay
  BY <1>4, PlayStep DEF FirstPlay, IInv, Alive, InHand
<1> QED
  BY <1>1, <1>2, <1>3, <1>4

LEMMA ReadStep == IInv /\ ~deleted /\ (OpenFile \/ get_one_audio_frame) => IInv'
<1> SUFFICES ASSUME IInv, ~deleted, OpenFile \/ get_one_audio_frame PROVE IInv'
  OBVIOUS
<1>1. CASE OpenFile
  <2>1. /\ at = "open" /\ at' \in {"read", "ended"} /\ primed = 0
        /\ UNCHANGED <<pos, audio_buff, audio_size, processed, bufferId, primed, lost,
                       state, source, played, heard, deleted>>
    BY <1>1 DEF OpenFile, fileVars, poolVars, sourceVars, IInv, Alive, InHand
  <2>2. Kinds' /\ InHand' /\ ~Counting /\ ~Counting'
    BY <2>1 DEF IInv, Alive, Kinds, InHand, Counting
  <2> QED
    BY <2>1, <2>2, QuietSteps
<1>2. CASE get_one_audio_frame
  <2>1. /\ at = "read"
        /\ at' \in {"read", IF primed = 0 THEN "prime" ELSE "refill"}
        /\ UNCHANGED <<processed, bufferId, primed, lost, state, source, played, heard,
                       deleted>>
    BY <1>2 DEF get_one_audio_frame, ReadEnd, ReadOther, ReadAudio, ReadFails, Got,
                poolVars, sourceVars
  <2>2. pos' \in Nat /\ audio_buff' \in Nat /\ audio_size' \in {"zero", "failed", "some"}
    BY <1>2 DEF get_one_audio_frame, ReadEnd, ReadOther, ReadAudio, ReadFails, Got, IInv,
                Kinds
  <2>3. Kinds' /\ InHand' /\ PoolConserved' /\ Playing'
    BY <2>1, <2>2 DEF IInv, Alive, Kinds, InHand, PoolConserved, Playing
  <2>4. Counting' = Counting /\ (Counting => Left' = Left)
    BY <2>1 DEF Counting, Left
  <2>5. at' # "query" /\ (\A n : HeardFirst(n) => HeardFirst(n)')
    BY <2>1 DEF HeardFirst
  <2>6. Counted' /\ WasHeard'
    BY <2>1, <2>4, <2>5 DEF IInv, Alive, Counted, WasHeard, HeardFirst
  <2> QED
    BY <2>3, <2>6 DEF IInv, Alive
<1> QED
  BY <1>1, <1>2

LEMMA PrimeStep == IInv /\ ~deleted /\ Prime => IInv'
<1> SUFFICES ASSUME IInv, ~deleted, Prime PROVE IInv'
  OBVIOUS
<1>1. /\ at = "prime" /\ primed = 0 /\ bufferId = NoBuffer /\ source = <<>> /\ lost = 0
      /\ Len(source) = 0
  BY EmptySeq DEF Prime, IInv, Alive, InHand
<1>2. UNCHANGED <<pos, audio_buff, audio_size, processed, bufferId, lost, state, played,
                  heard, deleted>>
  BY DEF Prime, fileVars
<1>3. played = 0 /\ state # "playing"
  BY <1>1 DEF IInv, Kinds, Alive, Playing
<1>4. CASE at' = "ended" /\ UNCHANGED <<primed, source>>
  <2>1. Kinds' /\ InHand' /\ ~Counting /\ ~Counting'
    BY <1>1, <1>2, <1>4 DEF IInv, Alive, Kinds, InHand, Counting
  <2> QED
    BY <1>2, <1>4, <2>1, QuietSteps
<1>5. CASE /\ source' = [b \in Buffers |-> [buffer |-> b, frame |-> audio_buff]]
           /\ primed' = NBuffers /\ at' = "play"
  <2>1. source' \in [1 .. NBuffers -> Slot]
    BY <1>5 DEF Slot, Buffers, IInv, Kinds
  <2>2. source' \in Seq(Slot) /\ Len(source') = NBuffers
    BY <2>1, Constants, SeqDef, LenProperties
  <2>3. Kinds' /\ InHand' /\ ~Counting'
    BY <1>1, <1>2, <1>5, <2>2, Constants DEF IInv, Kinds, InHand, Counting
  <2>4. Playing' /\ PoolConserved' /\ Counted' /\ WasHeard'
    BY <1>1, <1>2, <1>3, <1>5, <2>2, <2>3, Constants
    DEF Playing, PoolConserved, Counted, WasHeard
  <2> QED
    BY <2>3, <2>4 DEF IInv, Alive
<1> QED
  BY <1>4, <1>5 DEF Prime

LEMMA UnqueueStep ==
  IInv /\ ~deleted /\ UnqueueBuffer => IInv' /\ Head(source).frame \in heard
<1> SUFFICES ASSUME IInv, ~deleted, UnqueueBuffer
             PROVE  IInv' /\ Head(source).frame \in heard
  OBVIOUS
<1>1. /\ at = "while" /\ at' = "read" /\ processed \in Nat /\ processed > 0 /\ primed # 0
      /\ bufferId = NoBuffer
      /\ bufferId' = Head(source).buffer /\ source' = Tail(source)
      /\ played' = (IF played = 0 THEN 0 ELSE played - 1)
      /\ UNCHANGED <<pos, audio_buff, audio_size, processed, primed, lost, state, heard,
                     deleted>>
  BY DEF UnqueueBuffer, fileVars, IInv, Kinds, Alive, InHand
<1>2. /\ Counting /\ Left = processed /\ processed <= Len(source)
      /\ state = "playing" => processed <= played
  BY <1>1 DEF Counting, Left, IInv, Alive, Counted
<1>3. source \in Seq(Slot) /\ source # <<>> /\ Len(source) \in Nat /\ Len(source) > 0
  BY <1>1, <1>2, EmptySeq, LenProperties DEF IInv, Kinds
<1>4. /\ Head(source) \in Slot /\ Tail(source) \in Seq(Slot)
      /\ Len(Tail(source)) = Len(source) - 1
      /\ \A i \in 1 .. Len(Tail(source)) : Tail(source)[i] = source[i + 1]
      /\ Head(source) = source[1]
  <2>1. Head(source) = source[1]
    BY <1>3
  <2> QED
    BY <1>3, <2>1, HeadTailProperties
<1>5. Head(source).frame \in heard
  BY <1>1, <1>2, <1>3, <1>4 DEF IInv, Alive, WasHeard, HeardFirst
<1>6. bufferId' \in Buffers /\ bufferId' # NoBuffer
  BY <1>1, <1>4, Constants DEF Slot, NoBuffer
<1>7. Kinds' /\ InHand'
  <2>1. played' \in Nat
    BY <1>1 DEF IInv, Kinds
  <2> QED
    BY <1>1, <1>4, <1>6, <2>1 DEF IInv, Kinds, InHand
<1>8. Playing' /\ Counted' /\ PoolConserved'
  <2>1. Left' = processed - 1 /\ Counting'
    BY <1>1 DEF Left, Counting
  <2>2. Counted'
    BY <1>1, <1>2, <1>3, <1>4, <2>1 DEF Counted, IInv, Kinds
  <2>3. Playing'
    BY <1>1, <1>2, <1>3, <1>4 DEF Playing, IInv, Kinds, Alive
  <2>4. PoolConserved'
    BY <1>1, <1>3, <1>4, <1>6 DEF PoolConserved, IInv, Kinds, Alive
  <2> QED
    BY <2>2, <2>3, <2>4
<1>9. WasHeard'
  <2>1. Left' = processed - 1
    BY <1>1 DEF Left
  <2>2. \A i \in 1 .. processed - 1 : i <= Len(Tail(source)) => Tail(source)[i].frame \in heard
    BY <1>1, <1>2, <1>3, <1>4 DEF IInv, Alive, WasHeard, HeardFirst
  <2>3. state = "playing" =>
          \A i \in 1 .. played' : i <= Len(Tail(source)) => Tail(source)[i].frame \in heard
    BY <1>1, <1>3, <1>4 DEF IInv, Kinds, Alive, WasHeard, HeardFirst
  <2> QED
    BY <1>1, <2>1, <2>2, <2>3 DEF WasHeard, HeardFirst
<1> QED
  BY <1>5, <1>7, <1>8, <1>9 DEF IInv, Alive

LEMMA RefillStep == IInv /\ ~deleted /\ Refill => IInv'
<1> SUFFICES ASSUME IInv, ~deleted, Refill PROVE IInv'
  OBVIOUS
<1>1. /\ at = "refill" /\ at' = "while" /\ processed' = processed - 1 /\ primed # 0
      /\ bufferId \in Buffers /\ bufferId # NoBuffer /\ bufferId' = NoBuffer
      /\ UNCHANGED <<pos, audio_buff, audio_size, primed, state, played, heard, deleted>>
  BY DEF Refill, fileVars, IInv, Kinds, Alive, InHand
<1>2. /\ Counting /\ Counting' /\ Left = processed - 1 /\ Left' = processed - 1
      /\ Len(source) \in Nat
  BY <1>1, LenProperties DEF Counting, Left, IInv, Kinds
<1>3. /\ processed - 1 \in Nat /\ processed - 1 <= Len(source)
      /\ state = "playing" => processed - 1 <= played
  BY <1>2 DEF IInv, Alive, Counted
<1>4. /\ source' \in Seq(Slot) /\ Len(source') \in Nat /\ Len(source) <= Len(source')
      /\ \A i \in 1 .. Len(source) : source'[i] = source[i]
      /\ lost' \in Nat /\ Len(source') + lost' = Len(source) + lost + 1
  <2>1. CASE audio_size = "some"
    <3>1. /\ source' = Append(source, [buffer |-> bufferId, frame |-> audio_buff])
          /\ lost' = lost
      BY <2>1 DEF Refill
    <3>2. [buffer |-> bufferId, frame |-> audio_buff] \in Slot
      BY <1>1 DEF Slot, IInv, Kinds
    <3> QED
      BY <1>2, <3>1, <3>2, AppendProperties DEF IInv, Kinds
  <2>2. CASE audio_size # "some"
    BY <1>2, <2>2 DEF Refill, IInv, Kinds
  <2> QED
    BY <2>1, <2>2
<1>5. Kinds' /\ InHand'
  BY <1>1, <1>3, <1>4 DEF IInv, Kinds, InHand
<1>6. Playing' /\ Counted' /\ PoolConserved'
  BY <1>1, <1>2, <1>3, <1>4 DEF IInv, Kinds, Alive, Playing, Counted, PoolConserved
<1>7. WasHeard'
  <2>1. \A i \in 1 .. processed - 1 : source[i].frame \in heard
    BY <1>2, <1>3 DEF IInv, Alive, WasHeard, HeardFirst
  <2>2. state = "playing" => \A i \in 1 .. played : i <= Len(source) /\ source[i].frame \in heard
    BY <1>2 DEF IInv, Kinds, Alive, Playing, WasHeard, HeardFirst
  <2> QED
    BY <1>1, <1>2, <1>3, <1>4, <2>1, <2>2, SMTT(30) DEF WasHeard, HeardFirst
<1> QED
  BY <1>5, <1>6, <1>7 DEF IInv, Alive

-------------------------------------------------------------------------------
LEMMA DestructorStep == IInv /\ Destructor => IInv'
<1> SUFFICES ASSUME IInv, Destructor PROVE IInv'
  OBVIOUS
<1>1. /\ deleted' = TRUE /\ state' = "stopped" /\ source' = <<>> /\ played' = 0
      /\ UNCHANGED <<at, pos, audio_buff, audio_size, processed, bufferId, primed, lost>>
  BY DEF Destructor, fileVars, poolVars
<1>2. <<>> \in Seq(Slot)
  BY EmptySeq
<1>3. Kinds'
  <2>1. source' \in Seq(Slot) /\ played' \in Nat /\ state' \in {"initial", "playing", "stopped"}
        /\ deleted' \in BOOLEAN
    BY <1>1, <1>2
  <2> QED
    BY <1>1, <2>1 DEF IInv, Kinds
<1>4. Alive'
  BY <1>1 DEF Alive
<1> QED
  BY <1>3, <1>4 DEF IInv

LEMMA NextInv == IInv /\ [Next]_vars => IInv'
<1> SUFFICES ASSUME IInv, [Next]_vars PROVE IInv'
  OBVIOUS
<1>1. CASE open_play_all
  BY <1>1, ReadStep, PrimeStep, QueryStep, UnqueueStep, RefillStep DEF open_play_all
<1>2. CASE UNCHANGED vars
  BY <1>2 DEF vars, fileVars, poolVars, sourceVars, IInv, Kinds, Alive, InHand, Counting,
              Counted, Left, Playing, WasHeard, HeardFirst, PoolConserved
<1> QED
  BY <1>1, <1>2, DeviceStep, DestructorStep DEF Next

THEOREM Invariance == Spec => []IInv
BY InitInv, NextInv, PTL DEF Spec

-------------------------------------------------------------------------------
(* What open_play_all does with its buffers.                               *)

\* Whatever the file and whatever fails, each buffer is queued, in the thread's hands
\* or was given up for want of a frame.
THEOREM BuffersConserved == Spec => []PoolConserved
<1>1. IInv => PoolConserved
  BY DEF IInv, Alive, PoolConserved
<1> QED
  BY Invariance, <1>1, PTL

\* No buffer is refilled whose frame nobody heard, although what OpenAL counts as
\* processed may change between the count and the last unqueue.
THEOREM NoFrameSkipped == Spec => NothingSkipped
<1> DEFINE Shorter == ~deleted' /\ Len(source') < Len(source) => Head(source).frame \in heard
<1>1. IInv /\ [Next]_vars => [Shorter]_vars
  <2> SUFFICES ASSUME IInv, Next, ~deleted', Len(source') < Len(source)
               PROVE  Head(source).frame \in heard
    OBVIOUS
  <2>1. Len(source) \in Nat /\ ~deleted
    <3>1. deleted => deleted'
      BY DEF Next, open_play_all, DevicePlays, Destructor
    <3> QED
      BY <3>1, LenProperties DEF IInv, Kinds
  <2>2. source' # source
    BY <2>1
  <2>3. CASE UnqueueBuffer
    BY <2>1, <2>3, UnqueueStep
  <2>4. CASE Refill
    <3>1. source' = Append(source, [buffer |-> bufferId, frame |-> audio_buff])
      BY <2>2, <2>4 DEF Refill
    <3>2. [buffer |-> bufferId, frame |-> audio_buff] \in Slot
      BY <2>1, <2>4 DEF Refill, IInv, Kinds, Alive, InHand, Slot
    <3>3. Len(source') = Len(source) + 1
      BY <3>1, <3>2, AppendProperties DEF IInv, Kinds
    <3> QED
      BY <2>1, <3>3
  <2>5. CASE Prime
    <3>1. source = <<>> /\ Len(source) = 0 /\ source' \in Seq(Slot)
      BY <2>1, <2>5, PrimeStep, EmptySeq DEF Prime, IInv, Kinds, Alive, InHand
    <3>2. Len(source') \in Nat
      BY <3>1, LenProperties
    <3> QED
      BY <3>1, <3>2
  <2>6. CASE OpenFile \/ get_one_audio_frame \/ FirstPlay \/ CountProcessed \/ EndWhile
             \/ CheckState \/ DevicePlays \/ Destructor
    BY <2>2, <2>6 DEF OpenFile, get_one_audio_frame, FirstPlay, CountProcessed, EndWhile,
                      CheckState, DevicePlays, Destructor, alSourcePlay, sourceVars
  <2> QED
    BY <2>3, <2>4, <2>5, <2>6 DEF Next, open_play_all
<1> QED
  BY Invariance, <1>1, PTL DEF Spec, NothingSkipped

-------------------------------------------------------------------------------
(* The order of the frames, and the ranges of the variables.               *)

\* Frames are heard and queued after they are read; what is queued once more is newer
\* than all before it.
Bounded ==
  /\ pos <= Len(File) /\ audio_buff <= pos
  /\ failures \in Nat /\ failures <= MaxFailures
  /\ processed <= NBuffers /\ lost <= NBuffers
  /\ audio_size = "some" => audio_buff > 0
  /\ heard \subseteq 1 .. audio_buff
  /\ \A i \in 1 .. Len(source) : source[i].frame \in 1 .. audio_buff
  /\ primed = 0 => heard = {}
  /\ deleted => source = <<>> /\ played = 0
  /\ at = "refill" /\ audio_size = "some" =>
       \A i \in 1 .. Len(source) : source[i].frame < audio_buff

\* Only the frame the source was filled with, the first one, may be queued twice.
Since(first) ==
  /\ primed # 0 => first <= audio_buff
  /\ \A f \in heard : f >= first
  /\ \A i \in 1 .. Len(source) : source[i].frame >= first
  /\ \A i, j \in 1 .. Len(source) :
       i < j => \/ source[i].frame < source[j].frame
                \/ source[i].frame = first /\ source[j].frame = first

OrderInv == IInv /\ Bounded /\ \E first \in Nat : Since(first)

LEMMA OrderInit == Init => OrderInv
<1> SUFFICES ASSUME Init PROVE OrderInv
  OBVIOUS
<1>1. /\ pos = 0 /\ audio_buff = 0 /\ failures = 0 /\ processed = 0 /\ lost = 0
      /\ audio_size = "zero" /\ heard = {} /\ primed = 0 /\ deleted = FALSE /\ at = "open"
      /\ Len(source) = 0 /\ Len(File) \in Nat /\ MaxFailures \in Nat /\ NBuffers \in Nat
  BY OpenALAssumption, EmptySeq, LenProperties DEF Init, NoFrame
<1>2. Bounded
  BY <1>1 DEF Bounded
<1>3. Since(0)
  BY <1>1 DEF Since
<1> QED
  BY <1>2, <1>3, InitInv DEF OrderInv

\* What follows from the earlier invariant about the numbers.
LEMMA Numbers ==
  ASSUME IInv
  PROVE  /\ pos \in Nat /\ audio_buff \in Nat /\ processed \in Nat /\ lost \in Nat
         /\ Len(source) \in Nat /\ Len(File) \in Nat /\ MaxFailures \in Nat /\ NBuffers \in Nat
         /\ \A i \in 1 .. Len(source) : source[i] \in Slot /\ source[i].frame \in Nat
         /\ ~deleted => Len(source) <= NBuffers /\ lost <= NBuffers
<1>1. /\ pos \in Nat /\ audio_buff \in Nat /\ processed \in Nat /\ lost \in Nat
      /\ source \in Seq(Slot) /\ primed \in {0, NBuffers}
  BY DEF IInv, Kinds
<1>2. /\ Len(source) \in Nat /\ Len(File) \in Nat /\ MaxFailures \in Nat /\ NBuffers \in Nat
      /\ NBuffers > 0
  BY <1>1, OpenALAssumption, LenProperties
<1>3. \A i \in 1 .. Len(source) : source[i] \in Slot
  BY <1>1, LenProperties
<1>4. \A r \in Slot : r.frame \in Nat
  BY DEF Slot
<1>5. ~deleted => Len(source) <= NBuffers /\ lost <= NBuffers
  <2>1. CASE primed = 0
    BY <1>1, <1>2, <2>1, EmptySeq DEF IInv, Alive, InHand
  <2>2. CASE primed # 0
    BY <1>1, <1>2, <2>2 DEF IInv, Alive, PoolConserved
  <2> QED
    BY <2>1, <2>2
<1> QED
  BY <1>1, <1>2, <1>3, <1>4, <1>5

\* The steps that move no frame.
LEMMA OrderSame ==
  ASSUME OrderInv, IInv', UNCHANGED <<audio_buff, source, heard>>,
         pos' \in {pos, pos + 1}, pos' <= Len(File),
         failures' \in Nat, failures' <= MaxFailures,
         processed' <= NBuffers, lost' <= NBuffers,
         primed' = primed, deleted' = deleted, deleted => played' = played,
         audio_size' = "some" => at' # "refill" /\ audio_size = "some"
  PROVE  OrderInv'
<1>1. pos \in Nat /\ audio_buff \in Nat
  BY Numbers DEF OrderInv
<1>2. Bounded'
  BY <1>1 DEF OrderInv, Bounded
<1>3. ASSUME NEW first \in Nat, Since(first) PROVE Since(first)'
  BY <1>3 DEF Since
<1> QED
  BY <1>2, <1>3 DEF OrderInv

LEMMA OrderRead == OrderInv /\ IInv' /\ ~deleted /\ (OpenFile \/ get_one_audio_frame) => OrderInv'
<1> SUFFICES ASSUME OrderInv, IInv', ~deleted, OpenFile \/ get_one_audio_frame
             PROVE  OrderInv'
  OBVIOUS
<1>0. /\ pos \in Nat /\ audio_buff \in Nat /\ Len(File) \in Nat /\ failures \in Nat
      /\ MaxFailures \in Nat /\ NBuffers \in Nat /\ Len(source) \in Nat
      /\ \A i \in 1 .. Len(source) : source[i].frame \in Nat
      /\ pos <= Len(File) /\ audio_buff <= pos /\ failures <= MaxFailures
      /\ processed <= NBuffers /\ lost <= NBuffers
  BY Numbers DEF OrderInv, Bounded
<1>1. UNCHANGED <<processed, bufferId, primed, lost, state, source, played, heard, deleted>>
  BY DEF OpenFile, get_one_audio_frame, fileVars, poolVars, sourceVars
<1>2. CASE OpenFile
  <2>1. /\ at' # "refill" /\ UNCHANGED <<pos, audio_buff, audio_size, failures>>
    BY <1>2 DEF OpenFile, fileVars
  <2> QED
    BY <1>0, <1>1, <2>1, OrderSame
<1>3. CASE ReadEnd \/ ReadOther \/ ReadFails
  <2>1. /\ audio_size' # "some" /\ audio_buff' = audio_buff
        /\ pos' \in {pos, pos + 1} /\ pos' <= Len(File)
        /\ failures' \in Nat /\ failures' <= MaxFailures
    BY <1>0, <1>3 DEF ReadEnd, ReadOther, ReadFails, Got
  <2> QED
    BY <1>0, <1>1, <2>1, OrderSame
<1>4. CASE ReadAudio
  <2>1. /\ pos' = pos + 1 /\ audio_buff' = pos + 1 /\ pos < Len(File)
        /\ audio_size' = "some" /\ failures' = failures
    BY <1>4 DEF ReadAudio, Got
  <2>2. Bounded'
    BY <1>0, <1>1, <2>1 DEF OrderInv, Bounded
  <2>3. ASSUME NEW first \in Nat, Since(first) PROVE Since(first)'
    BY <1>0, <1>1, <2>1, <2>3 DEF Since
  <2> QED
    BY <2>2, <2>3 DEF OrderInv
<1> QED
  BY <1>2, <1>3, <1>4 DEF get_one_audio_frame

LEMMA OrderQuery ==
  OrderInv /\ IInv' /\ ~deleted /\ (FirstPlay \/ CountProcessed \/ EndWhile \/ CheckState)
    => OrderInv'
<1> SUFFICES ASSUME OrderInv, IInv', ~deleted,
                    FirstPlay \/ CountProcessed \/ EndWhile \/ CheckState
             PROVE  OrderInv'
  OBVIOUS
<1>1. /\ at' \in {"query", "while", "state", "ended"}
      /\ UNCHANGED <<pos, audio_buff, audio_size, failures, source, primed, lost, heard, deleted>>
  BY DEF FirstPlay, CountProcessed, EndWhile, CheckState, alSourcePlay, fileVars, poolVars,
         sourceVars
<1>2. /\ pos \in Nat /\ Len(source) \in Nat /\ Len(source) <= NBuffers
      /\ pos <= Len(File) /\ failures \in Nat /\ failures <= MaxFailures /\ lost <= NBuffers
      /\ processed <= NBuffers
  BY Numbers DEF OrderInv, Bounded
<1>3. processed' <= NBuffers
  <2>1. CASE CountProcessed
    <3>1. processed' = BuffersProcessed /\ played \in Nat /\ played <= Len(source)
      BY <2>1 DEF CountProcessed, OrderInv, IInv, Kinds, Alive, Playing
    <3> QED
      BY <1>2, <3>1, Numbers DEF BuffersProcessed, OrderInv
  <2>2. CASE FirstPlay \/ EndWhile \/ CheckState
    BY <1>2, <2>2 DEF FirstPlay, EndWhile, CheckState, poolVars
  <2> QED
    BY <2>1, <2>2
<1> QED
  BY <1>1, <1>2, <1>3, OrderSame

LEMMA OrderPrime == OrderInv /\ IInv' /\ ~deleted /\ Prime => OrderInv'
<1> SUFFICES ASSUME OrderInv, IInv', ~deleted, Prime PROVE OrderInv'
  OBVIOUS
<1>1. /\ at = "prime" /\ primed = 0 /\ heard = {} /\ source = <<>> /\ lost = 0
      /\ UNCHANGED <<pos, audio_buff, audio_size, failures, processed, lost, played, heard,
                     deleted>>
  BY DEF Prime, OrderInv, IInv, Alive, InHand, Bounded, fileVars
<1>2. /\ pos \in Nat /\ pos <= Len(File) /\ failures \in Nat /\ failures <= MaxFailures
      /\ lost <= NBuffers /\ processed <= NBuffers /\ audio_buff \in Nat /\ NBuffers \in Nat
  BY Numbers DEF OrderInv, Bounded
<1>3. CASE at' = "ended" /\ UNCHANGED <<primed, source>> /\ audio_size # "some"
  BY <1>1, <1>2, <1>3, OrderSame
<1>4. CASE /\ source' = [b \in Buffers |-> [buffer |-> b, frame |-> audio_buff]]
           /\ primed' = NBuffers /\ at' = "play" /\ audio_size = "some"
  <2>1. Len(source') = NBuffers
    <3>1. source' \in [1 .. NBuffers -> Slot]
      BY <1>2, <1>4 DEF Slot, Buffers
    <3> QED
      BY <1>2, <3>1, SeqDef, LenProperties
  <2>2. \A i \in 1 .. Len(source') : source'[i].frame = audio_buff
    BY <1>4, <2>1 DEF Buffers
  <2>3. audio_buff > 0
    BY <1>4 DEF OrderInv, Bounded
  <2>4. Bounded'
    BY <1>1, <1>2, <1>4, <2>1, <2>2, <2>3, Constants DEF OrderInv, Bounded
  <2>5. Since(audio_buff)'
    BY <1>1, <1>2, <2>1, <2>2 DEF Since
  <2> QED
    BY <1>1, <1>2, <2>4, <2>5 DEF OrderInv
<1> QED
  BY <1>3, <1>4 DEF Prime

LEMMA OrderUnqueue == OrderInv /\ IInv' /\ ~deleted /\ UnqueueBuffer => OrderInv'
<1> SUFFICES ASSUME OrderInv, IInv', ~deleted, UnqueueBuffer PROVE OrderInv'
  OBVIOUS
<1>1. /\ at = "while" /\ at' = "read" /\ processed > 0 /\ source' = Tail(source)
      /\ UNCHANGED <<pos, audio_buff, audio_size, failures, processed, primed, lost, heard,
                     deleted>>
  BY DEF UnqueueBuffer, fileVars
<1>2. source # <<>> /\ source \in Seq(Slot)
  <2>1. processed <= Len(source)
    BY <1>1 DEF OrderInv, IInv, Alive, Counted, Counting, Left
  <2> QED
    BY <1>1, <2>1, Numbers, EmptySeq DEF OrderInv, IInv, Kinds
<1>3. /\ Len(source') = Len(source) - 1 /\ Len(source) \in Nat
      /\ \A i \in 1 .. Len(source') : source'[i] = source[i + 1] /\ i + 1 \in 1 .. Len(source)
  BY <1>1, <1>2, HeadTailProperties, LenProperties
<1>4. Bounded'
  BY <1>1, <1>3 DEF OrderInv, Bounded
<1>5. ASSUME NEW first \in Nat, Since(first) PROVE Since(first)'
  BY <1>1, <1>3, <1>5, SMTT(30) DEF Since
<1> QED
  BY <1>4, <1>5 DEF OrderInv

LEMMA OrderRefill == OrderInv /\ IInv' /\ ~deleted /\ Refill => OrderInv'
<1> SUFFICES ASSUME OrderInv, IInv', ~deleted, Refill PROVE OrderInv'
  OBVIOUS
<1>1. /\ at = "refill" /\ at' = "while" /\ primed # 0 /\ processed' = processed - 1
      /\ UNCHANGED <<pos, audio_buff, audio_size, failures, primed, heard, deleted>>
  BY DEF Refill, OrderInv, IInv, Alive, InHand, fileVars
<1>2. /\ pos \in Nat /\ pos <= Len(File) /\ failures \in Nat /\ failures <= MaxFailures
      /\ audio_buff \in Nat /\ NBuffers \in Nat /\ processed \in Nat /\ processed <= NBuffers
      /\ lost' <= NBuffers
  <2>1. /\ Len(source)' \in Nat /\ lost' \in Nat /\ primed \in {0, NBuffers} /\ NBuffers \in Nat
        /\ PoolConserved'
    BY <1>1, Numbers, LenProperties DEF IInv, Kinds, OrderInv, Alive
  <2>2. lost' <= NBuffers
    BY <1>1, <2>1 DEF PoolConserved
  <2> QED
    BY <2>2, Numbers DEF OrderInv, Bounded
<1>3. CASE source' = source /\ audio_size # "some"
  BY <1>1, <1>2, <1>3, OrderSame
<1>4. CASE /\ source' = Append(source, [buffer |-> bufferId, frame |-> audio_buff])
           /\ audio_size = "some"
  <2>1. /\ Len(source') = Len(source) + 1 /\ Len(source) \in Nat
        /\ \A i \in 1 .. Len(source) : source'[i] = source[i] /\ source[i].frame \in Nat
        /\ source'[Len(source) + 1].frame = audio_buff
    <3>1. [buffer |-> bufferId, frame |-> audio_buff] \in Slot
      BY <1>1, <1>2 DEF Slot, OrderInv, IInv, Kinds, Alive, InHand
    <3> QED
      BY <1>4, <3>1, Numbers, AppendProperties, SMTT(30) DEF OrderInv, IInv, Kinds
  <2>2. \A i \in 1 .. Len(source') : i \in 1 .. Len(source) \/ i = Len(source) + 1
    BY <2>1
  <2>3. /\ \A i \in 1 .. Len(source) : source[i].frame < audio_buff
        /\ audio_buff > 0
    BY <1>1, <1>4 DEF OrderInv, Bounded
  <2>4. \A i \in 1 .. Len(source') : source'[i].frame \in 1 .. audio_buff
    BY <1>2, <2>1, <2>2, <2>3 DEF OrderInv, Bounded
  <2>5. Bounded'
    BY <1>1, <1>2, <2>4 DEF OrderInv, Bounded
  <2>6. ASSUME NEW first \in Nat, Since(first) PROVE Since(first)'
    <3>1. \A i \in 1 .. Len(source') : source'[i].frame >= first
      BY <1>1, <1>2, <2>1, <2>2, <2>6 DEF Since
    <3>2. ASSUME NEW i \in 1 .. Len(source'), NEW j \in 1 .. Len(source'), i < j
          PROVE  \/ source'[i].frame < source'[j].frame
                 \/ source'[i].frame = first /\ source'[j].frame = first
      <4>1. i \in 1 .. Len(source)
        BY <2>1, <3>2
      <4>2. CASE j \in 1 .. Len(source)
        BY <2>1, <2>6, <3>2, <4>1, <4>2 DEF Since
      <4>3. CASE j = Len(source) + 1
        BY <2>1, <2>3, <4>1, <4>3
      <4> QED
        BY <2>2, <4>2, <4>3
    <3> QED
      BY <1>1, <2>6, <3>1, <3>2 DEF Since
  <2> QED
    BY <2>5, <2>6 DEF OrderInv
<1> QED
  BY <1>3, <1>4 DEF Refill

LEMMA OrderDevice == OrderInv /\ IInv' /\ DevicePlays => OrderInv'
<1> SUFFICES ASSUME OrderInv, IInv', DevicePlays PROVE OrderInv'
  OBVIOUS
<1>1. /\ ~deleted /\ state = "playing" /\ heard' = heard \cup {source[played + 1].frame}
      /\ UNCHANGED <<at, pos, audio_buff, audio_size, failures, processed, primed, lost,
                     source, deleted>>
  BY DEF DevicePlays, fileVars, poolVars
<1>2. played + 1 \in 1 .. Len(source) /\ source # <<>>
  <2>1. played < Len(source) /\ played \in Nat
    BY <1>1 DEF OrderInv, IInv, Kinds, Alive, Playing
  <2> QED
    BY <2>1, Numbers, EmptySeq DEF OrderInv
<1>3. primed # 0
  BY <1>1, <1>2 DEF OrderInv, IInv, Alive, InHand
<1>4. Bounded'
  BY <1>1, <1>2, <1>3 DEF OrderInv, Bounded
<1>5. ASSUME NEW first \in Nat, Since(first) PROVE Since(first)'
  BY <1>1, <1>2, <1>5 DEF Since
<1> QED
  BY <1>4, <1>5 DEF OrderInv

LEMMA OrderDestructor == OrderInv /\ IInv' /\ Destructor => OrderInv'
<1> SUFFICES ASSUME OrderInv, IInv', Destructor PROVE OrderInv'
  OBVIOUS
<1>1. /\ source' = <<>> /\ played' = 0 /\ Len(source') = 0
      /\ UNCHANGED <<at, pos, audio_buff, audio_size, failures, processed, primed, lost, heard>>
  BY EmptySeq DEF Destructor, fileVars, poolVars
<1>2. Bounded'
  BY <1>1 DEF OrderInv, Bounded
<1>3. ASSUME NEW first \in Nat, Since(first) PROVE Since(first)'
  BY <1>1, <1>3 DEF Since
<1> QED
  BY <1>2, <1>3 DEF OrderInv

LEMMA OrderStep == OrderInv /\ [Next]_vars => OrderInv'
<1> SUFFICES ASSUME OrderInv, [Next]_vars PROVE OrderInv'
  OBVIOUS
<1>1. IInv'
  BY NextInv DEF OrderInv
<1>2. CASE open_play_all
  BY <1>1, <1>2, OrderRead, OrderPrime, OrderQuery, OrderUnqueue, OrderRefill
  DEF open_play_all
<1>3. CASE UNCHANGED vars
  <2>1. UNCHANGED <<at, pos, audio_buff, audio_size, failures, processed, primed, lost,
                    source, played, heard, deleted>>
    BY <1>3 DEF vars, fileVars, poolVars, sourceVars
  <2> QED
    BY <1>1, <2>1, SMTT(30) DEF OrderInv, Bounded, Since
<1> QED
  BY <1>1, <1>2, <1>3, OrderDevice, OrderDestructor DEF Next

LEMMA FunctionIsSeq ==
  ASSUME NEW S, NEW n \in Nat, NEW f \in [1 .. n -> S]
  PROVE  f \in Seq(S)
BY SeqDef

LEMMA OrderTyped == OrderInv => TypeOK /\ QueuedInOrder
<1> SUFFICES ASSUME OrderInv PROVE TypeOK /\ QueuedInOrder
  OBVIOUS
<1>1. DOMAIN source = 1 .. Len(source) /\ source \in Seq(Slot) /\ DOMAIN File = 1 .. Len(File)
  BY LenProperties, OpenALAssumption DEF OrderInv, IInv, Kinds
<1>2. QueuedInOrder
  <2>1. PICK first \in Nat : Since(first)
    BY DEF OrderInv
  <2> QED
    BY <1>1, <2>1 DEF Since, QueuedInOrder
<1>3. 1 .. audio_buff \subseteq Frames
  BY <1>1, Numbers DEF OrderInv, Bounded, Frames
<1>4. source \in Seq([buffer : Buffers, frame : Frames])
  <2>1. \A i \in 1 .. Len(source) : source[i] \in [buffer : Buffers, frame : Frames]
    <3>1. ASSUME NEW i \in 1 .. Len(source)
          PROVE  source[i] \in [buffer : Buffers, frame : Frames]
      <4>1. source[i] \in Slot /\ source[i].frame \in Frames
        BY <1>3, Numbers DEF OrderInv, Bounded
      <4> QED
        BY <4>1 DEF Slot
    <3> QED
      BY <3>1
  <2>2. source \in [1 .. Len(source) -> Slot] /\ Len(source) \in Nat
    BY <1>1, LenProperties
  <2>3. source \in [1 .. Len(source) -> [buffer : Buffers, frame : Frames]]
    BY <2>1, <2>2
  <2> QED
    BY <2>2, <2>3, FunctionIsSeq
<1>5. pos \in 0 .. Len(File) /\ audio_buff \in Frames \cup {NoFrame}
  BY <1>1, Numbers DEF OrderInv, Bounded, Frames, NoFrame
<1>6. /\ processed \in 0 .. NBuffers /\ lost \in 0 .. NBuffers /\ failures \in 0 .. MaxFailures
  BY Numbers DEF OrderInv, Bounded
<1>7. played \in 0 .. Len(source)
  BY Numbers, EmptySeq DEF OrderInv, Bounded, IInv, Kinds, Alive, Playing
<1>8. TypeOK
  BY <1>3, <1>4, <1>5, <1>6, <1>7 DEF TypeOK, OrderInv, IInv, Kinds, Bounded
<1> QED
  BY <1>2, <1>8

-------------------------------------------------------------------------------
(* Queues, as what they are made of and end to end.                        *)

Elements(s) == {s[i] : i \in DOMAIN s}

LEMMA Ends ==
  ASSUME NEW S, NEW s \in Seq(S), NEW e \in S
  PROVE  /\ Append(s, e) \in Seq(S) /\ <<e>> \in Seq(S) /\ <<>> \in Seq(S)
         /\ Append(s, e) = s \o <<e>>
         /\ s \o <<>> = s /\ <<>> \o s = s
         /\ Elements(Append(s, e)) \subseteq Elements(s) \cup {e}
<1>1. /\ DOMAIN Append(s, e) = 1 .. Len(s) + 1 /\ DOMAIN s = 1 .. Len(s)
      /\ Append(s, e)[Len(s) + 1] = e
      /\ \A i \in 1 .. Len(s) : Append(s, e)[i] = s[i]
      /\ Len(s) \in Nat
  BY AppendProperties, LenProperties
<1>2. \A i \in 1 .. Len(s) + 1 : i \in 1 .. Len(s) \/ i = Len(s) + 1
  BY <1>1
<1>3. Elements(Append(s, e)) \subseteq Elements(s) \cup {e}
  BY <1>1, <1>2 DEF Elements
<1>4. <<e>> \in Seq(S)
  BY EmptySeq, AppendProperties, ConcatEmptySeq, AppendIsConcat
<1> QED
  BY <1>3, <1>4, AppendProperties, AppendIsConcat, ConcatEmptySeq, EmptySeq

\* The head leaves, the rest stays: also when it was in front of another queue.
LEMMA Leaves ==
  ASSUME NEW S, NEW s \in Seq(S)
  PROVE  /\ s # <<>> => /\ Head(s) \in S /\ Tail(s) \in Seq(S)
                        /\ Head(s) \in Elements(s) /\ Elements(Tail(s)) \subseteq Elements(s)
                        /\ <<Head(s)>> \o Tail(s) = s
         /\ \A e \in S : /\ <<e>> \o s # <<>> /\ Head(<<e>> \o s) = e
                         /\ Tail(<<e>> \o s) = s
<1>1. Len(s) \in Nat /\ DOMAIN s = 1 .. Len(s)
  BY LenProperties
<1>2. ASSUME NEW e \in S
      PROVE  /\ <<e>> \o s # <<>> /\ Head(<<e>> \o s) = e /\ Tail(<<e>> \o s) = s
  <2>1. <<e>> \in Seq(S) /\ Len(<<e>>) = 1 /\ <<e>>[1] = e
    BY Ends
  <2>2. /\ <<e>> \o s \in Seq(S) /\ Len(<<e>> \o s) = Len(s) + 1
        /\ (<<e>> \o s)[1] = e
        /\ \A i \in 1 .. Len(s) : (<<e>> \o s)[i + 1] = s[i]
    BY <1>1, <2>1, ConcatProperties
  <2>3. <<e>> \o s # <<>>
    BY <1>1, <2>2, EmptySeq
  <2>4. Head(<<e>> \o s) = e
    BY <2>2, <2>3
  <2>5. /\ Tail(<<e>> \o s) \in Seq(S) /\ Len(Tail(<<e>> \o s)) = Len(s)
        /\ \A i \in 1 .. Len(s) : Tail(<<e>> \o s)[i] = s[i]
    BY <1>1, <2>2, <2>3, HeadTailProperties
  <2>6. Tail(<<e>> \o s) = s
    BY <2>5, SeqEqual
  <2> QED
    BY <2>3, <2>4, <2>6
<1>3. ASSUME s # <<>>
      PROVE  /\ Head(s) \in S /\ Tail(s) \in Seq(S)
             /\ Head(s) \in Elements(s) /\ Elements(Tail(s)) \subseteq Elements(s)
             /\ <<Head(s)>> \o Tail(s) = s
  <2>1. /\ Head(s) \in S /\ Tail(s) \in Seq(S) /\ Len(Tail(s)) = Len(s) - 1 /\ Len(s) > 0
        /\ \A i \in 1 .. Len(s) - 1 : Tail(s)[i] = s[i + 1]
        /\ Head(s) = s[1]
    BY <1>1, <1>3, HeadTailProperties, EmptySeq
  <2>2. Head(s) \in Elements(s)
    BY <1>1, <2>1 DEF Elements
  <2>3. Elements(Tail(s)) \subseteq Elements(s)
    <3>1. DOMAIN Tail(s) = 1 .. Len(s) - 1
      BY <2>1, LenProperties
    <3>2. \A i \in 1 .. Len(s) - 1 : i + 1 \in 1 .. Len(s)
      BY <1>1
    <3> QED
      BY <1>1, <2>1, <3>1, <3>2 DEF Elements
  <2>4. <<Head(s)>> \in Seq(S) /\ Len(<<Head(s)>>) = 1 /\ <<Head(s)>>[1] = Head(s)
    BY <2>1, Ends
  <2>5. /\ <<Head(s)>> \o Tail(s) \in Seq(S) /\ Len(<<Head(s)>> \o Tail(s)) = Len(s)
        /\ \A i \in 1 .. Len(s) : (<<Head(s)>> \o Tail(s))[i] =
                                     IF i <= 1 THEN s[1] ELSE Tail(s)[i - 1]
    BY <1>1, <2>1, <2>4, ConcatProperties
  <2>6. \A i \in 1 .. Len(s) : (<<Head(s)>> \o Tail(s))[i] = s[i]
    <3>1. ASSUME NEW i \in 1 .. Len(s) PROVE (<<Head(s)>> \o Tail(s))[i] = s[i]
      <4>1. CASE i = 1
        BY <2>5, <4>1
      <4>2. CASE i # 1
        <5>1. i - 1 \in 1 .. Len(s) - 1 /\ (i - 1) + 1 = i /\ ~(i <= 1)
          BY <1>1, <4>2
        <5> QED
          BY <2>1, <2>5, <5>1
      <4> QED
        BY <4>1, <4>2
    <3> QED
      BY <3>1
  <2>7. <<Head(s)>> \o Tail(s) = s
    BY <2>5, <2>6, SeqEqual
  <2> QED
    BY <2>1, <2>2, <2>3, <2>7
<1> QED
  BY <1>2, <1>3

-------------------------------------------------------------------------------
(* The OpenGL player.                                                      *)

Pics == DOMAIN Pictures
Pairs == Opengl!Queued

\* No picture that is still to come is due before the clock says the next one is.
ClockBehind ==
  \A k \in Pics :
    /\ Pictures[k] = "video"
    /\ k > gl_pos \/ (k = gl_pos /\ gl_decoder = "packet")
    => gl_clock <= Times[k]

\* The decoder holds the frame of the packet it read last.
GlInv ==
  /\ Opengl!TypeOK
  /\ gl_decoder \in {"packet", "put"} => gl_frame \in Pics
  /\ gl_decoder = "packet" => gl_frame = gl_pos /\ Pictures[gl_frame] = "video"
  /\ gl_window = "sync" <=> gl_shown # Opengl!Nothing
  /\ gl_window = "start" => gl_decoder = "none"
  /\ ClockBehind

LEMMA PictureFacts ==
  /\ Len(Pictures) \in Nat /\ Pics = 1 .. Len(Pictures) /\ Failures \in Nat /\ Rounds \in Nat
  /\ Opengl!Frames = Pics /\ Polled!Frames = Pics /\ Polled!NoFrame = 0
  /\ LastTime \in Nat /\ Pairs = Pics \X (0 .. LastTime) /\ Opengl!Unknown = 0
  /\ Opengl!Nothing = <<0, 0>> /\ Opengl!Nothing \notin Pairs
<1>1. Pictures \in Seq({"audio", "video"}) /\ Failures \in Nat /\ Rounds \in Nat /\ LastTime \in Nat
  BY PlayersAssumption DEF Opengl!OpenglAssumption
<1>2. Len(Pictures) \in Nat /\ DOMAIN Pictures = 1 .. Len(Pictures)
  BY <1>1, LenProperties
<1> QED
  BY <1>1, <1>2 DEF Pics, Opengl!Frames, Polled!Frames, Polled!NoFrame, Pairs, Opengl!Queued,
                    Opengl!Nothing, Opengl!NoFrame, Opengl!Unknown

\* When the pictures are due.
LEMMA TimeFacts ==
  /\ \A f \in Pics : Times[f] \in 0 .. LastTime /\ Delays[f] \in Nat /\ Delays[f] > 0
  /\ \A j, k \in Pics :
       j < k /\ Pictures[j] = "video" /\ Pictures[k] = "video" => Times[j] + Delays[j] <= Times[k]
<1>1. /\ Times \in [Pics -> 0 .. LastTime] /\ Delays \in [Pics -> Nat \ {0}]
      /\ \A j, k \in Pics : j < k /\ Pictures[j] = "video" /\ Pictures[k] = "video"
                              => Times[j] + Delays[j] <= Times[k]
  BY PlayersAssumption DEF Opengl!OpenglAssumption, Pics
<1> QED
  BY <1>1

LEMMA GlInit == Opengl!Init => GlInv
<1> SUFFICES ASSUME Opengl!Init PROVE GlInv
  OBVIOUS
<1>1. <<>> \in Seq(Pairs)
  BY EmptySeq
<1>2. Opengl!TypeOK
  <2>1. /\ gl_pos \in 0 .. Len(Pictures) /\ gl_failures \in 0 .. Failures
        /\ gl_rounds \in 0 .. Rounds /\ gl_pts \in 0 .. LastTime /\ gl_clock \in Nat
    BY PictureFacts DEF Opengl!Init
  <2>2. gl_frameq \in Seq(Pairs) /\ gl_displayed \in Seq(Pairs)
    BY <1>1 DEF Opengl!Init
  <2> QED
    BY <2>1, <2>2 DEF Opengl!Init, Opengl!TypeOK, Pairs
<1>3. ClockBehind
  BY TimeFacts, PictureFacts DEF Opengl!Init, ClockBehind
<1> QED
  BY <1>2, <1>3 DEF Opengl!Init, GlInv

\* The time a frame is given, and the clock after it.
LEMMA Synchronized ==
  ASSUME GlInv, Opengl!Decode, gl_decoder' = "put"
  PROVE  /\ gl_frame \in Pics /\ gl_frame = gl_pos /\ Pictures[gl_frame] = "video"
         /\ gl_decoder = "packet"
         /\ UNCHANGED <<gl_quit, gl_pos, gl_frame, gl_frameq, gl_failures, gl_shown, gl_displayed>>
         /\ gl_clock <= gl_pts' /\ gl_pts' \in 0 .. Times[gl_frame] /\ gl_pts' \in 0 .. LastTime
         /\ gl_frame \in Opengl!Timed => gl_pts' = Times[gl_frame]
         /\ gl_clock' = (IF gl_pts' = 0 THEN 0 ELSE gl_pts' + Delays[gl_frame])
<1>1. /\ gl_decoder = "packet" /\ Opengl!synchronize
      /\ UNCHANGED <<gl_quit, gl_pos, gl_frame, gl_frameq, gl_failures, gl_shown, gl_displayed>>
  BY DEF Opengl!Decode, Opengl!windowVars
<1>2. /\ gl_frame \in Pics /\ gl_frame = gl_pos /\ Pictures[gl_frame] = "video"
      /\ gl_clock <= Times[gl_frame] /\ gl_clock \in Nat
  BY <1>1 DEF GlInv, ClockBehind, Opengl!TypeOK
<1>3. /\ gl_pts' = (IF gl_frame \in Opengl!Timed THEN Times[gl_frame] ELSE gl_clock)
      /\ gl_clock' = (IF gl_pts' = 0 THEN 0 ELSE gl_pts' + Delays[gl_frame])
  BY <1>1, PictureFacts DEF Opengl!synchronize
<1>4. Times[gl_frame] \in 0 .. LastTime /\ LastTime \in Nat
  BY <1>2, TimeFacts, PictureFacts
<1>5. gl_clock <= gl_pts' /\ gl_pts' \in 0 .. Times[gl_frame] /\ gl_pts' \in 0 .. LastTime
  BY <1>2, <1>3, <1>4
<1> QED
  BY <1>1, <1>2, <1>3, <1>5

\* The steps of the decoder.
LEMMA GlDecoderStep == GlInv /\ Opengl!decode_thread => GlInv'
<1> SUFFICES ASSUME GlInv, Opengl!decode_thread PROVE GlInv'
  OBVIOUS
<1>0. /\ gl_quit \in BOOLEAN /\ gl_pos \in 0 .. Len(Pictures)
      /\ gl_frame \in Pics \cup {0} /\ gl_pts \in 0 .. LastTime /\ gl_clock \in Nat
      /\ gl_frameq \in Seq(Pairs) /\ gl_failures \in 0 .. Failures
  BY PictureFacts DEF GlInv, Opengl!TypeOK, Pairs, Opengl!NoFrame
<1>1. UNCHANGED <<gl_window, gl_shown, gl_displayed, gl_closed, gl_rounds>>
  BY DEF Opengl!decode_thread, Opengl!LoopTest, Opengl!Read, Opengl!ReadNothing,
         Opengl!ReadEnd, Opengl!Fail, Opengl!Decode, Opengl!Put, Opengl!windowVars
<1>2. CASE Opengl!Put
  <2>1. /\ gl_decoder = "put" /\ gl_decoder' = "loop"
        /\ gl_frameq' = Append(gl_frameq, <<gl_frame, gl_pts>>)
        /\ UNCHANGED <<gl_quit, gl_pos, gl_frame, gl_pts, gl_clock, gl_failures>>
    BY <1>2 DEF Opengl!Put, Opengl!clocks
  <2>2. <<gl_frame, gl_pts>> \in Pairs
    BY <1>0, <2>1, PictureFacts DEF GlInv
  <2>3. gl_frameq' \in Seq(Pairs)
    BY <1>0, <2>1, <2>2, AppendProperties
  <2>4. Opengl!TypeOK'
    BY <1>1, <2>1, <2>3 DEF GlInv, Opengl!TypeOK, Pairs
  <2>5. ClockBehind'
    BY <2>1 DEF GlInv, ClockBehind
  <2> QED
    BY <1>1, <2>1, <2>4, <2>5 DEF GlInv
<1>3. CASE Opengl!LoopTest \/ Opengl!ReadNothing \/ Opengl!ReadEnd \/ Opengl!Fail
  <2>1. /\ gl_decoder' \in {"read", "loop", "ended"} /\ gl_decoder # "none"
        /\ gl_quit' \in BOOLEAN /\ gl_failures' \in 0 .. Failures
        /\ UNCHANGED <<gl_pos, gl_frame, gl_pts, gl_clock, gl_frameq>>
    <3>1. CASE Opengl!LoopTest
      BY <1>0, <3>1 DEF Opengl!LoopTest, Opengl!clocks
    <3>2. CASE Opengl!ReadNothing
      BY <1>0, <3>2 DEF Opengl!ReadNothing, Opengl!clocks
    <3>3. CASE Opengl!ReadEnd
      BY <1>0, <3>3 DEF Opengl!ReadEnd, Opengl!clocks
    <3>4. CASE Opengl!Fail
      BY <1>0, <3>4, PictureFacts DEF Opengl!Fail, Opengl!clocks
    <3> QED
      BY <1>3, <3>1, <3>2, <3>3, <3>4
  <2>2. Opengl!TypeOK'
    BY <1>1, <2>1 DEF GlInv, Opengl!TypeOK
  <2>3. ClockBehind'
    BY <2>1 DEF GlInv, ClockBehind
  <2> QED
    BY <1>1, <2>1, <2>2, <2>3 DEF GlInv
<1>4. CASE Opengl!Read
  <2>1. /\ gl_decoder = "read" /\ gl_pos < Len(Pictures) /\ gl_pos' = gl_pos + 1
        /\ \/ /\ gl_decoder' = "packet" /\ gl_frame' = gl_pos + 1
              /\ Pictures[gl_pos + 1] = "video"
           \/ gl_decoder' = "loop" /\ gl_frame' = gl_frame
        /\ UNCHANGED <<gl_quit, gl_pts, gl_clock, gl_frameq, gl_failures>>
    BY <1>4 DEF Opengl!Read, Opengl!clocks
  <2>2. gl_pos' \in 0 .. Len(Pictures) /\ gl_pos' \in Pics /\ gl_frame' \in Pics \cup {0}
    BY <1>0, <2>1, PictureFacts
  <2>3. Opengl!TypeOK'
    BY <1>1, <2>1, <2>2, PictureFacts DEF GlInv, Opengl!TypeOK, Opengl!NoFrame
  <2>4. ClockBehind'
    <3>1. \A k \in Pics : k > gl_pos + 1 \/ k = gl_pos + 1 => k > gl_pos
      BY <1>0, PictureFacts
    <3> QED
      BY <2>1, <3>1 DEF GlInv, ClockBehind
  <2> QED
    BY <1>1, <2>1, <2>2, <2>3, <2>4 DEF GlInv
<1>5. CASE Opengl!Decode
  <2>1. CASE gl_decoder' = "put"
    <3>1. Opengl!TypeOK'
      <4>1. gl_clock' \in Nat
        BY <2>1, <1>5, Synchronized, TimeFacts
      <4> QED
        BY <1>1, <1>5, <2>1, <4>1, Synchronized DEF GlInv, Opengl!TypeOK
    <3>2. ClockBehind'
      <4> SUFFICES ASSUME NEW k \in Pics, Pictures[k] = "video", k > gl_pos
                   PROVE  gl_clock' <= Times[k]
        BY <1>5, <2>1, Synchronized DEF ClockBehind
      <4>1. Times[gl_pos] + Delays[gl_pos] <= Times[k] /\ gl_frame = gl_pos
        BY <1>0, <1>5, <2>1, Synchronized, TimeFacts, PictureFacts
      <4>2. /\ Times[k] \in Nat /\ Times[gl_pos] \in Nat /\ Delays[gl_pos] \in Nat
            /\ gl_pts' \in 0 .. Times[gl_pos]
        BY <1>5, <2>1, Synchronized, TimeFacts, PictureFacts
      <4> QED
        BY <1>5, <2>1, <4>1, <4>2, Synchronized
    <3> QED
      BY <1>1, <1>5, <2>1, <3>1, <3>2, Synchronized DEF GlInv
  <2>2. CASE gl_decoder' = "loop"
    <3>1. UNCHANGED <<gl_quit, gl_pos, gl_frame, gl_pts, gl_clock, gl_frameq, gl_failures>>
      BY <1>5, <2>2 DEF Opengl!Decode, Opengl!clocks
    <3>2. ClockBehind'
      BY <2>2, <3>1 DEF GlInv, ClockBehind
    <3> QED
      BY <1>1, <1>5, <2>2, <3>1, <3>2 DEF GlInv, Opengl!TypeOK, Opengl!Decode
  <2> QED
    BY <1>5, <2>1, <2>2 DEF Opengl!Decode
<1> QED
  BY <1>2, <1>3, <1>4, <1>5 DEF Opengl!decode_thread

\* The steps of the window.
LEMMA GlWindowStep == GlInv /\ (Opengl!play \/ Opengl!CloseWindow) => GlInv'
<1> SUFFICES ASSUME GlInv, Opengl!play \/ Opengl!CloseWindow PROVE GlInv'
  OBVIOUS
<1>0. /\ gl_quit \in BOOLEAN /\ gl_closed \in BOOLEAN /\ gl_frameq \in Seq(Pairs)
      /\ gl_shown \in Pairs \cup {Opengl!Nothing}
      /\ gl_failures \in 0 .. Failures /\ gl_rounds \in 0 .. Rounds
      /\ gl_displayed \in Seq(Pairs)
  BY DEF GlInv, Opengl!TypeOK, Pairs
<1>1. CASE Opengl!DeQueue
  <2>1. /\ gl_window = "deQueue" /\ gl_window' = "sync" /\ gl_frameq # <<>>
        /\ gl_shown' = Head(gl_frameq) /\ gl_frameq' = Tail(gl_frameq)
        /\ UNCHANGED <<gl_quit, gl_pos, gl_decoder, gl_frame, gl_pts, gl_clock, gl_failures,
                       gl_displayed, gl_closed, gl_rounds>>
    BY <1>1 DEF Opengl!DeQueue, Opengl!decoderVars, Opengl!clocks
  <2>2. gl_shown' \in Pairs /\ gl_frameq' \in Seq(Pairs)
    BY <1>0, <2>1, Leaves
  <2>3. Opengl!TypeOK'
    BY <2>1, <2>2 DEF GlInv, Opengl!TypeOK, Pairs
  <2>4. ClockBehind'
    BY <2>1 DEF GlInv, ClockBehind
  <2> QED
    BY <2>1, <2>2, <2>3, <2>4, PictureFacts DEF GlInv
<1>2. CASE Opengl!Display
  <2>1. /\ gl_window = "sync" /\ gl_window' = "loop" /\ gl_shown' = Opengl!Nothing
        /\ gl_displayed' = Append(gl_displayed, gl_shown)
        /\ UNCHANGED <<gl_quit, gl_frameq, gl_pos, gl_decoder, gl_frame, gl_pts, gl_clock,
                       gl_failures, gl_closed, gl_rounds>>
    BY <1>2 DEF Opengl!Display, Opengl!decoderVars, Opengl!clocks
  <2>2. gl_shown \in Pairs
    BY <1>0, <2>1 DEF GlInv
  <2>3. gl_displayed' \in Seq(Pairs)
    BY <1>0, <2>1, <2>2, AppendProperties
  <2>4. Opengl!TypeOK'
    BY <2>1, <2>3 DEF GlInv, Opengl!TypeOK, Pairs
  <2>5. ClockBehind'
    BY <2>1 DEF GlInv, ClockBehind
  <2> QED
    BY <2>1, <2>4, <2>5 DEF GlInv
<1>3. CASE \/ Opengl!OpenFails \/ Opengl!start \/ Opengl!BeginFrame \/ Opengl!EndLoop
           \/ Opengl!stop \/ Opengl!CloseWindow
  <2>1. /\ UNCHANGED <<gl_pos, gl_frame, gl_pts, gl_clock, gl_frameq, gl_shown, gl_displayed>>
        /\ gl_quit' \in BOOLEAN /\ gl_closed' \in BOOLEAN
        /\ gl_failures' \in 0 .. Failures /\ gl_rounds' \in 0 .. Rounds
        /\ gl_window' \in {"loop", "deQueue", "sync", "join", "ended"}
        /\ gl_window' = "sync" <=> gl_window = "sync"
        /\ \/ gl_decoder' = gl_decoder
           \/ gl_decoder' = "loop" /\ gl_window = "start"
    <3>1. CASE Opengl!OpenFails
      BY <1>0, <3>1, PictureFacts DEF Opengl!OpenFails, Opengl!clocks
    <3>2. CASE Opengl!start
      BY <1>0, <3>2 DEF Opengl!start, Opengl!clocks
    <3>3. CASE Opengl!BeginFrame
      BY <1>0, <3>3, PictureFacts DEF Opengl!BeginFrame, Opengl!decoderVars, Opengl!clocks
    <3>4. CASE Opengl!EndLoop \/ Opengl!stop \/ Opengl!CloseWindow
      BY <1>0, <3>4
      DEF Opengl!EndLoop, Opengl!stop, Opengl!CloseWindow, Opengl!decoderVars, Opengl!clocks
    <3> QED
      BY <1>3, <3>1, <3>2, <3>3, <3>4
  <2>2. Opengl!TypeOK'
    BY <2>1 DEF GlInv, Opengl!TypeOK
  <2>3. ClockBehind'
    BY <2>1 DEF GlInv, ClockBehind
  <2> QED
    BY <2>1, <2>2, <2>3 DEF GlInv
<1> QED
  BY <1>1, <1>2, <1>3 DEF Opengl!play

LEMMA GlStep == GlInv /\ [Opengl!Next]_openglVars => GlInv'
<1> SUFFICES ASSUME GlInv, UNCHANGED openglVars PROVE GlInv'
  BY GlDecoderStep, GlWindowStep DEF Opengl!Next
<1>1. UNCHANGED <<gl_quit, gl_pos, gl_decoder, gl_frame, gl_pts, gl_clock, gl_frameq, gl_window,
                  gl_shown, gl_displayed, gl_closed, gl_failures, gl_rounds>>
  BY DEF openglVars
<1> QED
  BY <1>1 DEF GlInv, Opengl!TypeOK, ClockBehind

-------------------------------------------------------------------------------
(* From the decoder to the screen the OpenGL player is a FifoQueue.        *)

GlShown == Opengl!One(gl_shown, gl_shown # Opengl!Nothing)
GlMade == Opengl!One(<<gl_frame, gl_pts>>, gl_decoder = "put")
GlQueue == GlShown \o gl_frameq \o GlMade

LEMMA GlQueues ==
  GlInv => /\ gl_frameq \in Seq(Pairs) /\ GlShown \in Seq(Pairs) /\ GlMade \in Seq(Pairs)
           /\ GlShown \o gl_frameq \in Seq(Pairs) /\ GlQueue \in Seq(Pairs)
           /\ gl_shown = Opengl!Nothing => GlShown = <<>> /\ GlShown \o gl_frameq = gl_frameq
           /\ gl_shown # Opengl!Nothing => gl_shown \in Pairs /\ GlShown = <<gl_shown>>
           /\ gl_decoder # "put" => GlMade = <<>>
           /\ gl_decoder = "put" =>
                <<gl_frame, gl_pts>> \in Pairs /\ GlMade = <<<<gl_frame, gl_pts>>>>
<1> SUFFICES ASSUME GlInv
             PROVE  /\ gl_frameq \in Seq(Pairs) /\ GlShown \in Seq(Pairs) /\ GlMade \in Seq(Pairs)
                    /\ GlShown \o gl_frameq \in Seq(Pairs) /\ GlQueue \in Seq(Pairs)
                    /\ gl_shown = Opengl!Nothing =>
                         GlShown = <<>> /\ GlShown \o gl_frameq = gl_frameq
                    /\ gl_shown # Opengl!Nothing => gl_shown \in Pairs /\ GlShown = <<gl_shown>>
                    /\ gl_decoder # "put" => GlMade = <<>>
                    /\ gl_decoder = "put" =>
                         <<gl_frame, gl_pts>> \in Pairs /\ GlMade = <<<<gl_frame, gl_pts>>>>
  OBVIOUS
<1>1. /\ gl_frameq \in Seq(Pairs) /\ gl_shown \in Pairs \cup {Opengl!Nothing}
      /\ gl_decoder = "put" => <<gl_frame, gl_pts>> \in Pairs
  BY PictureFacts DEF GlInv, Opengl!TypeOK, Pairs
<1>2. /\ gl_shown = Opengl!Nothing => GlShown = <<>>
      /\ gl_shown # Opengl!Nothing => gl_shown \in Pairs /\ GlShown = <<gl_shown>>
  BY <1>1 DEF GlShown, Opengl!One
<1>3. /\ gl_decoder # "put" => GlMade = <<>>
      /\ gl_decoder = "put" => GlMade = <<<<gl_frame, gl_pts>>>>
  BY DEF GlMade, Opengl!One
<1>4. <<>> \in Seq(Pairs) /\ \A e \in Pairs : <<e>> \in Seq(Pairs)
  BY EmptySeq, Ends
<1>5. GlShown \in Seq(Pairs) /\ GlMade \in Seq(Pairs)
  BY <1>1, <1>2, <1>3, <1>4
<1>6. /\ GlShown \o gl_frameq \in Seq(Pairs)
      /\ GlShown = <<>> => GlShown \o gl_frameq = gl_frameq
  BY <1>1, <1>5, ConcatProperties, ConcatEmptySeq
<1>7. GlQueue \in Seq(Pairs)
  BY <1>5, <1>6, ConcatProperties DEF GlQueue
<1> QED
  BY <1>1, <1>2, <1>3, <1>5, <1>6, <1>7

\* A step of the player as a step of the queue; a picture is put when it was decoded.
GlPut(p) == GlQueue' = Append(GlQueue, p) /\ gl_displayed' = gl_displayed
GlTake ==
  /\ GlQueue # <<>> /\ GlQueue' = Tail(GlQueue)
  /\ gl_displayed' = Append(gl_displayed, Head(GlQueue))
GlDecodes == Opengl!Decode /\ gl_decoder' = "put"
GlQueueStep ==
  \/ GlDecodes /\ <<gl_frame, gl_pts'>> \in Pairs /\ GlPut(<<gl_frame, gl_pts'>>)
  \/ ~GlDecodes /\ GlTake
  \/ ~GlDecodes /\ GlQueue' = GlQueue /\ gl_displayed' = gl_displayed

LEMMA GlQueueMoves == GlInv /\ GlInv' /\ Opengl!Next => GlQueueStep
<1> SUFFICES ASSUME GlInv, GlInv', Opengl!Next PROVE GlQueueStep
  OBVIOUS
<1>0. /\ gl_frameq \in Seq(Pairs) /\ GlShown \in Seq(Pairs) /\ GlMade \in Seq(Pairs)
      /\ GlShown \o gl_frameq \in Seq(Pairs)
  BY GlQueues
<1>1. CASE GlDecodes
  <2>1. /\ gl_decoder = "packet" /\ UNCHANGED <<gl_frame, gl_frameq, gl_shown, gl_displayed>>
        /\ gl_frame \in Pics /\ gl_pts' \in 0 .. LastTime /\ gl_decoder' = "put"
    BY <1>1, Synchronized DEF GlDecodes
  <2>2. /\ <<gl_frame, gl_pts'>> \in Pairs /\ GlMade = <<>>
        /\ GlMade' = <<<<gl_frame, gl_pts'>>>>
    BY <2>1, GlQueues, PictureFacts DEF GlMade, Opengl!One
  <2>3. GlShown' = GlShown
    BY <2>1 DEF GlShown
  <2>4. /\ GlQueue = GlShown \o gl_frameq
        /\ GlQueue' = (GlShown \o gl_frameq) \o <<<<gl_frame, gl_pts'>>>>
    BY <1>0, <2>1, <2>2, <2>3, ConcatEmptySeq DEF GlQueue
  <2>5. GlQueue' = Append(GlQueue, <<gl_frame, gl_pts'>>)
    BY <1>0, <2>2, <2>4, Ends
  <2> QED
    BY <1>1, <2>1, <2>2, <2>5 DEF GlQueueStep, GlPut
<1>2. CASE Opengl!Put
  <2>1. /\ gl_decoder = "put" /\ gl_decoder' = "loop"
        /\ gl_frameq' = Append(gl_frameq, <<gl_frame, gl_pts>>)
        /\ UNCHANGED <<gl_frame, gl_shown, gl_displayed>>
    BY <1>2 DEF Opengl!Put, Opengl!windowVars
  <2>2. /\ <<gl_frame, gl_pts>> \in Pairs /\ GlMade = <<<<gl_frame, gl_pts>>>> /\ GlMade' = <<>>
    BY <2>1, GlQueues DEF GlMade, Opengl!One
  <2>3. GlShown' = GlShown
    BY <2>1 DEF GlShown
  <2>4. /\ <<<<gl_frame, gl_pts>>>> \in Seq(Pairs)
        /\ gl_frameq' = gl_frameq \o <<<<gl_frame, gl_pts>>>> /\ gl_frameq' \in Seq(Pairs)
    BY <1>0, <2>1, <2>2, Ends
  <2>5. GlShown \o gl_frameq' = (GlShown \o gl_frameq) \o <<<<gl_frame, gl_pts>>>>
    BY <1>0, <2>4, ConcatAssociative
  <2>6. GlShown \o gl_frameq' \in Seq(Pairs)
    BY <1>0, <2>4, ConcatProperties
  <2>7. GlQueue' = GlQueue
    BY <2>2, <2>3, <2>5, <2>6, ConcatEmptySeq DEF GlQueue
  <2> QED
    BY <2>1, <2>7 DEF GlQueueStep, GlDecodes
<1>3. CASE Opengl!DeQueue
  <2>1. /\ gl_window = "deQueue" /\ gl_frameq # <<>>
        /\ gl_shown' = Head(gl_frameq) /\ gl_frameq' = Tail(gl_frameq)
        /\ UNCHANGED <<gl_frame, gl_pts, gl_decoder, gl_displayed>>
    BY <1>3 DEF Opengl!DeQueue, Opengl!decoderVars, Opengl!clocks
  <2>2. gl_shown = Opengl!Nothing /\ GlMade' = GlMade
    BY <2>1 DEF GlInv, GlMade
  <2>3. gl_shown' \in Pairs /\ <<gl_shown'>> \o gl_frameq' = gl_frameq
    BY <1>0, <2>1, Leaves
  <2>4. GlShown' = <<gl_shown'>>
    BY <2>3, PictureFacts DEF GlShown, Opengl!One
  <2>5. GlShown' \o gl_frameq' = GlShown \o gl_frameq
    BY <2>2, <2>3, <2>4, GlQueues
  <2>6. ~GlDecodes
    BY <2>1 DEF GlDecodes, Opengl!Decode
  <2> QED
    BY <2>1, <2>2, <2>5, <2>6 DEF GlQueueStep, GlQueue
<1>4. CASE Opengl!Display
  <2>1. /\ gl_window = "sync" /\ gl_shown' = Opengl!Nothing
        /\ gl_displayed' = Append(gl_displayed, gl_shown)
        /\ UNCHANGED <<gl_frame, gl_pts, gl_decoder, gl_frameq>>
    BY <1>4 DEF Opengl!Display, Opengl!decoderVars, Opengl!clocks
  <2>2. gl_shown \in Pairs /\ GlMade' = GlMade /\ GlShown = <<gl_shown>>
    BY <2>1, GlQueues DEF GlInv, GlMade
  <2>3. GlShown' = <<>>
    BY <2>1 DEF GlShown, Opengl!One
  <2>4. GlShown' \o gl_frameq' = gl_frameq
    BY <1>0, <2>1, <2>3, ConcatEmptySeq
  <2>5. <<gl_shown>> \in Seq(Pairs) /\ gl_frameq \o GlMade \in Seq(Pairs)
    BY <1>0, <2>2, Ends, ConcatProperties
  <2>6. GlQueue = <<gl_shown>> \o (gl_frameq \o GlMade)
    BY <1>0, <2>2, <2>5, ConcatAssociative DEF GlQueue
  <2>7. GlQueue # <<>> /\ Head(GlQueue) = gl_shown /\ Tail(GlQueue) = gl_frameq \o GlMade
    BY <2>2, <2>5, <2>6, Leaves
  <2>8. GlQueue' = gl_frameq \o GlMade
    BY <2>2, <2>4 DEF GlQueue
  <2>9. ~GlDecodes
    BY <2>1 DEF GlDecodes, Opengl!Decode
  <2> QED
    BY <2>1, <2>7, <2>8, <2>9 DEF GlQueueStep, GlTake
<1>5. CASE ~GlDecodes /\ ~Opengl!Put /\ ~Opengl!DeQueue /\ ~Opengl!Display
  <2>1. UNCHANGED <<gl_frameq, gl_shown, gl_displayed>>
    BY <1>5 DEF Opengl!Next, Opengl!decode_thread, Opengl!play, Opengl!LoopTest, Opengl!Read,
                Opengl!ReadNothing, Opengl!ReadEnd, Opengl!Fail, Opengl!Decode,
                Opengl!OpenFails, Opengl!start, Opengl!BeginFrame,
                Opengl!EndLoop, Opengl!stop, Opengl!CloseWindow, Opengl!windowVars
  <2>2. \/ gl_decoder # "put" /\ gl_decoder' # "put"
        \/ gl_decoder' = gl_decoder /\ UNCHANGED <<gl_frame, gl_pts>>
    BY <1>5 DEF Opengl!Next, Opengl!decode_thread, Opengl!play, Opengl!LoopTest, Opengl!Read,
                Opengl!ReadNothing, Opengl!ReadEnd, Opengl!Fail, Opengl!Decode, GlDecodes,
                Opengl!OpenFails, Opengl!start, Opengl!BeginFrame, Opengl!EndLoop,
                Opengl!stop, Opengl!CloseWindow, Opengl!decoderVars, Opengl!clocks, GlInv
  <2>3. GlMade' = GlMade
    BY <2>2 DEF GlMade, Opengl!One
  <2> QED
    BY <1>5, <2>1, <2>3 DEF GlQueueStep, GlQueue, GlShown
<1> QED
  BY <1>1, <1>2, <1>3, <1>4, <1>5

LEMMA GlFifoInit == Opengl!Init => Opengl!Pipeline!FifoInit
<1> SUFFICES ASSUME Opengl!Init PROVE Opengl!Pipeline!FifoInit
  OBVIOUS
<1>1. /\ GlInv /\ gl_shown = Opengl!Nothing /\ gl_frameq = <<>> /\ gl_decoder = "none"
      /\ gl_displayed = <<>>
  BY GlInit DEF Opengl!Init
<1>2. GlShown \o gl_frameq = <<>> /\ GlMade = <<>> /\ <<>> \in Seq(Pairs)
  BY <1>1, GlQueues, EmptySeq
<1>3. GlQueue = <<>>
  BY <1>2, ConcatEmptySeq DEF GlQueue
<1> QED
  BY <1>1, <1>3 DEF Opengl!Pipeline!FifoInit, GlQueue, GlShown, GlMade

LEMMA GlFifoStep ==
  GlInv /\ GlInv' /\ [Opengl!Next]_openglVars
    => [Opengl!Pipeline!FifoNext]_(Opengl!Pipeline!fifoVars)
<1> SUFFICES ASSUME GlInv, GlInv', [Opengl!Next]_openglVars
             PROVE  [Opengl!Pipeline!FifoNext]_(Opengl!Pipeline!fifoVars)
  OBVIOUS
<1>1. CASE UNCHANGED openglVars
  BY <1>1 DEF openglVars, Opengl!Pipeline!fifoVars
<1>2. ASSUME NEW p \in Pairs, GlPut(p) PROVE Opengl!Pipeline!FifoNext
  BY <1>2
  DEF Opengl!Pipeline!FifoNext, Opengl!Pipeline!Put, GlPut, GlQueue, GlShown, GlMade, Pairs
<1>3. GlTake => Opengl!Pipeline!FifoNext
  BY DEF Opengl!Pipeline!FifoNext, Opengl!Pipeline!Take, GlTake, GlQueue, GlShown, GlMade
<1>4. GlQueue' = GlQueue /\ gl_displayed' = gl_displayed => UNCHANGED Opengl!Pipeline!fifoVars
  BY DEF Opengl!Pipeline!fifoVars, GlQueue, GlShown, GlMade
<1>5. CASE Opengl!Next
  BY <1>2, <1>3, <1>4, <1>5, GlQueueMoves DEF GlQueueStep
<1> QED
  BY <1>1, <1>5

-------------------------------------------------------------------------------
(* The times of the pictures, in the order in which they were decoded.     *)

\* Every picture that was decoded: displayed, or on its way.
Handed == gl_displayed \o GlQueue

Own(p) == p[1] \in Opengl!Timed => p[2] = Times[p[1]]
Sooner(t, u) == t # 0 => t < u

Ascending(s, clock) ==
  /\ \A i \in 1 .. Len(s) : Own(s[i]) /\ Sooner(s[i][2], clock)
  /\ \A i, j \in 1 .. Len(s) : i < j => Sooner(s[i][2], s[j][2])

TimeInv == Ascending(Handed, gl_clock)

LEMMA HandedTyped ==
  ASSUME GlInv
  PROVE  /\ Handed \in Seq(Pairs) /\ gl_displayed \in Seq(Pairs) /\ GlQueue \in Seq(Pairs)
         /\ Len(gl_displayed) \in Nat /\ Len(Handed) \in Nat /\ Len(gl_displayed) <= Len(Handed)
         /\ \A i \in 1 .. Len(gl_displayed) : Handed[i] = gl_displayed[i]
<1>1. gl_displayed \in Seq(Pairs) /\ GlQueue \in Seq(Pairs)
  BY GlQueues DEF GlInv, Opengl!TypeOK, Pairs
<1>2. /\ Handed \in Seq(Pairs) /\ Len(Handed) = Len(gl_displayed) + Len(GlQueue)
      /\ \A i \in 1 .. Len(gl_displayed) + Len(GlQueue) : Handed[i] =
           IF i <= Len(gl_displayed) THEN gl_displayed[i] ELSE GlQueue[i - Len(gl_displayed)]
  BY <1>1, ConcatProperties DEF Handed
<1>3. Len(gl_displayed) \in Nat /\ Len(GlQueue) \in Nat
  BY <1>1, LenProperties
<1> QED
  BY <1>1, <1>2, <1>3

\* A picture decoded later is due later than all before it.
LEMMA AscendingAppend ==
  ASSUME NEW s \in Seq(Pairs), NEW clock \in Nat, Ascending(s, clock),
         NEW p \in Pairs, Own(p), clock <= p[2],
         NEW next \in Nat, Sooner(p[2], next), p[2] = 0 => next = 0
  PROVE  Ascending(Append(s, p), next)
<1>1. /\ Append(s, p) \in Seq(Pairs) /\ Len(Append(s, p)) = Len(s) + 1 /\ Len(s) \in Nat
      /\ \A i \in 1 .. Len(s) : Append(s, p)[i] = s[i]
      /\ Append(s, p)[Len(s) + 1] = p
  BY AppendProperties, LenProperties
<1>2. \A i \in 1 .. Len(s) + 1 : i \in 1 .. Len(s) \/ i = Len(s) + 1
  BY <1>1
<1>3. p[2] \in Nat /\ \A i \in 1 .. Len(s) : s[i][2] \in Nat
  BY PictureFacts, LenProperties
<1>4. \A i \in 1 .. Len(s) : Own(s[i]) /\ Sooner(s[i][2], p[2]) /\ Sooner(s[i][2], next)
  BY <1>3 DEF Ascending, Sooner
<1>5. \A i, j \in 1 .. Len(s) + 1 : i < j => i \in 1 .. Len(s)
  BY <1>1
<1> QED
  BY <1>1, <1>2, <1>4, <1>5 DEF Ascending

LEMMA TimeInit == Opengl!Init => TimeInv
<1> SUFFICES ASSUME Opengl!Init PROVE TimeInv
  OBVIOUS
<1>1. gl_displayed = <<>> /\ GlQueue = <<>>
  BY GlFifoInit DEF Opengl!Pipeline!FifoInit, GlQueue, GlShown, GlMade
<1>2. Handed = <<>> /\ Len(<<>>) = 0
  BY <1>1, ConcatEmptySeq, EmptySeq DEF Handed
<1> QED
  BY <1>2 DEF TimeInv, Ascending

\* Only decoding adds to what was handed on, and only decoding moves the clock.
LEMMA TimeStep == GlInv /\ GlInv' /\ TimeInv /\ [Opengl!Next]_openglVars => TimeInv'
<1> SUFFICES ASSUME GlInv, GlInv', TimeInv, [Opengl!Next]_openglVars PROVE TimeInv'
  OBVIOUS
<1>0. /\ Handed \in Seq(Pairs) /\ gl_displayed \in Seq(Pairs) /\ GlQueue \in Seq(Pairs)
      /\ gl_clock \in Nat /\ gl_clock' \in Nat
  BY HandedTyped DEF GlInv, Opengl!TypeOK
<1>1. CASE UNCHANGED openglVars
  BY <1>1 DEF openglVars, TimeInv, Handed, GlQueue, GlShown, GlMade
<1>2. CASE Opengl!Next /\ GlDecodes
  <2>1. /\ gl_frame \in Pics /\ gl_clock <= gl_pts' /\ gl_pts' \in 0 .. LastTime
        /\ gl_frame \in Opengl!Timed => gl_pts' = Times[gl_frame]
        /\ gl_clock' = (IF gl_pts' = 0 THEN 0 ELSE gl_pts' + Delays[gl_frame])
    BY <1>2, Synchronized DEF GlDecodes
  <2>2. PICK p \in Pairs : p = <<gl_frame, gl_pts'>> /\ GlPut(p)
    BY <1>2, GlQueueMoves DEF GlQueueStep
  <2>3. p[2] = gl_pts' /\ Own(p)
    BY <2>1, <2>2 DEF Own
  <2>4. Sooner(p[2], gl_clock') /\ (p[2] = 0 => gl_clock' = 0) /\ gl_clock <= p[2]
    BY <2>1, <2>3, TimeFacts DEF Sooner
  <2>5. Handed' = Append(Handed, p)
    <3>1. <<p>> \in Seq(Pairs) /\ Append(GlQueue, p) = GlQueue \o <<p>>
      BY <1>0, Ends
    <3>2. Handed' = gl_displayed \o (GlQueue \o <<p>>)
      BY <2>2, <3>1 DEF Handed, GlPut
    <3>3. Handed' = Handed \o <<p>>
      BY <1>0, <3>1, <3>2, ConcatAssociative DEF Handed
    <3> QED
      BY <1>0, <3>3, Ends
  <2>6. Ascending(Append(Handed, p), gl_clock')
    BY <1>0, <2>3, <2>4, AscendingAppend DEF TimeInv
  <2> QED
    BY <2>5, <2>6 DEF TimeInv
<1>3. CASE Opengl!Next /\ ~GlDecodes
  <2>1. gl_clock' = gl_clock
    BY <1>3 DEF Opengl!Next, Opengl!decode_thread, Opengl!play, Opengl!LoopTest, Opengl!Read,
                Opengl!ReadNothing, Opengl!ReadEnd, Opengl!Fail, Opengl!Decode, Opengl!Put,
                Opengl!OpenFails, Opengl!start, Opengl!BeginFrame, Opengl!DeQueue,
                Opengl!Display, Opengl!EndLoop, Opengl!stop, Opengl!CloseWindow, GlDecodes,
                Opengl!decoderVars, Opengl!clocks
  <2>2. Handed' = Handed
    <3>1. CASE GlTake
      <4>1. /\ Head(GlQueue) \in Pairs /\ Tail(GlQueue) \in Seq(Pairs)
            /\ <<Head(GlQueue)>> \o Tail(GlQueue) = GlQueue
        BY <1>0, <3>1, Leaves DEF GlTake
      <4>2. /\ <<Head(GlQueue)>> \in Seq(Pairs)
            /\ gl_displayed' = gl_displayed \o <<Head(GlQueue)>> /\ GlQueue' = Tail(GlQueue)
        BY <1>0, <3>1, <4>1, Ends DEF GlTake
      <4>3. Handed' = (gl_displayed \o <<Head(GlQueue)>>) \o Tail(GlQueue)
        BY <4>2 DEF Handed
      <4> QED
        BY <1>0, <4>1, <4>2, <4>3, ConcatAssociative DEF Handed
    <3>2. CASE GlQueue' = GlQueue /\ gl_displayed' = gl_displayed
      BY <3>2 DEF Handed
    <3> QED
      BY <1>3, <3>1, <3>2, GlQueueMoves DEF GlQueueStep
  <2> QED
    BY <2>1, <2>2 DEF TimeInv
<1> QED
  BY <1>1, <1>2, <1>3

LEMMA TimesRight == GlInv /\ TimeInv => Opengl!TimesAscend
<1> SUFFICES ASSUME GlInv, TimeInv PROVE Opengl!TimesAscend
  OBVIOUS
<1>1. DOMAIN gl_displayed = 1 .. Len(gl_displayed)
  BY HandedTyped, LenProperties
<1>2. \A i \in 1 .. Len(gl_displayed) : i \in 1 .. Len(Handed) /\ Handed[i] = gl_displayed[i]
  BY HandedTyped
<1>3. \A i \in 1 .. Len(gl_displayed) : Own(gl_displayed[i])
  BY <1>2 DEF TimeInv, Ascending
<1>4. \A i, j \in 1 .. Len(gl_displayed) :
        i < j => Sooner(gl_displayed[i][2], gl_displayed[j][2])
  BY <1>2 DEF TimeInv, Ascending
<1> QED
  BY <1>1, <1>3, <1>4, PictureFacts DEF Opengl!TimesAscend, Own, Sooner

-------------------------------------------------------------------------------
(* The polled player: its mutex, and its queue from decoder to screen.     *)

\* A thread is between lock and unlock exactly while it holds the mutex, which lives as
\* long as the decoder, and each has a picture exactly where it hands one on.
PolledInv ==
  /\ Polled!Exclusive
  /\ decoder \in {"none", "open", "read", "decode", "lock", "push", "ended"}
  /\ window \in {"start", "loop", "poll", "draw", "join", "ended"}
  /\ window = "start" <=> decoder = "none"
  /\ window = "ended" => decoder = "ended"
  /\ mutex = "destroyed" <=> window \in {"start", "ended"}
  /\ mutex = "decoder" <=> decoder = "push"
  /\ mutex = "window" <=> window \in {"poll", "draw"}
  /\ polled_pos \in 0 .. Len(Pictures) /\ (decoder = "decode" => polled_pos \in Pics)
  /\ dst \in Pics \cup {0} /\ (dst # 0 <=> decoder \in {"lock", "push"})
  /\ frame \in Pics \cup {0} /\ (frame # 0 <=> window = "draw")
  /\ frameq \in Seq(Pics) /\ displayed \in Seq(Pics)

LEMMA PolledInit == Polled!Init => PolledInv
<1> SUFFICES ASSUME Polled!Init PROVE PolledInv
  OBVIOUS
<1>1. <<>> \in Seq(Pics) /\ 0 \in 0 .. Len(Pictures)
  BY EmptySeq, PictureFacts
<1>2. frameq \in Seq(Pics) /\ displayed \in Seq(Pics) /\ polled_pos \in 0 .. Len(Pictures)
  BY <1>1 DEF Polled!Init
<1> QED
  BY <1>2, PictureFacts DEF Polled!Init, PolledInv, Polled!Exclusive

PolledShown == Polled!One(frame)
PolledMade == Polled!One(dst)
PolledQueue == PolledShown \o frameq \o PolledMade

LEMMA PolledQueues ==
  ASSUME PolledInv
  PROVE  /\ frameq \in Seq(Pics) /\ PolledShown \in Seq(Pics) /\ PolledMade \in Seq(Pics)
         /\ PolledShown \o frameq \in Seq(Pics)
         /\ frame = 0 => PolledShown = <<>> /\ PolledShown \o frameq = frameq
         /\ frame # 0 => frame \in Pics /\ PolledShown = <<frame>>
         /\ dst = 0 => PolledMade = <<>>
         /\ dst # 0 => dst \in Pics /\ PolledMade = <<dst>>
<1>1. /\ frameq \in Seq(Pics) /\ frame \in Pics \cup {0} /\ dst \in Pics \cup {0}
  BY DEF PolledInv
<1>2. /\ frame = 0 => PolledShown = <<>>
      /\ frame # 0 => frame \in Pics /\ PolledShown = <<frame>>
      /\ dst = 0 => PolledMade = <<>>
      /\ dst # 0 => dst \in Pics /\ PolledMade = <<dst>>
  BY <1>1, PictureFacts DEF PolledShown, PolledMade, Polled!One
<1>3. <<>> \in Seq(Pics) /\ \A e \in Pics : <<e>> \in Seq(Pics)
  BY EmptySeq, Ends
<1>4. PolledShown \in Seq(Pics) /\ PolledMade \in Seq(Pics)
  BY <1>2, <1>3
<1>5. /\ PolledShown \o frameq \in Seq(Pics)
      /\ PolledShown = <<>> => PolledShown \o frameq = frameq
  BY <1>1, <1>4, ConcatProperties, ConcatEmptySeq
<1> QED
  BY <1>1, <1>2, <1>4, <1>5

\* What each step does to the queue, and to the invariant.
PolledPut(p) == PolledQueue' = Append(PolledQueue, p) /\ displayed' = displayed
PolledTake ==
  /\ PolledQueue # <<>> /\ PolledQueue' = Tail(PolledQueue)
  /\ displayed' = Append(displayed, Head(PolledQueue))
PolledMoves ==
  \/ \E p \in Pics : PolledPut(p)
  \/ PolledTake
  \/ PolledQueue' = PolledQueue /\ displayed' = displayed

LEMMA PolledDecoder == PolledInv /\ Polled!display_frames => PolledInv' /\ PolledMoves
<1> SUFFICES ASSUME PolledInv, Polled!display_frames PROVE PolledInv' /\ PolledMoves
  OBVIOUS
<1>0. /\ frameq \in Seq(Pics) /\ PolledShown \in Seq(Pics) /\ PolledMade \in Seq(Pics)
      /\ PolledShown \o frameq \in Seq(Pics) /\ polled_pos \in 0 .. Len(Pictures)
  BY PolledQueues DEF PolledInv
<1>1. UNCHANGED <<window, frame, displayed, rounds>> /\ PolledShown' = PolledShown
  BY DEF Polled!display_frames, Polled!OpenInput, Polled!Read, Polled!Decode,
         Polled!DecoderLock, Polled!Push, Polled!windowVars, PolledShown
<1>2. CASE Polled!Decode /\ decoder' = "lock"
  <2>1. /\ decoder = "decode" /\ dst' = polled_pos /\ UNCHANGED <<mutex, frameq, polled_pos>>
    BY <1>2 DEF Polled!Decode
  <2>2. polled_pos \in Pics /\ dst = 0 /\ polled_pos # 0
    BY <2>1, PictureFacts DEF PolledInv
  <2>3. PolledInv'
    BY <1>1, <1>2, <2>1, <2>2 DEF PolledInv, Polled!Exclusive
  <2>4. PolledMade = <<>> /\ PolledMade' = <<polled_pos>>
    BY <2>1, <2>2, PictureFacts DEF PolledMade, Polled!One
  <2>5. PolledQueue = PolledShown \o frameq
    BY <1>0, <2>4, ConcatEmptySeq DEF PolledQueue
  <2>6. PolledQueue' = (PolledShown \o frameq) \o <<polled_pos>>
    BY <1>1, <2>1, <2>4 DEF PolledQueue
  <2>7. PolledPut(polled_pos)
    BY <1>0, <1>1, <2>2, <2>5, <2>6, Ends DEF PolledPut
  <2> QED
    BY <2>2, <2>3, <2>7 DEF PolledMoves
<1>3. CASE Polled!Push
  <2>1. /\ decoder = "push" /\ decoder' = "read" /\ frameq' = Append(frameq, dst) /\ dst' = 0
        /\ mutex' = "nobody" /\ polled_pos' = polled_pos
    BY <1>3, PictureFacts DEF Polled!Push, Polled!Free
  <2>2. dst \in Pics /\ dst # 0
    BY <2>1 DEF PolledInv
  <2>3. <<dst>> \in Seq(Pics) /\ frameq' = frameq \o <<dst>> /\ frameq' \in Seq(Pics)
    BY <1>0, <2>1, <2>2, Ends
  <2>4. PolledInv'
    <3>1. mutex = "decoder" /\ window \notin {"poll", "draw", "start", "ended"}
      BY <2>1 DEF PolledInv
    <3> QED
      BY <1>1, <2>1, <2>3, <3>1 DEF PolledInv, Polled!Exclusive
  <2>5. PolledMade = <<dst>> /\ PolledMade' = <<>>
    BY <2>1, <2>2, PictureFacts DEF PolledMade, Polled!One
  <2>6. PolledShown \o frameq' = (PolledShown \o frameq) \o <<dst>>
    BY <1>0, <2>3, ConcatAssociative
  <2>7. PolledShown \o frameq' \in Seq(Pics)
    BY <1>0, <2>3, ConcatProperties
  <2>8. PolledQueue' = PolledQueue
    BY <1>1, <2>5, <2>6, <2>7, ConcatEmptySeq DEF PolledQueue
  <2> QED
    BY <1>1, <2>4, <2>8 DEF PolledMoves
<1>4. CASE \/ Polled!OpenInput \/ Polled!Read \/ Polled!DecoderLock
           \/ Polled!Decode /\ decoder' # "lock"
  <2>1. UNCHANGED <<frameq, dst>>
    BY <1>4 DEF Polled!OpenInput, Polled!Read, Polled!DecoderLock, Polled!Decode
  <2>2. PolledInv'
    <3>1. CASE Polled!OpenInput
      BY <1>1, <2>1, <3>1 DEF Polled!OpenInput, PolledInv, Polled!Exclusive
    <3>2. CASE Polled!DecoderLock
      BY <1>1, <2>1, <3>2 DEF Polled!DecoderLock, Polled!Free, PolledInv, Polled!Exclusive
    <3>3. CASE Polled!Decode /\ decoder' # "lock"
      BY <1>1, <2>1, <3>3 DEF Polled!Decode, PolledInv, Polled!Exclusive
    <3>4. CASE Polled!Read
      <4>1. /\ decoder = "read" /\ mutex' = mutex
            /\ \/ polled_pos' = polled_pos /\ decoder' \in {"ended", "read"}
               \/ /\ polled_pos < Len(Pictures) /\ polled_pos' = polled_pos + 1
                  /\ decoder' \in {"decode", "read"}
        BY <1>0, <3>4, PictureFacts DEF Polled!Read
      <4>2. polled_pos' \in 0 .. Len(Pictures) /\ (decoder' = "decode" => polled_pos' \in Pics)
        BY <1>0, <4>1, PictureFacts
      <4> QED
        BY <1>1, <2>1, <4>1, <4>2 DEF PolledInv, Polled!Exclusive
    <3> QED
      BY <1>4, <3>1, <3>2, <3>3, <3>4
  <2> QED
    BY <1>1, <2>1, <2>2 DEF PolledMoves, PolledQueue, PolledMade
<1> QED
  BY <1>2, <1>3, <1>4 DEF Polled!display_frames

LEMMA PolledWindow == PolledInv /\ (Polled!main \/ Polled!CloseWindow) => PolledInv' /\ PolledMoves
<1> SUFFICES ASSUME PolledInv, Polled!main \/ Polled!CloseWindow PROVE PolledInv' /\ PolledMoves
  OBVIOUS
<1>0. /\ frameq \in Seq(Pics) /\ PolledShown \in Seq(Pics) /\ PolledMade \in Seq(Pics)
      /\ PolledShown \o frameq \in Seq(Pics) /\ displayed \in Seq(Pics)
  BY PolledQueues DEF PolledInv
<1>1. UNCHANGED <<polled_pos, dst>> /\ PolledMade' = PolledMade
  BY DEF Polled!main, Polled!start_decode, Polled!WindowLock, Polled!Poll, Polled!Draw,
         Polled!end_decode, Polled!CloseWindow, Polled!decoderVars, PolledMade
<1>2. CASE Polled!Poll /\ window' = "draw"
  <2>1. /\ window = "poll" /\ frameq # <<>> /\ frame' = Head(frameq) /\ frameq' = Tail(frameq)
        /\ UNCHANGED <<mutex, decoder, displayed>>
    BY <1>2 DEF Polled!Poll, Polled!decoderVars
  <2>2. /\ frame' \in Pics /\ frame' # 0 /\ frameq' \in Seq(Pics) /\ <<frame'>> \o frameq' = frameq
        /\ frame = 0
    BY <1>0, <2>1, Leaves, PictureFacts DEF PolledInv
  <2>3. PolledInv'
    BY <1>1, <1>2, <2>1, <2>2 DEF PolledInv, Polled!Exclusive
  <2>4. PolledShown' = <<frame'>> /\ PolledShown \o frameq = frameq
    BY <2>2, PolledQueues, PictureFacts DEF PolledShown, Polled!One
  <2> QED
    BY <1>1, <2>1, <2>2, <2>3, <2>4 DEF PolledMoves, PolledQueue
<1>3. CASE Polled!Draw
  <2>1. /\ window = "draw" /\ window' = "loop" /\ displayed' = Append(displayed, frame)
        /\ frame' = 0 /\ mutex' = "nobody" /\ UNCHANGED <<frameq, decoder>>
    BY <1>3, PictureFacts DEF Polled!Draw, Polled!decoderVars, Polled!Free
  <2>2. frame \in Pics /\ frame # 0 /\ mutex = "window" /\ PolledShown = <<frame>>
    BY <2>1, PolledQueues DEF PolledInv
  <2>3. displayed' \in Seq(Pics)
    BY <1>0, <2>1, <2>2, AppendProperties
  <2>4. PolledInv'
    BY <1>1, <2>1, <2>2, <2>3 DEF PolledInv, Polled!Exclusive
  <2>5. PolledShown' = <<>>
    BY <2>1, PictureFacts DEF PolledShown, Polled!One
  <2>6. PolledQueue' = frameq \o PolledMade
    BY <1>0, <1>1, <2>1, <2>5, ConcatEmptySeq DEF PolledQueue
  <2>7. <<frame>> \in Seq(Pics) /\ frameq \o PolledMade \in Seq(Pics)
    BY <1>0, <2>2, Ends, ConcatProperties
  <2>8. PolledQueue = <<frame>> \o (frameq \o PolledMade)
    BY <1>0, <2>2, <2>7, ConcatAssociative DEF PolledQueue
  <2>9. PolledTake
    BY <2>1, <2>2, <2>6, <2>7, <2>8, Leaves DEF PolledTake
  <2> QED
    BY <2>4, <2>9 DEF PolledMoves
<1>4. CASE \/ Polled!start_decode \/ Polled!WindowLock \/ Polled!end_decode
           \/ Polled!CloseWindow \/ (Polled!Poll /\ window' # "draw")
  <2>1. UNCHANGED <<frameq, frame, displayed>>
    BY <1>4 DEF Polled!start_decode, Polled!WindowLock, Polled!end_decode, Polled!CloseWindow,
                Polled!Poll
  <2>2. PolledInv'
    <3>1. CASE Polled!start_decode
      BY <1>1, <2>1, <3>1 DEF Polled!start_decode, Polled!Free, PolledInv, Polled!Exclusive
    <3>2. CASE Polled!WindowLock
      BY <1>1, <2>1, <3>2
      DEF Polled!WindowLock, Polled!Free, Polled!decoderVars, PolledInv, Polled!Exclusive
    <3>3. CASE Polled!end_decode
      BY <1>1, <2>1, <3>3 DEF Polled!end_decode, Polled!decoderVars, PolledInv, Polled!Exclusive
    <3>4. CASE Polled!CloseWindow
      BY <1>1, <2>1, <3>4 DEF Polled!CloseWindow, Polled!decoderVars, PolledInv, Polled!Exclusive
    <3>5. CASE Polled!Poll /\ window' # "draw"
      BY <1>1, <2>1, <3>5
      DEF Polled!Poll, Polled!Free, Polled!decoderVars, PolledInv, Polled!Exclusive
    <3> QED
      BY <1>4, <3>1, <3>2, <3>3, <3>4, <3>5
  <2> QED
    BY <1>1, <2>1, <2>2 DEF PolledMoves, PolledQueue, PolledShown
<1> QED
  BY <1>2, <1>3, <1>4 DEF Polled!main

LEMMA PolledStep == PolledInv /\ [Polled!Next]_polledVars => PolledInv' /\ PolledMoves
<1> SUFFICES ASSUME PolledInv, UNCHANGED polledVars PROVE PolledInv' /\ PolledMoves
  BY PolledDecoder, PolledWindow DEF Polled!Next
<1>1. UNCHANGED <<mutex, frameq, decoder, polled_pos, dst, window, frame, displayed>>
  BY DEF polledVars
<1> QED
  BY <1>1 DEF PolledInv, Polled!Exclusive, PolledMoves, PolledQueue, PolledShown, PolledMade

LEMMA PolledFifoInit == Polled!Init => Polled!Pipeline!FifoInit
<1> SUFFICES ASSUME Polled!Init PROVE Polled!Pipeline!FifoInit
  OBVIOUS
<1>1. PolledInv /\ frame = 0 /\ dst = 0 /\ frameq = <<>> /\ displayed = <<>>
  BY PolledInit, PictureFacts DEF Polled!Init
<1>2. PolledShown \o frameq = <<>> /\ PolledMade = <<>> /\ <<>> \in Seq(Pics)
  BY <1>1, PolledQueues
<1>3. PolledQueue = <<>>
  BY <1>2, ConcatEmptySeq DEF PolledQueue
<1> QED
  BY <1>1, <1>3 DEF Polled!Pipeline!FifoInit, PolledQueue, PolledShown, PolledMade

LEMMA PolledFifoStep == PolledMoves => [Polled!Pipeline!FifoNext]_(Polled!Pipeline!fifoVars)
<1>1. ASSUME NEW p \in Pics, PolledPut(p) PROVE Polled!Pipeline!FifoNext
  BY <1>1, PictureFacts
  DEF Polled!Pipeline!FifoNext, Polled!Pipeline!Put, PolledPut, PolledQueue, PolledShown,
      PolledMade
<1>2. PolledTake => Polled!Pipeline!FifoNext
  BY DEF Polled!Pipeline!FifoNext, Polled!Pipeline!Take, PolledTake, PolledQueue, PolledShown,
         PolledMade
<1>3. PolledQueue' = PolledQueue /\ displayed' = displayed => UNCHANGED Polled!Pipeline!fifoVars
  BY DEF Polled!Pipeline!fifoVars, PolledQueue, PolledShown, PolledMade
<1> QED
  BY <1>1, <1>2, <1>3 DEF PolledMoves

-------------------------------------------------------------------------------
(* The three players beside each other.                                    *)

AllInv == OrderInv /\ GlInv /\ TimeInv /\ PolledInv

LEMMA PlayersStart == PlayersInit => AllInv
BY OrderInit, GlInit, TimeInit, PolledInit DEF PlayersInit, AllInv

\* A step of the whole is a step of each player or leaves it as it is.
LEMMA PlayersEach ==
  [PlayersNext]_allVars => [Next]_vars /\ [Opengl!Next]_openglVars /\ [Polled!Next]_polledVars
BY DEF PlayersNext, PlaySound, PlayFile, PlayPolled, allVars

LEMMA PlayersStep == AllInv /\ [PlayersNext]_allVars => AllInv'
BY PlayersEach, OrderStep, GlStep, TimeStep, PolledStep DEF AllInv

LEMMA PlayersAlways == PlayersSpec => []AllInv
BY PlayersStart, PlayersStep, PTL DEF PlayersSpec

\* The types of all three, and the mutual exclusion of the polled player's threads: each
\* accesses the queue only with the mutex, and the mutex is not destroyed under one.
THEOREM PlayersTyped == PlayersSpec => []Types
<1>1. AllInv => Types
  BY OrderTyped DEF AllInv, Types, GlInv, PolledInv
<1> QED
  BY <1>1, PlayersAlways, PTL

\* From decoder to screen both players implement FifoQueue, a picture is displayed at its
\* own time or between those of its neighbours, and sound is queued in the order of the
\* file.
THEOREM PlayersInOrder == PlayersSpec => ShownInOrder
<1>1. PlayersInit => Opengl!Pipeline!FifoInit /\ Polled!Pipeline!FifoInit
  BY GlFifoInit, PolledFifoInit DEF PlayersInit
<1>2. AllInv /\ AllInv' /\ [PlayersNext]_allVars
        => /\ [Opengl!Pipeline!FifoNext]_(Opengl!Pipeline!fifoVars)
           /\ [Polled!Pipeline!FifoNext]_(Polled!Pipeline!fifoVars)
  BY PlayersEach, GlFifoStep, PolledStep, PolledFifoStep DEF AllInv
<1>3. AllInv => Opengl!TimesAscend /\ QueuedInOrder
  BY OrderTyped, TimesRight DEF AllInv
<1>4. PlayersSpec => Opengl!Pipeline!FifoSpec /\ Polled!Pipeline!FifoSpec
  BY <1>1, <1>2, PlayersAlways, PTL
  DEF PlayersSpec, Opengl!Pipeline!FifoSpec, Polled!Pipeline!FifoSpec
<1>5. PlayersSpec => [](Opengl!TimesAscend /\ QueuedInOrder)
  BY <1>3, PlayersAlways, PTL
<1> QED
  BY <1>4, <1>5 DEF ShownInOrder, Opengl!PipelineIsFifo, Polled!PipelineIsFifo
===============================================================================
