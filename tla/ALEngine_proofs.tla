--------------------------- MODULE ALEngine_proofs ---------------------------
(***************************************************************************)
(* Theorems about AudioDecoder, for a file of any length, a queue of any   *)
(* capacity and any number of seeks, and about ALEngine, the player beside *)
(* it, for any number of buffers.  The decoder's invariant is used for the *)
(* engine as it stands: every step of the engine is a step of the decoder  *)
(* or leaves it alone.                                                     *)
(***************************************************************************)
EXTENDS ALEngine, SequenceTheorems, TLAPS

-------------------------------------------------------------------------------
(* The decoder.                                                            *)

Holds == {"lock", "test", "block", "wait", "woken"}

PcOK ==
  /\ pc["decode"] \in {"read", "notify", "done"} \cup Holds
  /\ pc["play"] \in {"idle", "notify"} \cup Holds
  /\ pc["control"] \in {"idle", "seek", "notify_all", "join", "drain", "stopped"}

\* The thread inside the mutex is the one between lock and unlock.
MutexOK ==
  \A t \in {"decode", "play"} : pc[t] \in {"test", "block"} <=> m_pmtx = t

\* What a thread saw when it evaluated its predicate still holds when it sleeps.
StillTrue ==
  /\ pc["play"] = "block" => m_queueData = <<>>
  /\ pc["decode"] = "block" => Len(m_queueData) >= MAX_BUFF_SIZE

ControlOK ==
  /\ pc["control"] = "seek" => epoch < seeks
  /\ pc["control"] \in {"notify_all", "join", "drain", "stopped"} => m_bStop

\* Unless a seek is pending, the frame DecodeThread holds belongs to the
\* present position and follows everything queued.
HeldFrameFresh ==
  /\ pc["decode"] \in Holds => frame # NoFrame
  /\ frame # NoFrame /\ ~m_bSeeked =>
       /\ frame.epoch = epoch
       /\ frame.pos < next
       /\ \A i \in DOMAIN m_queueData : m_queueData[i].pos < frame.pos

QueueBehind == \A i \in DOMAIN m_queueData : m_queueData[i].pos < next

IInv ==
  /\ DecoderTypeOK
  /\ PcOK /\ MutexOK /\ StillTrue /\ ControlOK
  /\ HeldFrameFresh /\ QueueBehind
  /\ NoStaleFrame /\ FileOrder /\ NoDecoderWakeupLost

USE DecoderAssumption DEF DecoderAssumption

LEMMA InitInv == DecoderInit => IInv
<1> SUFFICES ASSUME DecoderInit PROVE IInv
  OBVIOUS
<1> USE DEF DecoderInit
<1>1. /\ pc["decode"] = "read" /\ pc["play"] = "idle" /\ pc["control"] = "idle"
      /\ pc \in [Threads -> Where]
  BY DEF Threads, Where
<1>2. DecoderTypeOK
  <2>1. m_queueData \in Seq(Frames) /\ Len(m_queueData) <= MAX_BUFF_SIZE OBVIOUS
  <2>2. next \in 1 .. NPackets + 1 /\ epoch \in 0 .. seeks /\ seeks \in 0 .. MaxSeeks
    OBVIOUS
  <2> QED BY <1>1, <2>1, <2>2 DEF DecoderTypeOK
<1>3. PcOK /\ MutexOK /\ StillTrue /\ ControlOK
  BY <1>1 DEF PcOK, MutexOK, StillTrue, ControlOK, Holds
<1>4. HeldFrameFresh /\ QueueBehind /\ NoStaleFrame /\ FileOrder /\ NoDecoderWakeupLost
  BY <1>1 DEF HeldFrameFresh, Holds, QueueBehind, NoStaleFrame, FileOrder, NoDecoderWakeupLost
<1> QED BY <1>2, <1>3, <1>4 DEF IInv

-------------------------------------------------------------------------------
(* Every step preserves it.                                                *)

LEMMA NextInv == IInv /\ [DecoderNext]_decoderVars => IInv'
<1> SUFFICES ASSUME IInv, [DecoderNext]_decoderVars PROVE IInv'
  OBVIOUS
<1> USE DEF IInv, DecoderTypeOK, PcOK, MutexOK, StillTrue, ControlOK,
     HeldFrameFresh, QueueBehind, NoStaleFrame, FileOrder, NoDecoderWakeupLost,
     Holds, Threads, Where, Waiting, Go
<1>0. /\ \A i \in DOMAIN m_queueData : m_queueData[i] \in Frames /\ m_queueData[i].pos \in Nat
      /\ frame # NoFrame => frame.pos \in Nat /\ frame.epoch \in Nat
      /\ next \in Nat /\ epoch \in Nat /\ seeks \in Nat
  <2>1. \A f \in Frames : f.pos \in Nat /\ f.epoch \in Nat BY DEF Frames
  <2>2. \A i \in DOMAIN m_queueData : m_queueData[i] \in Frames OBVIOUS
  <2>3. next \in Nat /\ epoch \in Nat /\ seeks \in Nat OBVIOUS
  <2>4. frame # NoFrame => frame \in Frames OBVIOUS
  <2> QED BY ONLY <2>1, <2>2, <2>3, <2>4
<1>1. CASE ReadFrame
  <2>1. CASE next > NPackets BY <1>1, <2>1 DEF ReadFrame
  <2>2. CASE next <= NPackets
    <3>1. next \in 1 .. NPackets /\ epoch \in 0 .. MaxSeeks BY <2>2
    <3>2. [pos |-> next, epoch |-> epoch] \in Frames BY <3>1 DEF Frames
    <3>3. CASE UNCHANGED <<frame, pc>> /\ next' = next + 1
      BY <1>0, <1>1, <2>2, <3>3 DEF ReadFrame
    <3>4. CASE frame' = [pos |-> next, epoch |-> epoch] /\ Go("decode", "lock")
               /\ next' = next + 1
      <4>1. DecoderTypeOK' BY <1>1, <2>2, <3>2, <3>4 DEF ReadFrame
      <4>2. (PcOK /\ MutexOK /\ StillTrue /\ ControlOK /\ NoDecoderWakeupLost)'
        BY <1>1, <2>2, <3>4 DEF ReadFrame
      <4>3. frame'.pos = next /\ frame'.epoch = epoch /\ frame' # NoFrame
        BY <3>2, <3>4
      <4>4. (HeldFrameFresh /\ QueueBehind /\ NoStaleFrame /\ FileOrder)'
        BY <1>0, <1>1, <2>2, <3>4, <4>3 DEF ReadFrame
      <4> QED BY <4>1, <4>2, <4>4
    <3> QED BY <1>1, <2>2, <3>3, <3>4 DEF ReadFrame
  <2> QED BY <2>1, <2>2
<1>2. ASSUME NEW t \in {"decode", "play"}, Lock(t) PROVE IInv' BY <1>2 DEF Lock
<1>3. ASSUME NEW t \in {"decode", "play"}, Block(t) PROVE IInv' BY <1>3 DEF Block
<1>4. ASSUME NEW t \in {"decode", "play"}, SpuriousWakeup(t) PROVE IInv'
  BY <1>4 DEF SpuriousWakeup
<1>5. CASE NoRoom BY <1>5 DEF NoRoom
<1>6. CASE HaveRoom
  <2>1. frame \in Frames BY <1>6 DEF HaveRoom
  <2>2. CASE m_bStop \/ m_bSeeked
    <3>1. /\ frame' = NoFrame /\ m_pmtx = "decode" /\ m_pmtx' = "free"
          /\ UNCHANGED <<m_queueData, m_bStop, got, next, epoch, seeks>>
      BY <1>6, <2>2 DEF HaveRoom
    <3>2. \/ m_bStop /\ pc' = [pc EXCEPT !["decode"] = "done"] /\ UNCHANGED m_bSeeked
          \/ ~m_bStop /\ pc' = [pc EXCEPT !["decode"] = "read"] /\ m_bSeeked' = FALSE
      BY <1>6, <2>2 DEF HaveRoom
    <3>3. DecoderTypeOK' BY <3>1, <3>2, ZenonT(60)
    <3>4. (PcOK /\ MutexOK /\ StillTrue /\ ControlOK)' BY <3>1, <3>2, <1>6 DEF HaveRoom
    <3>5. (HeldFrameFresh /\ QueueBehind /\ NoStaleFrame /\ FileOrder)' BY <3>1, <3>2
    <3>6. NoDecoderWakeupLost' BY <3>1, <3>2, <1>6 DEF HaveRoom
    <3> QED BY <3>3, <3>4, <3>5, <3>6
  <2>3. CASE ~m_bStop /\ ~m_bSeeked
    <3>1. /\ Len(m_queueData) < MAX_BUFF_SIZE
          /\ m_queueData' = Append(m_queueData, frame)
          /\ frame.epoch = epoch /\ frame.pos < next
      BY <1>6, <2>3 DEF HaveRoom
    <3>2. /\ m_queueData' \in Seq(Frames)
          /\ Len(m_queueData') = Len(m_queueData) + 1
          /\ m_queueData'[Len(m_queueData')] = frame
          /\ \A i \in DOMAIN m_queueData : m_queueData'[i] = m_queueData[i]
          /\ DOMAIN m_queueData' = DOMAIN m_queueData \cup {Len(m_queueData')}
      BY <2>1, <3>1
    <3>3. DecoderTypeOK' BY <1>6, <2>3, <3>1, <3>2 DEF HaveRoom
    <3>4. (PcOK /\ MutexOK /\ StillTrue /\ ControlOK /\ NoDecoderWakeupLost)'
      BY <1>6, <2>3, <3>1, <3>2 DEF HaveRoom
    <3>5. (HeldFrameFresh /\ QueueBehind /\ NoStaleFrame)'
      BY <1>6, <2>1, <2>3, <3>1, <3>2 DEF HaveRoom
    <3>6. FileOrder'
      <4> SUFFICES ASSUME NEW i \in DOMAIN m_queueData', NEW j \in DOMAIN m_queueData', i < j
                   PROVE m_queueData'[i].pos < m_queueData'[j].pos
        OBVIOUS
      <4>1. i \in DOMAIN m_queueData BY <3>2
      <4> QED BY <1>6, <2>3, <3>2, <4>1 DEF HaveRoom
    <3> QED BY <3>3, <3>4, <3>5, <3>6
  <2> QED BY <2>2, <2>3
<1>7. CASE NotifyOne("decode", "read") BY <1>7 DEF NotifyOne
<1>8. CASE GetFrameCall BY <1>8 DEF GetFrameCall
<1>9. CASE NoData BY <1>9 DEF NoData
<1>10. CASE PopFrame
  <2>1. CASE m_bStop BY <1>10, <2>1 DEF PopFrame
  <2>2. CASE ~m_bStop
    <3>1. m_queueData # <<>> /\ m_queueData' = Tail(m_queueData) /\ got' = Head(m_queueData)
      BY <1>10, <2>2 DEF PopFrame
    <3>2. /\ m_queueData' \in Seq(Frames)
          /\ Len(m_queueData') = Len(m_queueData) - 1
          /\ \A i \in DOMAIN m_queueData' :
               i + 1 \in DOMAIN m_queueData /\ m_queueData'[i] = m_queueData[i + 1]
          /\ got' \in Frames
      BY <3>1
    <3>3. DecoderTypeOK'
      <4>1. pc' \in [Threads -> Where] /\ m_pmtx' = "free" BY <1>10 DEF PopFrame
      <4>2. UNCHANGED <<m_bStop, m_bSeeked, frame, next, epoch, seeks>> BY <1>10 DEF PopFrame
      <4> QED BY <3>2, <4>1, <4>2
    <3>4. pc' = [pc EXCEPT !["play"] = "notify"] /\ m_pmtx = "play" /\ m_pmtx' = "free"
      BY <1>10 DEF PopFrame
    <3>5. (PcOK /\ MutexOK /\ StillTrue /\ ControlOK /\ NoDecoderWakeupLost)'
      <4>1. UNCHANGED <<m_bStop, epoch, seeks>> BY <1>10 DEF PopFrame
      <4>2. (PcOK /\ MutexOK /\ StillTrue /\ ControlOK)' BY <3>4, <4>1
      <4>3. NoDecoderWakeupLost' BY <3>1, <3>4, <4>1
      <4> QED BY <4>2, <4>3
    <3>7. (HeldFrameFresh /\ QueueBehind /\ NoStaleFrame)'
      <4>1. UNCHANGED <<m_bSeeked, frame, next, epoch>> BY <1>10 DEF PopFrame
      <4>2. (QueueBehind /\ NoStaleFrame)' BY <3>2, <4>1
      <4>3. HeldFrameFresh' BY <3>2, <3>4, <4>1
      <4> QED BY <4>2, <4>3
    <3>6. FileOrder'
      <4> SUFFICES ASSUME NEW i \in DOMAIN m_queueData', NEW j \in DOMAIN m_queueData', i < j
                   PROVE m_queueData'[i].pos < m_queueData'[j].pos
        OBVIOUS
      <4>1. i + 1 \in DOMAIN m_queueData /\ j + 1 \in DOMAIN m_queueData /\ i + 1 < j + 1
        BY <3>2
      <4> QED BY <3>2, <4>1
    <3> QED BY <3>3, <3>5, <3>6, <3>7
  <2> QED BY <2>1, <2>2
<1>11. CASE NotifyOne("play", "idle") BY <1>11 DEF NotifyOne
<1>12. CASE SeekCall BY <1>12 DEF SeekCall
<1>13. CASE SetSeekPosition
  <2>1. epoch < seeks BY <1>13 DEF SetSeekPosition
  <2>2. pc' \in [Threads -> Where] BY <1>13 DEF SetSeekPosition, NotifyAll
  <2>3. pc'["decode"] \in Holds <=> pc["decode"] \in Holds
    BY <1>13 DEF SetSeekPosition, NotifyAll
  <2>4. m_queueData' = <<>> /\ m_bSeeked' = TRUE BY <1>13 DEF SetSeekPosition
  <2>5. DecoderTypeOK' BY <1>13, <2>1, <2>2, <2>4 DEF SetSeekPosition
  <2>6. (PcOK /\ MutexOK /\ ControlOK /\ NoDecoderWakeupLost)'
    BY <1>13, <2>4 DEF SetSeekPosition, NotifyAll
  <2>7. pc["play"] # "block" /\ pc["decode"] # "block" BY <1>13 DEF SetSeekPosition
  <2>8. StillTrue' BY <1>13, <2>4, <2>7 DEF SetSeekPosition, NotifyAll
  <2>9. (HeldFrameFresh /\ QueueBehind /\ NoStaleFrame /\ FileOrder)'
    BY <1>13, <2>3, <2>4 DEF SetSeekPosition
  <2> QED BY <2>5, <2>6, <2>8, <2>9
<1>14. CASE StopFlag BY <1>14 DEF StopFlag
<1>15. CASE StopNotify
  <2>1. pc' \in [Threads -> Where] BY <1>15 DEF StopNotify, NotifyAll
  <2>2. /\ pc'["decode"] \in Holds <=> pc["decode"] \in Holds
        /\ \A t \in {"decode", "play"} :
             /\ pc'[t] \in {"test", "block"} <=> pc[t] \in {"test", "block"}
             /\ pc'[t] = "block" <=> pc[t] = "block"
             /\ pc'[t] # "wait"
        /\ pc'["control"] = "join"
    BY <1>15 DEF StopNotify, NotifyAll
  <2>3. DecoderTypeOK' BY <1>15, <2>1 DEF StopNotify
  <2>4. PcOK' BY <1>15 DEF StopNotify, NotifyAll
  <2>5. (MutexOK /\ StillTrue /\ ControlOK /\ NoDecoderWakeupLost)'
    BY <1>15, <2>2 DEF StopNotify
  <2>6. (HeldFrameFresh /\ QueueBehind /\ NoStaleFrame /\ FileOrder)'
    BY <1>15, <2>2 DEF StopNotify
  <2> QED BY <2>3, <2>4, <2>5, <2>6
<1>16. CASE StopJoin BY <1>16 DEF StopJoin
<1>17. CASE StopDrain
  <2>1. m_queueData' = <<>> /\ UNCHANGED <<m_bStop, m_bSeeked, m_pmtx, frame, got, next, epoch, seeks>>
    BY <1>17 DEF StopDrain
  <2>2. m_pmtx = "free" /\ pc' = [pc EXCEPT !["control"] = "stopped"] BY <1>17 DEF StopDrain
  <2>3. pc["decode"] # "block" /\ pc["play"] # "block" BY <2>2
  <2>4. DecoderTypeOK' BY <2>1, <2>2
  <2>5. (PcOK /\ MutexOK /\ ControlOK)' BY <1>17, <2>1, <2>2 DEF StopDrain
  <2>6. (StillTrue /\ HeldFrameFresh /\ QueueBehind /\ NoStaleFrame /\ FileOrder)'
    BY <2>1, <2>2, <2>3
  <2>7. NoDecoderWakeupLost' BY <1>17, <2>1 DEF StopDrain
  <2> QED BY <2>4, <2>5, <2>6, <2>7
<1>18. CASE UNCHANGED decoderVars BY <1>18 DEF decoderVars
<1> QED
  BY <1>1, <1>2, <1>3, <1>4, <1>5, <1>6, <1>7, <1>8, <1>9, <1>10, <1>11, <1>12,
     <1>13, <1>14, <1>15, <1>16, <1>17, <1>18
     DEF DecoderNext, DecodeThread, GetFrame, StopDecode

LEMMA InductiveInvariant == DecoderSpec => []IInv
<1>1. DecoderInit => IInv BY InitInv
<1>2. IInv /\ [DecoderNext]_decoderVars => IInv' BY NextInv
<1> QED BY <1>1, <1>2, PTL DEF DecoderSpec

-------------------------------------------------------------------------------
(* The theorems.                                                           *)

\* The queue of audioengine.cpp never holds more than MAX_BUFF_SIZE frames, and
\* every variable keeps its type.
THEOREM DecoderTypeCorrect == DecoderSpec => []DecoderTypeOK
BY InductiveInvariant, PTL DEF IInv

\* However SetSeekPosition interleaves with DecodeThread, no frame decoded from
\* before the last successful seek is left in, or reaches, the queue.
THEOREM SeekDiscardsStaleFrames == DecoderSpec => []NoStaleFrame
BY InductiveInvariant, PTL DEF IInv

\* The queue holds frames in the order of the file, across any number of seeks,
\* successful or not.
THEOREM QueueInFileOrder == DecoderSpec => []FileOrder
BY InductiveInvariant, PTL DEF IInv

\* Until StopDecode is called, the shared condition variable loses no wakeup:
\* neither side sleeps while there is something for it to do, unless the other
\* is about to notify it.
THEOREM WakeupsNotLost == DecoderSpec => []NoDecoderWakeupLost
BY InductiveInvariant, PTL DEF IInv

-------------------------------------------------------------------------------
(* The engine.                                                             *)

Slot == [buffer : Buffers \cup {NoBuffer}, frame : Frames]

\* What the variables hold.
Kinds ==
  /\ stage \in {"running", "flagged", "silenced", "decoder", "deleted"}
  /\ at \in {"loop", "callback", "check", "query", "done"}
  /\ bufferID \in Buffers \cup {NoBuffer}
  /\ filled \in 0 .. NUMBUFFERS /\ todo \in Nat
  /\ state \in {"initial", "playing", "paused", "stopped"}
  /\ source \in Seq(Slot) /\ played \in Nat

\* The playing thread is in GetFrame only from SoundCallback, and comes back with a frame
\* unless the decoder was stopped.
Calls ==
  /\ at # "callback" => pc["play"] = "idle"
  /\ at = "callback" => todo > 0
  /\ at = "callback" /\ pc["play"] \in {"notify", "idle"} /\ ~m_bStop => got # NoFrame
  /\ ~m_bStopped => ~m_bStop

\* The device has something to play as long as it plays.
Playing ==
  /\ played <= Len(source)
  /\ state \in {"playing", "paused"} => played < Len(source)
  /\ state = "initial" => played = 0

\* The first loop ...
Filling ==
  filled < NUMBUFFERS =>
    /\ state = "initial" /\ at \in {"loop", "callback"}
    /\ todo = NUMBUFFERS - filled + (IF at = "callback" THEN 1 ELSE 0)

\* ... and the others: what is left of the count, without the buffer that is out.
Left == IF at = "callback" THEN todo - 1 ELSE todo

Counted == filled = NUMBUFFERS /\ at \in {"loop", "callback"} => Left <= BuffersProcessed

InHand == bufferID \in IF at = "callback" THEN Buffers ELSE {NoBuffer}

HeardFirst(n) == \A i \in 1 .. n : i <= Len(source) => source[i].frame.pos \in heard

WasHeard ==
  /\ filled = NUMBUFFERS /\ at \in {"loop", "callback"} => HeardFirst(Left)
  /\ state \in {"playing", "paused"} => HeardFirst(played)
  /\ at \in {"check", "query"} /\ state = "stopped" => HeardFirst(Len(source))

Running == ~m_bStopped => Filling /\ Counted /\ InHand /\ WasHeard /\ PoolConserved

Returned == at = "callback" /\ pc["play"] \in {"notify", "idle"} /\ got # NoFrame

\* Everything behind the source is later than what is in it, and so on down to the file.
Ordered ==
  /\ ~m_bSeeked /\ pc["control"] # "seek"
  /\ \A i, j \in DOMAIN source : i < j => source[i].frame.pos < source[j].frame.pos
  /\ \A i \in DOMAIN source :
       /\ source[i].frame.pos < next
       /\ Returned => source[i].frame.pos < got.pos
       /\ \A j \in DOMAIN m_queueData : source[i].frame.pos < m_queueData[j].pos
       /\ frame # NoFrame => source[i].frame.pos < frame.pos
  /\ Returned =>
       /\ got.pos < next
       /\ \A j \in DOMAIN m_queueData : got.pos < m_queueData[j].pos
       /\ frame # NoFrame => got.pos < frame.pos

EInv == IInv /\ Kinds /\ Calls /\ Playing /\ Running /\ Ordered

-------------------------------------------------------------------------------
LEMMA EngineConstants ==
  /\ NUMBUFFERS \in Nat /\ NUMBUFFERS > 0 /\ NoBuffer = 0 /\ NoFrame \notin Frames
  /\ Buffers = 1 .. NUMBUFFERS
BY EngineAssumption, DecoderAssumption DEF Buffers, NoBuffer

LEMMA Positions ==
  ASSUME IInv, Kinds
  PROVE  /\ \A f \in Frames : f.pos \in Nat
         /\ \A i \in DOMAIN source : source[i] \in Slot /\ source[i].frame.pos \in Nat
         /\ \A i \in DOMAIN m_queueData : m_queueData[i] \in Frames
         /\ m_queueData \in Seq(Frames) /\ next \in Nat
         /\ Len(source) \in Nat /\ DOMAIN source = 1 .. Len(source)
         /\ source = <<>> <=> Len(source) = 0
<1>1. \A f \in Frames : f.pos \in Nat
  BY DEF Frames
<1>2. Len(source) \in Nat /\ DOMAIN source = 1 .. Len(source)
      /\ (source = <<>> <=> Len(source) = 0)
  BY LenProperties, EmptySeq DEF Kinds
<1>3. \A i \in DOMAIN source : source[i] \in Slot
  BY <1>2, LenProperties DEF Kinds
<1>4. \A i \in DOMAIN source : source[i].frame \in Frames
  BY <1>3 DEF Slot
<1>5. m_queueData \in Seq(Frames) /\ next \in 1 .. NPackets + 1
  BY DEF IInv, DecoderTypeOK
<1>6. \A i \in DOMAIN m_queueData : m_queueData[i] \in Frames
  BY <1>5, LenProperties
<1>7. next \in Nat
  BY <1>5, DecoderAssumption
<1> QED
  BY <1>1, <1>2, <1>3, <1>4, <1>5, <1>6, <1>7

\* The decoder does what it does alone.
LEMMA DecoderPart == IInv /\ [Next]_vars => IInv'
<1> SUFFICES ASSUME IInv, [Next]_vars PROVE IInv'
  OBVIOUS
<1>1. CASE DecoderThreads
  BY <1>1, NextInv DEF DecoderThreads, DecoderNext
<1>2. CASE SoundPlayingThread
  <2>1. GetFrameCall \/ UNCHANGED decoderVars
    BY <1>2 DEF SoundPlayingThread, NextBuffer, SoundCallback, Play, CheckStop, CountProcessed
  <2> QED
    BY <2>1, NextInv DEF DecoderNext
<1>3. CASE StopDecoder
  BY <1>3, NextInv DEF StopDecoder, DecoderNext
<1>4. CASE DevicePlays \/ Pause \/ PausePlay \/ StopEngine \/ StopSource
           \/ DetachBuffers \/ JoinPlayer \/ UNCHANGED vars
  <2>1. UNCHANGED decoderVars
    BY <1>4 DEF DevicePlays, Pause, PausePlay, StopEngine, StopSource, DetachBuffers,
                JoinPlayer, vars
  <2> QED
    BY <2>1, NextInv
<1> QED
  BY <1>1, <1>2, <1>3, <1>4 DEF Next

LEMMA EngineInit == Init => EInv
<1> SUFFICES ASSUME Init PROVE EInv
  OBVIOUS
<1>1. IInv
  BY InitInv DEF Init
<1>2. /\ stage = "running" /\ at = "loop" /\ bufferID = 0 /\ filled = 0
      /\ todo = NUMBUFFERS /\ state = "initial" /\ source = <<>> /\ played = 0
      /\ pc["play"] = "idle" /\ pc["control"] = "idle" /\ ~m_bStop /\ ~m_bSeeked
  BY DEF Init, DecoderInit, NoBuffer
<1>3. source \in Seq(Slot) /\ Len(source) = 0 /\ DOMAIN source = {}
  BY <1>2, EmptySeq
<1>4. Kinds /\ Calls /\ Playing
  BY <1>2, <1>3, EngineConstants DEF Kinds, Calls, Playing, m_bStopped
<1>5. Queued = {}
  BY <1>3 DEF Queued
<1>6. Running
  BY <1>2, <1>3, <1>5, EngineConstants
  DEF Running, Filling, Counted, InHand, WasHeard, PoolConserved
<1>7. Ordered
  BY <1>2, <1>3 DEF Ordered, Returned
<1> QED
  BY <1>1, <1>4, <1>6, <1>7 DEF EInv

-------------------------------------------------------------------------------
(* The steps of the decoder's threads: the source and the buffers stay.    *)

LEMMA EngineStays ==
  ASSUME EInv, UNCHANGED engineVars
  PROVE  Kinds' /\ Playing' /\ Running'
BY DEF EInv, engineVars, sourceVars, playerVars, Kinds, Playing, Running, m_bStopped,
       Filling, Counted, BuffersProcessed, Left, InHand, WasHeard, HeardFirst,
       PoolConserved, Queued

\* A step that moves no frame.
LEMMA NoFrameMoves ==
  ASSUME EInv, UNCHANGED <<engineVars, m_queueData, frame, got, next, m_bSeeked>>,
         pc'["control"] # "seek", m_bStop => m_bStop', m_bStop' => m_bStopped,
         pc["play"] = "idle" => pc'["play"] = "idle",
         pc'["play"] \in {"notify", "idle"} => pc["play"] \in {"notify", "idle"}
  PROVE  Calls' /\ Ordered'
<1>1. UNCHANGED <<stage, at, todo, source>> /\ m_bStopped' = m_bStopped
  BY DEF engineVars, sourceVars, playerVars, m_bStopped
<1>2. Calls'
  BY <1>1 DEF EInv, Calls
<1>3. Returned' => Returned
  BY <1>1 DEF Returned
<1>4. Ordered'
  BY <1>1, <1>3 DEF EInv, Ordered
<1> QED
  BY <1>2, <1>4

LEMMA ReadStep == EInv /\ ReadFrame /\ UNCHANGED engineVars => Calls' /\ Ordered'
<1> SUFFICES ASSUME EInv, ReadFrame, UNCHANGED engineVars PROVE Calls' /\ Ordered'
  OBVIOUS
<1>1. /\ UNCHANGED <<m_queueData, m_bStop, m_bSeeked, got>>
      /\ pc'["play"] = pc["play"] /\ pc'["control"] = pc["control"]
  BY DEF ReadFrame, Go, EInv, IInv, DecoderTypeOK, Threads
<1>2. \/ UNCHANGED <<frame, next>>
      \/ next' = next + 1 /\ (frame' = frame \/ frame'.pos = next)
  BY DEF ReadFrame
<1>3. UNCHANGED <<stage, at, todo, source>> /\ m_bStopped' = m_bStopped
  BY DEF engineVars, sourceVars, playerVars, m_bStopped
<1>4. Calls'
  BY <1>1, <1>3 DEF EInv, Calls
<1>5. Returned' = Returned
  BY <1>1, <1>3 DEF Returned
<1>6. Returned => got.pos \in Nat
  BY Positions DEF Returned, EInv, IInv, DecoderTypeOK
<1>7. Ordered'
  BY <1>1, <1>2, <1>3, <1>5, <1>6, Positions DEF EInv, Ordered
<1> QED
  BY <1>4, <1>7

LEMMA QueueStep == EInv /\ HaveRoom /\ UNCHANGED engineVars => Calls' /\ Ordered'
<1> SUFFICES ASSUME EInv, HaveRoom, UNCHANGED engineVars PROVE Calls' /\ Ordered'
  OBVIOUS
<1>1. /\ UNCHANGED <<m_bStop, got, next>> /\ frame' = NoFrame
      /\ pc["decode"] = "test" /\ m_bSeeked' = m_bSeeked /\ ~m_bSeeked
      /\ pc'["play"] = pc["play"] /\ pc'["control"] = pc["control"]
  BY DEF HaveRoom, Go, EInv, IInv, DecoderTypeOK, Threads, Ordered
<1>2. UNCHANGED <<stage, at, todo, source>> /\ m_bStopped' = m_bStopped
  BY DEF engineVars, sourceVars, playerVars, m_bStopped
<1>3. Calls'
  BY <1>1, <1>2 DEF EInv, Calls
<1>4. Returned' = Returned
  BY <1>1, <1>2 DEF Returned
<1>5. CASE UNCHANGED m_queueData
  BY <1>1, <1>2, <1>3, <1>4, <1>5 DEF EInv, Ordered
<1>6. CASE m_queueData' = Append(m_queueData, frame)
  <2>1. frame # NoFrame /\ frame \in Frames
    BY <1>1 DEF EInv, IInv, DecoderTypeOK, HeldFrameFresh, Holds
  <2>2. \A j \in DOMAIN m_queueData' :
          \/ m_queueData'[j] = frame
          \/ j \in DOMAIN m_queueData /\ m_queueData'[j] = m_queueData[j]
    BY <1>6, <2>1, AppendProperties, LenProperties, Positions DEF EInv
  <2>3. Ordered'
    BY <1>1, <1>2, <1>4, <2>1, <2>2 DEF EInv, Ordered
  <2> QED
    BY <1>3, <2>3
<1> QED
  BY <1>5, <1>6 DEF HaveRoom

LEMMA PopStep == EInv /\ PopFrame /\ UNCHANGED engineVars => Calls' /\ Ordered'
<1> SUFFICES ASSUME EInv, PopFrame, UNCHANGED engineVars PROVE Calls' /\ Ordered'
  OBVIOUS
<1>1. /\ UNCHANGED <<m_bStop, m_bSeeked, frame, next>>
      /\ pc["play"] = "test" /\ pc'["play"] = "notify" /\ pc'["control"] = pc["control"]
  BY DEF PopFrame, Go, EInv, IInv, DecoderTypeOK, Threads
<1>2. UNCHANGED <<stage, at, todo, source>> /\ m_bStopped' = m_bStopped /\ at = "callback"
  BY <1>1 DEF engineVars, sourceVars, playerVars, m_bStopped, EInv, Calls
<1>3. CASE m_bStop
  <2>1. got' = NoFrame /\ m_queueData' = m_queueData
    BY <1>3 DEF PopFrame
  <2> QED
    BY <1>1, <1>2, <1>3, <2>1 DEF EInv, Calls, Ordered, Returned
<1>4. CASE ~m_bStop
  <2>1. /\ m_queueData # <<>> /\ got' = Head(m_queueData)
        /\ m_queueData' = Tail(m_queueData)
    BY <1>4 DEF PopFrame
  <2>2. m_queueData \in Seq(Frames) /\ Len(m_queueData) \in Nat /\ Len(m_queueData) > 0
        /\ DOMAIN m_queueData = 1 .. Len(m_queueData)
    BY <2>1, Positions, LenProperties, EmptySeq DEF EInv
  <2>3. /\ got' = m_queueData[1] /\ 1 \in DOMAIN m_queueData /\ got' \in Frames
    BY <2>1, <2>2, Positions DEF EInv
  <2>4. \A j \in DOMAIN m_queueData' :
          /\ j + 1 \in DOMAIN m_queueData /\ 1 < j + 1
          /\ m_queueData'[j] = m_queueData[j + 1]
    BY <2>1, <2>2, HeadTailProperties, LenProperties
  <2>5. Calls'
    BY <1>1, <1>2, <1>4, <2>3, EngineConstants DEF EInv, Calls
  <2>6. /\ got'.pos < next
        /\ \A j \in DOMAIN m_queueData' : got'.pos < m_queueData'[j].pos
        /\ frame # NoFrame => got'.pos < frame.pos
    BY <2>3, <2>4 DEF EInv, IInv, Ordered, FileOrder, QueueBehind, HeldFrameFresh
  <2>7. \A i \in DOMAIN source :
          /\ source[i].frame.pos < got'.pos
          /\ \A j \in DOMAIN m_queueData' : source[i].frame.pos < m_queueData'[j].pos
    BY <2>3, <2>4 DEF EInv, Ordered
  <2>8. Ordered'
    BY <1>1, <1>2, <2>6, <2>7 DEF EInv, Ordered
  <2> QED
    BY <2>5, <2>8
<1> QED
  BY <1>3, <1>4

LEMMA DecoderStep == EInv /\ DecoderThreads => EInv'
<1> SUFFICES ASSUME EInv, DecoderThreads PROVE EInv'
  OBVIOUS
<1>1. UNCHANGED engineVars /\ IInv' /\ Kinds' /\ Playing' /\ Running'
  BY EngineStays, DecoderPart DEF DecoderThreads, EInv, Next
<1>2. CASE ReadFrame
  BY <1>1, <1>2, ReadStep DEF EInv
<1>3. CASE HaveRoom
  BY <1>1, <1>3, QueueStep DEF EInv
<1>4. CASE PopFrame
  BY <1>1, <1>4, PopStep DEF EInv
<1>5. ASSUME NEW t \in {"decode", "play"}, NEW w \in {"test", "wait", "woken", "block"},
             pc[t] # "idle", Go(t, w),
             UNCHANGED <<m_queueData, frame, got, next, m_bSeeked, m_bStop>>
      PROVE  EInv'
  <2>1. pc \in [Threads -> Where] /\ pc["control"] # "seek"
    BY DEF EInv, IInv, DecoderTypeOK, Ordered
  <2>2. pc'["control"] = pc["control"]
    BY <1>5, <2>1 DEF Go, Threads
  <2>3. CASE t = "play"
    <3>1. pc["play"] # "idle" /\ pc'["play"] = w
      BY <1>5, <2>1, <2>3 DEF Go, Threads
    <3> QED
      BY <1>1, <1>5, <2>1, <2>2, <3>1, NoFrameMoves DEF EInv, Calls
  <2>4. CASE t = "decode"
    <3>1. pc'["play"] = pc["play"]
      BY <1>5, <2>1, <2>4 DEF Go, Threads
    <3> QED
      BY <1>1, <1>5, <2>1, <2>2, <3>1, NoFrameMoves DEF EInv, Calls
  <2> QED
    BY <2>3, <2>4
<1>6. ASSUME NEW t \in {"decode", "play"},
             Lock(t) \/ Block(t) \/ SpuriousWakeup(t) \/ NoRoom \/ NoData
      PROVE  EInv'
  BY <1>5, <1>6 DEF Lock, Block, SpuriousWakeup, NoRoom, NoData
<1>7. ASSUME NEW t \in {"decode", "play"}, NEW w \in {"read", "idle"},
             t = "play" <=> w = "idle", NotifyOne(t, w)
      PROVE  EInv'
  <2>1. /\ UNCHANGED <<m_queueData, frame, got, next, m_bSeeked, m_bStop>>
        /\ pc["play"] = "idle" => pc'["play"] = "idle"
        /\ pc'["play"] \in {"notify", "idle"} => pc["play"] \in {"notify", "idle"}
        /\ pc'["control"] # "seek"
    BY <1>7 DEF NotifyOne, Waiting, Go, EInv, IInv, DecoderTypeOK, Threads, Ordered
  <2> QED
    BY <1>1, <2>1, NoFrameMoves DEF EInv, Calls
<1> QED
  BY <1>2, <1>3, <1>4, <1>6, <1>7
  DEF DecoderThreads, DecodeThread, GetFrame

-------------------------------------------------------------------------------
(* The steps of the playing thread.                                        *)

\* Frames stay in order when none moves, or when the source is emptied.
LEMMA SourceStays ==
  ASSUME EInv, UNCHANGED <<m_queueData, frame, got, next, m_bSeeked>>,
         pc'["control"] # "seek", source' = source \/ source' = <<>>, Returned' => Returned
  PROVE  Ordered'
<1>1. source' = <<>> => DOMAIN source' = {}
  BY EmptySeq
<1> QED
  BY <1>1 DEF EInv, Ordered

LEMMA FillStep == EInv /\ NextBuffer /\ FillBuffer => EInv'
<1> SUFFICES ASSUME EInv, NextBuffer, FillBuffer PROVE EInv'
  OBVIOUS
<1>1. /\ at = "loop" /\ at' = "callback" /\ todo > 0 /\ filled < NUMBUFFERS
      /\ filled' = filled + 1 /\ bufferID' = filled + 1
      /\ UNCHANGED <<stage, heard, todo, state, source, played>>
      /\ UNCHANGED <<m_queueData, frame, got, next, m_bSeeked, m_bStop>>
  BY DEF NextBuffer, FillBuffer, GetFrameCall, sourceVars
<1>2. pc'["play"] = "lock" /\ pc'["control"] = pc["control"]
  BY DEF NextBuffer, GetFrameCall, Go, EInv, IInv, DecoderTypeOK, Threads
<1>3. IInv'
  BY DecoderPart DEF EInv, Next, SoundPlayingThread
<1>4. filled \in Nat /\ filled' \in 1 .. NUMBUFFERS /\ bufferID' \in Buffers
  BY <1>1, EngineConstants DEF EInv, Kinds
<1>5. Kinds' /\ Playing' /\ Calls'
  BY <1>1, <1>2, <1>4, EngineConstants DEF EInv, Kinds, Playing, Calls, m_bStopped
<1>6. Ordered'
  BY <1>1, <1>2, SourceStays DEF Returned, EInv, Ordered
<1>7. Running'
  <2> SUFFICES ASSUME ~m_bStopped
               PROVE  (Filling /\ Counted /\ InHand /\ WasHeard /\ PoolConserved)'
    BY <1>1 DEF Running, m_bStopped
  <2>1. /\ state = "initial" /\ todo = NUMBUFFERS - filled /\ played = 0
        /\ Queued = 1 .. filled /\ Len(source) = filled
    <3>1. Filling /\ PoolConserved /\ Playing
      BY DEF EInv, Running
    <3>2. Queued \cup {} = 1 .. filled /\ Len(source) = filled
      BY <1>1, <3>1 DEF PoolConserved
    <3>3. Queued = 1 .. filled
      BY <3>2
    <3>4. state = "initial" /\ todo = NUMBUFFERS - filled + 0 /\ played = 0
      BY <1>1, <3>1 DEF Filling, Playing
    <3> QED
      BY <1>4, <3>2, <3>3, <3>4, EngineConstants
  <2>2. Left' = NUMBUFFERS - filled' /\ BuffersProcessed' = 0
    BY <1>1, <1>4, <2>1, EngineConstants DEF Left, BuffersProcessed
  <2>3. Filling' /\ Counted' /\ InHand'
    BY <1>1, <1>4, <2>1, <2>2, EngineConstants DEF Filling, Counted, InHand
  <2>4. WasHeard'
    BY <1>1, <1>4, <2>1, <2>2, EngineConstants DEF WasHeard, HeardFirst
  <2>5. Queued' = 1 .. filled
    BY <1>1, <2>1 DEF Queued
  <2>6. PoolConserved'
    BY <1>1, <1>4, <2>1, <2>5 DEF PoolConserved
  <2> QED
    BY <2>3, <2>4, <2>6
<1> QED
  BY <1>3, <1>5, <1>6, <1>7 DEF EInv

\* What is unqueued was counted, so it was heard.
LEMMA UnqueueStep ==
  EInv /\ NextBuffer /\ UnqueueBuffer =>
    /\ EInv'
    /\ ~m_bStopped => source' = Tail(source) /\ Head(source).frame.pos \in heard
<1> SUFFICES ASSUME EInv, NextBuffer, UnqueueBuffer
             PROVE  /\ EInv'
                    /\ ~m_bStopped =>
                         source' = Tail(source) /\ Head(source).frame.pos \in heard
  OBVIOUS
<1>1. /\ at = "loop" /\ at' = "callback" /\ todo > 0 /\ todo \in Nat /\ filled = NUMBUFFERS
      /\ UNCHANGED <<stage, heard, todo, filled, state>>
      /\ UNCHANGED <<m_queueData, frame, got, next, m_bSeeked, m_bStop>>
  BY DEF NextBuffer, UnqueueBuffer, GetFrameCall, EInv, Kinds
<1>2. pc'["play"] = "lock" /\ pc'["control"] = pc["control"]
  BY DEF NextBuffer, GetFrameCall, Go, EInv, IInv, DecoderTypeOK, Threads
<1>3. IInv'
  BY DecoderPart DEF EInv, Next, SoundPlayingThread
<1>4. /\ Len(source) \in Nat /\ played \in Nat /\ played <= Len(source)
      /\ BuffersProcessed \in Nat /\ BuffersProcessed <= Len(source)
      /\ source \in Seq(Slot)
  BY Positions DEF EInv, Kinds, Playing, BuffersProcessed
<1>5. ~m_bStopped => todo <= BuffersProcessed
  BY <1>1 DEF EInv, Running, Counted, Left
<1>6. CASE /\ BuffersProcessed = 0 /\ bufferID' = NoBuffer
           /\ UNCHANGED <<source, played>>
  <2>1. m_bStopped
    BY <1>1, <1>4, <1>5, <1>6
  <2>2. Kinds' /\ Playing' /\ Calls' /\ Running'
    BY <1>1, <1>2, <1>6, <2>1
    DEF EInv, Kinds, Playing, Calls, Running, m_bStopped
  <2>3. Ordered'
    BY <1>1, <1>2, <1>6, SourceStays DEF Returned, EInv, Ordered
  <2> QED
    BY <1>3, <2>1, <2>2, <2>3 DEF EInv
<1>7. CASE /\ BuffersProcessed > 0 /\ bufferID' = Head(source).buffer
           /\ source' = Tail(source)
           /\ played' = IF played = 0 THEN 0 ELSE played - 1
  <2>1. source # <<>> /\ Len(source) > 0 /\ DOMAIN source = 1 .. Len(source)
    BY <1>4, <1>7, Positions DEF EInv
  <2>2. /\ Head(source) = source[1] /\ source[1] \in Slot /\ source' \in Seq(Slot)
        /\ Len(source') = Len(source) - 1 /\ DOMAIN source' = 1 .. Len(source')
        /\ \A i \in 1 .. Len(source') : source'[i] = source[i + 1]
    <3>1. Head(source) = source[1]
      BY <1>4, <2>1
    <3>2. source[1] \in Slot
      BY <2>1, Positions DEF EInv
    <3>3. /\ source' \in Seq(Slot) /\ Len(source') = Len(source) - 1
          /\ \A i \in 1 .. Len(source') : source'[i] = source[i + 1]
      BY <1>4, <1>7, <2>1, HeadTailProperties
    <3> QED
      BY <3>1, <3>2, <3>3, LenProperties
  <2>3. \A i \in DOMAIN source' : i + 1 \in DOMAIN source /\ source'[i] = source[i + 1]
    BY <1>4, <2>1, <2>2
  <2>4. Kinds' /\ Playing'
    <3>1. bufferID' \in Buffers \cup {NoBuffer}
      BY <1>7, <2>2 DEF Slot
    <3>2. played' \in Nat /\ played' <= Len(source')
          /\ (state = "initial" => played' = 0)
          /\ (state \in {"playing", "paused"} => played' < Len(source'))
      BY <1>4, <1>7, <2>1, <2>2 DEF EInv, Playing, BuffersProcessed
    <3> QED
      BY <1>1, <2>2, <3>1, <3>2 DEF EInv, Kinds, Playing
  <2>5. Calls'
    BY <1>1, <1>2 DEF EInv, Calls, m_bStopped
  <2>6. Ordered'
    <3>1. ~Returned'
      BY <1>2 DEF Returned
    <3>2. \A i, j \in DOMAIN source' : i < j => i + 1 < j + 1
      BY <1>4, <2>2
    <3>3. \A i, j \in DOMAIN source' : i < j => source'[i].frame.pos < source'[j].frame.pos
      BY <2>3, <3>2 DEF EInv, Ordered
    <3>4. \A i \in DOMAIN source' :
            /\ source'[i].frame.pos < next
            /\ \A j \in DOMAIN m_queueData : source'[i].frame.pos < m_queueData[j].pos
            /\ frame # NoFrame => source'[i].frame.pos < frame.pos
      BY <2>3 DEF EInv, Ordered
    <3> QED
      BY <1>1, <1>2, <3>1, <3>3, <3>4 DEF EInv, Ordered
  <2>7. ~m_bStopped => Head(source).frame.pos \in heard
    BY <1>1, <2>1, <2>2 DEF EInv, Running, WasHeard, HeardFirst, Left
  <2>8. Running'
    <3> SUFFICES ASSUME ~m_bStopped
                 PROVE  (Filling /\ Counted /\ InHand /\ WasHeard /\ PoolConserved)'
      BY <1>1 DEF Running, m_bStopped
    <3>1. /\ Left = todo /\ Left' = todo - 1 /\ todo <= BuffersProcessed
          /\ Queued = 1 .. filled /\ Len(source) = filled
      BY <1>1, <1>5 DEF Left, EInv, Running, PoolConserved
    <3>2. BuffersProcessed' = BuffersProcessed - 1
      BY <1>1, <1>4, <1>7, <2>1, <2>2 DEF BuffersProcessed
    <3>3. Filling' /\ Counted'
      BY <1>1, <1>4, <3>1, <3>2 DEF Filling, Counted
    <3>4. WasHeard'
      <4>1. \A i \in 1 .. todo : i <= Len(source) => source[i].frame.pos \in heard
        BY <1>1, <3>1 DEF EInv, Running, WasHeard, HeardFirst
      <4>2. state \in {"playing", "paused"} =>
              \A i \in 1 .. played : i <= Len(source) => source[i].frame.pos \in heard
        BY <1>1 DEF EInv, Running, WasHeard, HeardFirst
      <4>3. HeardFirst(todo - 1)'
        BY <1>1, <1>4, <2>2, <4>1 DEF HeardFirst
      <4>4. state \in {"playing", "paused"} => HeardFirst(played)'
        BY <1>1, <1>4, <1>7, <2>2, <4>2 DEF HeardFirst, BuffersProcessed
      <4> QED
        BY <1>1, <3>1, <4>3, <4>4 DEF WasHeard, HeardFirst
    <3>5. {source[i].buffer : i \in DOMAIN source}
            = {source'[i].buffer : i \in DOMAIN source'} \cup {bufferID'}
      <4>1. \A i \in DOMAIN source :
              i = 1 \/ (i - 1 \in DOMAIN source' /\ source[i] = source'[i - 1])
        BY <1>4, <2>1, <2>2
      <4>2. 1 \in DOMAIN source /\ bufferID' = source[1].buffer
        BY <1>4, <1>7, <2>1, <2>2
      <4> QED
        BY <2>3, <4>1, <4>2
    <3>6. PoolConserved'
      BY <1>1, <2>2, <3>1, <3>5 DEF PoolConserved, Queued
    <3>7. InHand'
      <4>1. bufferID' \in 1 .. filled
        BY <3>1, <3>5 DEF Queued
      <4> QED
        BY <1>1, <4>1, EngineConstants DEF InHand
    <3> QED
      BY <3>3, <3>4, <3>6, <3>7
  <2> QED
    BY <1>3, <1>7, <2>4, <2>5, <2>6, <2>7, <2>8 DEF EInv
<1> QED
  BY <1>6, <1>7 DEF UnqueueBuffer

LEMMA CallbackStep ==
  EInv /\ SoundCallback => EInv' /\ Len(source) <= Len(source')
<1> SUFFICES ASSUME EInv, SoundCallback PROVE EInv' /\ Len(source) <= Len(source')
  OBVIOUS
<1>1. /\ at = "callback" /\ at' = "loop" /\ pc["play"] = "idle" /\ bufferID' = NoBuffer
      /\ todo \in Nat /\ todo > 0 /\ todo' = todo - 1
      /\ UNCHANGED <<stage, heard, filled, state, played>>
      /\ UNCHANGED <<m_queueData, m_bStop, m_bSeeked, pc, frame, got, next>>
  BY DEF SoundCallback, decoderVars, EInv, Calls, Kinds
<1>2. IInv'
  BY DecoderPart DEF EInv, Next, SoundPlayingThread
<1>3. /\ Len(source) \in Nat /\ DOMAIN source = 1 .. Len(source) /\ source \in Seq(Slot)
      /\ got \in Frames \cup {NoFrame} /\ bufferID \in Buffers \cup {NoBuffer}
  BY Positions DEF EInv, Kinds, IInv, DecoderTypeOK
<1>4. CASE got = NoFrame
  <2>1. m_bStopped /\ source' = source
    BY <1>1, <1>4 DEF EInv, Calls, SoundCallback
  <2>2. Kinds' /\ Calls' /\ Playing' /\ Running'
    BY <1>1, <2>1 DEF EInv, Kinds, Calls, Playing, Running, m_bStopped
  <2>3. Ordered'
    BY <1>1, <2>1, SourceStays DEF EInv, Ordered, Returned
  <2> QED
    BY <1>2, <1>3, <2>1, <2>2, <2>3 DEF EInv
<1>5. CASE got # NoFrame
  <2>1. [buffer |-> bufferID, frame |-> got] \in Slot
    BY <1>3, <1>5 DEF Slot
  <2>2. source' = Append(source, [buffer |-> bufferID, frame |-> got])
    BY <1>5 DEF SoundCallback
  <2>3. /\ source' \in Seq(Slot) /\ Len(source') = Len(source) + 1
        /\ DOMAIN source' = 1 .. Len(source')
        /\ \A i \in 1 .. Len(source) : source'[i] = source[i]
        /\ source'[Len(source) + 1] = [buffer |-> bufferID, frame |-> got]
    BY <1>3, <2>1, <2>2, AppendProperties, LenProperties
  <2>4. Kinds' /\ Playing' /\ Calls'
    <3>1. Kinds'
      BY <1>1, <2>3 DEF EInv, Kinds
    <3>2. Playing'
      BY <1>1, <1>3, <2>3 DEF EInv, Kinds, Playing
    <3> QED
      BY <1>1, <3>1, <3>2 DEF EInv, Calls, m_bStopped
  <2>5. Ordered'
    <3>1. Returned
      BY <1>1, <1>5 DEF Returned
    <3>2. ~Returned'
      BY <1>1 DEF Returned
    <3>3. \A i \in DOMAIN source' :
            \/ i \in DOMAIN source /\ source'[i].frame = source[i].frame
            \/ i = Len(source) + 1 /\ source'[i].frame = got
      BY <1>3, <2>3
    <3>4. \A i, j \in DOMAIN source' : i < j => i \in DOMAIN source
      BY <1>3, <2>3
    <3>5. \A i, j \in DOMAIN source' : i < j => source'[i].frame.pos < source'[j].frame.pos
      BY <1>3, <3>1, <3>3, <3>4 DEF EInv, Ordered
    <3>6. \A i \in DOMAIN source' :
            /\ source'[i].frame.pos < next
            /\ \A j \in DOMAIN m_queueData : source'[i].frame.pos < m_queueData[j].pos
            /\ frame # NoFrame => source'[i].frame.pos < frame.pos
      BY <3>1, <3>3 DEF EInv, Ordered
    <3> QED
      BY <1>1, <3>2, <3>5, <3>6 DEF EInv, Ordered
  <2>6. Running'
    <3> SUFFICES ASSUME ~m_bStopped
                 PROVE  (Filling /\ Counted /\ InHand /\ WasHeard /\ PoolConserved)'
      BY <1>1 DEF Running, m_bStopped
    <3>1. Filling /\ Counted /\ InHand /\ WasHeard /\ PoolConserved /\ Playing
      BY DEF EInv, Running
    <3>2. Left = todo - 1 /\ Left' = todo - 1
      BY <1>1 DEF Left
    <3>3. Filling' /\ InHand'
      BY <1>1, <3>1, EngineConstants DEF Filling, InHand, EInv, Kinds
    <3>4. Counted'
      BY <1>1, <1>3, <2>3, <3>1, <3>2 DEF Counted, BuffersProcessed, EInv, Kinds
    <3>5. \A n \in Nat : n <= Len(source) /\ HeardFirst(n) => HeardFirst(n)'
      BY <1>1, <1>3, <2>3 DEF HeardFirst
    <3>6. WasHeard'
      <4>1. filled = NUMBUFFERS => todo - 1 <= Len(source) /\ HeardFirst(todo - 1)
        BY <1>1, <1>3, <3>1, <3>2
        DEF Counted, WasHeard, BuffersProcessed, Playing, EInv, Kinds
      <4>2. state \in {"playing", "paused"} => played <= Len(source) /\ HeardFirst(played)
        BY <3>1 DEF WasHeard, Playing
      <4> QED
        <5>1. played \in Nat /\ todo - 1 \in Nat
          BY <1>1 DEF EInv, Kinds
        <5> QED
          BY <1>1, <3>2, <3>5, <4>1, <4>2, <5>1 DEF WasHeard
    <3>7. Queued' = Queued \cup {bufferID}
      <4>1. \A i \in DOMAIN source : i \in DOMAIN source' /\ source'[i] = source[i]
        BY <1>3, <2>3
      <4>2. \A i \in DOMAIN source' : i \in DOMAIN source \/ source'[i].buffer = bufferID
        BY <1>3, <2>3
      <4>3. Len(source) + 1 \in DOMAIN source' /\ source'[Len(source) + 1].buffer = bufferID
        BY <1>3, <2>3
      <4> QED
        BY <4>1, <4>2, <4>3 DEF Queued
    <3>8. Queued' \cup {} = 1 .. filled
      BY <1>1, <3>1, <3>7 DEF PoolConserved
    <3>9. Len(source') = filled
      <4>1. Len(source) = filled - 1
        BY <1>1, <3>1 DEF PoolConserved
      <4> QED
        BY <1>3, <2>3, <4>1 DEF EInv, Kinds
    <3>10. PoolConserved'
      BY <1>1, <3>8, <3>9 DEF PoolConserved
    <3> QED
      BY <3>3, <3>4, <3>6, <3>10
  <2> QED
    BY <1>2, <1>3, <2>3, <2>4, <2>5, <2>6 DEF EInv
<1> QED
  BY <1>4, <1>5

\* A step that moves no buffer out of, into or past SoundCallback.
LEMMA PoolStays ==
  ASSUME EInv, UNCHANGED <<stage, bufferID, filled, source>>,
         at # "callback", at' # "callback"
  PROVE  ~m_bStopped => InHand' /\ PoolConserved'
BY DEF EInv, Running, m_bStopped, InHand, PoolConserved, Queued

LEMMA LoopStep == EInv /\ (Play \/ CheckStop \/ CountProcessed) => EInv'
<1> SUFFICES ASSUME EInv, Play \/ CheckStop \/ CountProcessed PROVE EInv'
  OBVIOUS
<1>1. /\ at \in {"loop", "check", "query"}
      /\ at' \in {"loop", "check", "query", "done"}
      /\ UNCHANGED <<stage, heard, bufferID, filled, source, decoderVars>>
      /\ UNCHANGED <<m_queueData, m_bStop, m_bSeeked, pc, frame, got, next>>
  BY DEF Play, CheckStop, CountProcessed, alSourcePlay, sourceVars, decoderVars
<1>2. IInv'
  BY DecoderPart DEF EInv, Next, SoundPlayingThread
<1>3. Calls' /\ Ordered'
  BY <1>1, SourceStays DEF EInv, Calls, m_bStopped, Ordered, Returned
<1>4. /\ Len(source) \in Nat /\ played \in Nat /\ todo \in Nat /\ filled \in 0 .. NUMBUFFERS
      /\ (source = <<>> <=> Len(source) = 0) /\ played <= Len(source)
  BY Positions DEF EInv, Kinds, Playing
<1>5. ~m_bStopped =>
        /\ Filling /\ Counted /\ WasHeard /\ InHand' /\ PoolConserved'
        /\ Len(source) = filled
  BY <1>1, PoolStays DEF EInv, Running, PoolConserved
<1>6. CASE Play
  <2>1. at = "loop" /\ at' = "check" /\ todo = 0 /\ todo' = 0
    BY <1>6 DEF Play
  <2>2. \/ /\ state \in {"stopped", "initial"} /\ played' = 0
           /\ state' = IF source = <<>> THEN "stopped" ELSE "playing"
        \/ state \in {"playing", "paused"} /\ UNCHANGED <<state, played>>
    BY <1>6 DEF Play, alSourcePlay, sourceVars
  <2>3. Kinds' /\ Playing'
    BY <1>1, <1>4, <2>1, <2>2 DEF EInv, Kinds, Playing
  <2>4. Running'
    <3> SUFFICES ASSUME ~m_bStopped PROVE (Filling /\ Counted /\ WasHeard)'
      BY <1>1, <1>5 DEF Running, m_bStopped
    <3>1. filled = NUMBUFFERS
      BY <1>4, <1>5, <2>1, EngineConstants DEF Filling
    <3>2. state' # "stopped"
      BY <1>4, <1>5, <2>2, <3>1, EngineConstants
    <3>3. state' \in {"playing", "paused"} => HeardFirst(played)'
      BY <1>1, <1>5, <2>2 DEF WasHeard, HeardFirst
    <3> QED
      BY <1>1, <2>1, <3>1, <3>2, <3>3, EngineConstants DEF Filling, Counted, WasHeard
  <2> QED
    BY <1>2, <1>3, <2>3, <2>4 DEF EInv
<1>7. CASE CheckStop
  <2>1. /\ at = "check" /\ at' \in {"query", "done"} /\ UNCHANGED <<state, played, todo>>
        /\ at' = "done" => m_bStopped
    BY <1>7 DEF CheckStop, sourceVars
  <2>2. Kinds' /\ Playing'
    BY <1>1, <2>1 DEF EInv, Kinds, Playing
  <2>3. Running'
    <3> SUFFICES ASSUME ~m_bStopped PROVE (Filling /\ Counted /\ WasHeard)'
      BY <1>1, <1>5 DEF Running, m_bStopped
    <3>1. \A n : HeardFirst(n)' = HeardFirst(n)
      BY <1>1 DEF HeardFirst
    <3> QED
      BY <1>1, <1>5, <2>1, <3>1 DEF Filling, Counted, WasHeard, HeardFirst
  <2> QED
    BY <1>2, <1>3, <2>2, <2>3 DEF EInv
<1>8. CASE CountProcessed
  <2>1. /\ at = "query" /\ at' = "loop" /\ todo' = BuffersProcessed
        /\ UNCHANGED <<state, played>>
    BY <1>8 DEF CountProcessed, sourceVars
  <2>2. todo' \in Nat /\ BuffersProcessed' = todo' /\ Left' = todo'
    BY <1>1, <1>4, <2>1 DEF BuffersProcessed, Left
  <2>3. Kinds' /\ Playing'
    BY <1>1, <2>1, <2>2 DEF EInv, Kinds, Playing
  <2>4. Running'
    <3> SUFFICES ASSUME ~m_bStopped PROVE (Filling /\ Counted /\ WasHeard)'
      BY <1>1, <1>5 DEF Running, m_bStopped
    <3>1. Filling' /\ Counted'
      BY <1>1, <1>4, <1>5, <2>1, <2>2 DEF Filling, Counted
    <3>2. HeardFirst(todo')
      BY <1>5, <2>1 DEF BuffersProcessed, WasHeard, HeardFirst, EInv, Kinds, Playing
    <3>3. \A n : HeardFirst(n)' = HeardFirst(n)
      BY <1>1 DEF HeardFirst
    <3> QED
      BY <1>5, <2>1, <2>2, <3>1, <3>2, <3>3 DEF WasHeard, HeardFirst
  <2> QED
    BY <1>2, <1>3, <2>3, <2>4 DEF EInv
<1> QED
  BY <1>6, <1>7, <1>8

-------------------------------------------------------------------------------
(* The device, and the window's thread.                                    *)

LEMMA DeviceStep == EInv /\ DevicePlays => EInv'
<1> SUFFICES ASSUME EInv, DevicePlays PROVE EInv'
  OBVIOUS
<1>1. /\ state = "playing" /\ played' = played + 1
      /\ heard' = heard \cup {source[played + 1].frame.pos}
      /\ state' = IF played + 1 = Len(source) THEN "stopped" ELSE "playing"
      /\ UNCHANGED <<stage, at, bufferID, filled, todo, source>>
      /\ UNCHANGED <<m_queueData, m_bStop, m_bSeeked, pc, frame, got, next>>
  BY DEF DevicePlays, decoderVars, playerVars
<1>2. IInv'
  BY DecoderPart DEF EInv, Next
<1>3. Len(source) \in Nat /\ played \in Nat /\ todo \in Nat /\ played < Len(source)
  BY <1>1, Positions DEF EInv, Kinds, Playing
<1>4. Kinds' /\ Playing' /\ Calls'
  BY <1>1, <1>3 DEF EInv, Kinds, Playing, Calls, m_bStopped
<1>5. Ordered'
  BY <1>1, SourceStays DEF EInv, Ordered, Returned
<1>6. Running'
  <2> SUFFICES ASSUME ~m_bStopped
               PROVE  (Filling /\ Counted /\ InHand /\ WasHeard /\ PoolConserved)'
    BY <1>1 DEF Running, m_bStopped
  <2>1. Filling /\ Counted /\ InHand /\ WasHeard /\ PoolConserved /\ filled = NUMBUFFERS
    BY <1>1, EngineConstants DEF EInv, Running, Filling, Kinds
  <2>2. Filling' /\ InHand'
    BY <1>1, <2>1 DEF Filling, InHand
  <2>3. PoolConserved'
    BY <1>1, <2>1 DEF PoolConserved, Queued, m_bStopped
  <2>4. Left' = Left /\ BuffersProcessed = played /\ BuffersProcessed' = played + 1
    BY <1>1, <1>3 DEF Left, BuffersProcessed
  <2>5. Counted'
    BY <1>1, <1>3, <2>1, <2>4 DEF Counted, Left
  <2>6. HeardFirst(played)'
    <3>1. \A i \in 1 .. played : source[i].frame.pos \in heard
      BY <1>1, <1>3, <2>1 DEF WasHeard, HeardFirst
    <3>2. \A i \in 1 .. played + 1 : source[i].frame.pos \in heard'
      BY <1>1, <1>3, <3>1
    <3> QED
      BY <1>1, <3>2 DEF HeardFirst
  <2>7. HeardFirst(Left) => HeardFirst(Left)'
    BY <1>1, <2>4 DEF HeardFirst
  <2>8. WasHeard'
    BY <1>1, <1>3, <2>1, <2>6, <2>7 DEF WasHeard, HeardFirst
  <2> QED
    BY <2>2, <2>3, <2>5, <2>8
<1> QED
  BY <1>2, <1>4, <1>5, <1>6 DEF EInv

LEMMA PauseStep == EInv /\ (Pause \/ PausePlay) => EInv'
<1> SUFFICES ASSUME EInv, Pause \/ PausePlay PROVE EInv'
  OBVIOUS
<1>1. IInv'
  BY DecoderPart DEF EInv, Next
<1>2. UNCHANGED <<stage, at, bufferID, filled, todo, source, heard>>
  BY DEF Pause, PausePlay, alSourcePlay, playerVars
<1>3. UNCHANGED <<m_queueData, m_bStop, m_bSeeked, pc, frame, got, next>>
  BY DEF Pause, PausePlay, decoderVars
<1>4. /\ {state, state'} = {"playing", "paused"} /\ UNCHANGED played
      /\ played < Len(source) /\ Len(source) \in Nat /\ played \in Nat
  <2>1. Len(source) \in Nat /\ played \in Nat /\ (source = <<>> <=> Len(source) = 0)
        /\ (state \in {"playing", "paused"} => played < Len(source))
    BY Positions DEF EInv, Kinds, Playing
  <2> QED
    BY <2>1 DEF Pause, PausePlay, alSourcePlay
<1>5. Kinds' /\ Playing' /\ Calls'
  BY <1>2, <1>3, <1>4 DEF EInv, Kinds, Playing, Calls, m_bStopped
<1>6. Ordered'
  BY <1>2, <1>3, SourceStays DEF EInv, Ordered, Returned
<1>7. Left' = Left /\ BuffersProcessed' = BuffersProcessed
  BY <1>2, <1>4 DEF Left, BuffersProcessed
<1>8. \A n : HeardFirst(n)' = HeardFirst(n)
  BY <1>2 DEF HeardFirst
<1>9. Running'
  <2> SUFFICES ASSUME ~m_bStopped
               PROVE  (Filling /\ Counted /\ InHand /\ WasHeard /\ PoolConserved)'
    BY <1>2 DEF Running, m_bStopped
  <2>1. Filling /\ Counted /\ InHand /\ WasHeard /\ PoolConserved
    BY DEF EInv, Running
  <2>2. Filling' /\ Counted' /\ InHand'
    BY <1>2, <1>4, <1>7, <2>1 DEF Filling, Counted, InHand
  <2>3. PoolConserved'
    BY <1>2, <2>1 DEF PoolConserved, Queued, m_bStopped
  <2>4. WasHeard'
    BY <1>2, <1>4, <1>7, <1>8, <2>1 DEF WasHeard
  <2> QED
    BY <2>2, <2>3, <2>4
<1> QED
  BY <1>1, <1>5, <1>6, <1>9 DEF EInv

LEMMA StopStep ==
  /\ EInv
  /\ StopEngine \/ StopSource \/ DetachBuffers \/ StopDecoder \/ JoinPlayer
  => EInv' /\ m_bStopped'
<1> SUFFICES ASSUME EInv,
                    StopEngine \/ StopSource \/ DetachBuffers \/ StopDecoder \/ JoinPlayer
             PROVE  EInv' /\ m_bStopped'
  OBVIOUS
<1>1. IInv'
  BY DecoderPart DEF EInv, Next
<1>2. /\ m_bStopped' /\ stage' \in {"flagged", "silenced", "decoder", "deleted"}
      /\ UNCHANGED <<at, bufferID, filled, todo>>
  BY DEF StopEngine, StopSource, DetachBuffers, StopDecoder, JoinPlayer, m_bStopped,
         engineVars, playerVars
<1>3. Running'
  BY <1>2 DEF Running
<1>4. /\ Len(source) \in Nat /\ played \in Nat
      /\ \/ source' = source /\ played' = played /\ state' \in {state, "stopped"}
         \/ source' = <<>> /\ played' = 0 /\ state' \in {"stopped", "initial"}
  <2>1. Len(source) \in Nat /\ played \in Nat
    BY Positions DEF EInv, Kinds
  <2>2. CASE StopSource
    BY <2>1, <2>2 DEF StopSource
  <2>3. CASE StopEngine
    BY <2>1, <2>3 DEF StopEngine, sourceVars
  <2>4. CASE StopDecoder
    BY <2>1, <2>4 DEF StopDecoder, engineVars, sourceVars
  <2>5. CASE DetachBuffers
    BY <2>1, <2>5 DEF DetachBuffers
  <2>6. CASE JoinPlayer
    BY <2>1, <2>6 DEF JoinPlayer
  <2> QED
    BY <2>2, <2>3, <2>4, <2>5, <2>6
<1>5. Kinds' /\ Playing'
  <2>1. <<>> \in Seq(Slot) /\ Len(<<>>) = 0
    BY EmptySeq
  <2>2. CASE source' = source /\ played' = played /\ state' \in {state, "stopped"}
    <3>1. Kinds'
      BY <1>2, <2>2 DEF EInv, Kinds
    <3>2. Playing'
      BY <2>2 DEF EInv, Playing
    <3> QED
      BY <3>1, <3>2
  <2>3. CASE source' = <<>> /\ played' = 0 /\ state' \in {"stopped", "initial"}
    <3>1. Kinds'
      BY <1>2, <2>1, <2>3 DEF EInv, Kinds
    <3>2. Playing'
      BY <2>1, <2>3 DEF Playing
    <3> QED
      BY <3>1, <3>2
  <2> QED
    BY <1>4, <2>2, <2>3
<1>6. CASE StopDecoder
  <2>1. m_bStop => m_bStop'
    BY <1>6 DEF StopDecoder, StopFlag, StopDecode, StopNotify, StopJoin, StopDrain
  <2>2. pc'["control"] # "seek"
    BY <1>6 DEF StopDecoder, StopFlag, StopDecode, StopNotify, StopJoin, StopDrain,
                Go, NotifyAll, EInv, IInv, DecoderTypeOK, Threads
  <2>3. /\ pc["play"] = "idle" => pc'["play"] = "idle"
        /\ pc'["play"] \in {"notify", "idle"} => pc["play"] \in {"notify", "idle"}
    BY <1>6 DEF StopDecoder, StopFlag, StopDecode, StopNotify, StopJoin, StopDrain,
                Go, NotifyAll, Waiting, EInv, IInv, DecoderTypeOK, Threads
  <2>4. /\ UNCHANGED <<source, frame, got, next, m_bSeeked>>
        /\ m_queueData' = m_queueData \/ m_queueData' = <<>>
    BY <1>6 DEF StopDecoder, StopFlag, StopDecode, StopNotify, StopJoin, StopDrain,
                engineVars, sourceVars
  <2>5. Calls'
    BY <1>2, <2>1, <2>3, <2>4 DEF EInv, Calls
  <2>6. Ordered'
    <3>1. Returned' => Returned
      BY <1>2, <2>3, <2>4 DEF Returned
    <3>2. \A j \in DOMAIN m_queueData' :
            j \in DOMAIN m_queueData /\ m_queueData'[j] = m_queueData[j]
      BY <2>4, EmptySeq
    <3> QED
      BY <2>2, <2>4, <3>1, <3>2 DEF EInv, Ordered
  <2> QED
    BY <1>1, <1>2, <1>3, <1>5, <2>5, <2>6 DEF EInv
<1>7. CASE ~StopDecoder
  <2>1. UNCHANGED <<m_queueData, m_bStop, m_bSeeked, pc, frame, got, next>>
    BY <1>7 DEF StopEngine, StopSource, DetachBuffers, JoinPlayer, decoderVars
  <2>2. Calls'
    BY <1>2, <2>1 DEF EInv, Calls
  <2>3. Ordered'
    BY <1>2, <1>4, <2>1, SourceStays DEF EInv, Ordered, Returned
  <2> QED
    BY <1>1, <1>2, <1>3, <1>5, <2>2, <2>3 DEF EInv
<1> QED
  BY <1>6, <1>7

-------------------------------------------------------------------------------
LEMMA EngineNext == EInv /\ [Next]_vars => EInv'
<1> SUFFICES ASSUME EInv, [Next]_vars PROVE EInv'
  OBVIOUS
<1>1. CASE UNCHANGED vars
  <2>1. UNCHANGED <<decoderVars, engineVars>>
    BY <1>1 DEF vars
  <2>2. UNCHANGED <<m_queueData, frame, got, next, m_bSeeked, m_bStop, pc>>
    BY <2>1 DEF decoderVars
  <2>3. IInv' /\ Calls' /\ Ordered' /\ Kinds' /\ Playing' /\ Running'
    BY <2>1, <2>2, DecoderPart, EngineStays, NoFrameMoves DEF EInv, Ordered, Calls
  <2> QED
    BY <2>3 DEF EInv
<1>2. CASE NextBuffer
  BY <1>2, FillStep, UnqueueStep DEF NextBuffer
<1> QED
  BY <1>1, <1>2, DecoderStep, CallbackStep, LoopStep, DeviceStep, PauseStep, StopStep
  DEF Next, SoundPlayingThread

THEOREM EngineInvariance == Spec => []EInv
BY EngineInit, EngineNext, PTL DEF Spec

-------------------------------------------------------------------------------
(* What the engine promises.                                               *)

\* Until Stop, no buffer of the pool is lost or queued twice, however the device's
\* progress, pauses and the decoder interleave with the count.
THEOREM EngineBuffersConserved == Spec => []PoolConserved
<1>1. EInv => PoolConserved
  BY DEF EInv, Running, PoolConserved
<1> QED
  BY EngineInvariance, <1>1, PTL

\* Until Stop, a buffer is refilled only after its frame was heard, although what
\* OpenAL counts as processed may have changed since it was counted.
THEOREM EngineSkipsNothing == Spec => NothingSkipped
<1> DEFINE Shorter ==
      ~m_bStopped /\ Len(source') < Len(source) => Head(source).frame.pos \in heard
<1>1. EInv /\ [Next]_vars => [Shorter]_vars
  <2> SUFFICES ASSUME EInv, Next, ~m_bStopped, Len(source') < Len(source)
               PROVE  Head(source).frame.pos \in heard
    OBVIOUS
  <2>1. Len(source) \in Nat
    BY Positions DEF EInv
  <2>2. source' # source
    BY <2>1
  <2>3. CASE NextBuffer
    <3>1. UnqueueBuffer
      BY <2>2, <2>3 DEF NextBuffer, FillBuffer, sourceVars
    <3> QED
      BY <2>3, <3>1, UnqueueStep
  <2>4. CASE SoundCallback
    <3>1. Len(source) <= Len(source') /\ EInv'
      BY <2>4, CallbackStep
    <3>2. Len(source') \in Nat
      BY <3>1, LenProperties DEF EInv, Kinds
    <3> QED
      BY <2>1, <3>1, <3>2
  <2>5. CASE DetachBuffers \/ JoinPlayer
    BY <2>5 DEF DetachBuffers, JoinPlayer, m_bStopped
  <2> QED
    BY <2>2, <2>3, <2>4, <2>5
    DEF Next, SoundPlayingThread, DecoderThreads, DevicePlays, Pause, PausePlay, StopEngine,
        StopSource, StopDecoder, Play, CheckStop, CountProcessed, alSourcePlay, engineVars,
        sourceVars
<1> QED
  BY EngineInvariance, <1>1, PTL DEF Spec, NothingSkipped

-------------------------------------------------------------------------------
(* The order of the frames on their way to the device.                     *)

Increasing(s) == \A i, j \in DOMAIN s : i < j => s[i] < s[j]

Before(s, t) == \A i \in DOMAIN s, j \in DOMAIN t : s[i] < t[j]

LEMMA Joined ==
  ASSUME NEW s \in Seq(Nat), NEW t \in Seq(Nat), Increasing(s), Increasing(t), Before(s, t)
  PROVE  /\ s \o t \in Seq(Nat) /\ Increasing(s \o t)
         /\ \A u \in Seq(Nat) : Before(s, u) /\ Before(t, u) => Before(s \o t, u)
<1>1. /\ s \o t \in Seq(Nat) /\ Len(s) \in Nat /\ Len(t) \in Nat
      /\ DOMAIN s = 1 .. Len(s) /\ DOMAIN t = 1 .. Len(t)
      /\ DOMAIN (s \o t) = 1 .. Len(s) + Len(t)
  BY ConcatProperties, LenProperties
<1>2. \A i \in DOMAIN (s \o t) :
        \/ i \in DOMAIN s /\ (s \o t)[i] = s[i]
        \/ i > Len(s) /\ i - Len(s) \in DOMAIN t /\ (s \o t)[i] = t[i - Len(s)]
  <2>1. \A i \in 1 .. Len(s) + Len(t) :
          (s \o t)[i] = IF i <= Len(s) THEN s[i] ELSE t[i - Len(s)]
    BY ConcatProperties
  <2> QED
    BY <1>1, <2>1
<1>3. Increasing(s \o t)
  <2> SUFFICES ASSUME NEW i \in DOMAIN (s \o t), NEW j \in DOMAIN (s \o t), i < j
               PROVE  (s \o t)[i] < (s \o t)[j]
    BY DEF Increasing
  <2>1. i \in Nat /\ j \in Nat
    BY <1>1
  <2>2. CASE j \in DOMAIN s /\ (s \o t)[j] = s[j]
    <3>1. i \in DOMAIN s /\ (s \o t)[i] = s[i]
      BY <1>1, <1>2, <2>1, <2>2
    <3> QED
      BY <2>2, <3>1 DEF Increasing
  <2>3. CASE j - Len(s) \in DOMAIN t /\ (s \o t)[j] = t[j - Len(s)]
    <3>1. CASE i \in DOMAIN s /\ (s \o t)[i] = s[i]
      BY <2>3, <3>1 DEF Before
    <3>2. CASE i - Len(s) \in DOMAIN t /\ (s \o t)[i] = t[i - Len(s)]
      <4>1. i - Len(s) < j - Len(s)
        BY <1>1, <2>1
      <4> QED
        BY <2>3, <3>2, <4>1 DEF Increasing
    <3> QED
      BY <1>2, <3>1, <3>2
  <2> QED
    BY <1>2, <2>2, <2>3
<1>4. \A u \in Seq(Nat) : Before(s, u) /\ Before(t, u) => Before(s \o t, u)
  BY <1>2 DEF Before
<1> QED
  BY <1>1, <1>3, <1>4

\* From the decoder's hands to the source no frame overtakes another, and none is there
\* twice, whoever is stopped, paused or woken in between.
THEOREM EngineKeepsOrder == Spec => []EndToEndOrder
<1>1. EInv => EndToEndOrder
  <2> SUFFICES ASSUME EInv PROVE EndToEndOrder
    OBVIOUS
  <2> DEFINE Queue == [i \in DOMAIN source |-> source[i].frame.pos]
             Hand == IF Returned THEN <<got.pos>> ELSE <<>>
             Decoded == [i \in DOMAIN m_queueData |-> m_queueData[i].pos]
             Held == IF frame # NoFrame THEN <<frame.pos>> ELSE <<>>
  <2>1. /\ Len(source) \in Nat /\ DOMAIN source = 1 .. Len(source)
        /\ Len(m_queueData) \in Nat /\ DOMAIN m_queueData = 1 .. Len(m_queueData)
        /\ \A i \in DOMAIN source : source[i].frame.pos \in Nat
        /\ \A i \in DOMAIN m_queueData : m_queueData[i].pos \in Nat
        /\ frame # NoFrame => frame.pos \in Nat
        /\ got # NoFrame => got.pos \in Nat
    <3>1. frame \in Frames \cup {NoFrame} /\ got \in Frames \cup {NoFrame}
      BY DEF EInv, IInv, DecoderTypeOK
    <3> QED
      BY <3>1, Positions, LenProperties DEF EInv
  <2>2. Queue \in Seq(Nat) /\ Decoded \in Seq(Nat)
        /\ DOMAIN Queue = DOMAIN source /\ DOMAIN Decoded = DOMAIN m_queueData
    <3>1. Queue \in [1 .. Len(source) -> Nat] /\ Decoded \in [1 .. Len(m_queueData) -> Nat]
      BY <2>1
    <3> QED
      BY <2>1, <3>1, SeqDef
  <2>3. Hand \in Seq(Nat) /\ Held \in Seq(Nat)
        /\ (\A i \in DOMAIN Hand : i = 1 /\ Returned /\ Hand[i] = got.pos)
        /\ (\A i \in DOMAIN Held : i = 1 /\ frame # NoFrame /\ Held[i] = frame.pos)
    BY <2>1, EmptySeq DEF Returned
  <2>4. Increasing(Queue) /\ Increasing(Hand) /\ Increasing(Decoded) /\ Increasing(Held)
    <3>1. Increasing(Queue)
      BY <2>2 DEF Increasing, EInv, Ordered
    <3>2. Increasing(Decoded)
      BY <2>2 DEF Increasing, EInv, IInv, FileOrder
    <3>3. Increasing(Hand) /\ Increasing(Held)
      BY <2>3 DEF Increasing
    <3> QED
      BY <3>1, <3>2, <3>3
  <2>5. Before(Queue, Hand) /\ Before(Queue, Decoded) /\ Before(Queue, Held)
    BY <2>2, <2>3 DEF Before, EInv, Ordered
  <2>6. Before(Hand, Decoded) /\ Before(Hand, Held)
    BY <2>2, <2>3 DEF Before, EInv, Ordered
  <2>7. Before(Decoded, Held)
    BY <2>2, <2>3 DEF Before, EInv, Ordered, IInv, HeldFrameFresh
  <2> HIDE DEF Queue, Hand, Decoded, Held
  <2>8. /\ Queue \o Hand \in Seq(Nat) /\ Increasing(Queue \o Hand)
        /\ Before(Queue \o Hand, Decoded) /\ Before(Queue \o Hand, Held)
    BY <2>2, <2>3, <2>4, <2>5, <2>6, Joined
  <2>9. /\ (Queue \o Hand) \o Decoded \in Seq(Nat)
        /\ Increasing((Queue \o Hand) \o Decoded)
        /\ Before((Queue \o Hand) \o Decoded, Held)
    BY <2>2, <2>3, <2>4, <2>7, <2>8, Joined
  <2>10. Increasing(((Queue \o Hand) \o Decoded) \o Held)
    BY <2>3, <2>4, <2>9, Joined
  <2>11. Pipeline = ((Queue \o Hand) \o Decoded) \o Held
    BY DEF Pipeline, Returned, Queue, Hand, Decoded, Held
  <2> QED
    BY <2>10, <2>11 DEF EndToEndOrder, Increasing
<1> QED
  BY EngineInvariance, <1>1, PTL
===============================================================================
