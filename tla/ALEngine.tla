------------------------------- MODULE ALEngine -------------------------------
(***************************************************************************)
(* ALEngine of audioengine.cpp: AudioDecoder, and the playing thread that  *)
(* circulates NUMBUFFERS OpenAL buffers: it unqueues the buffers the       *)
(* device has played, fills each with the next decoded frame (GetFrame)    *)
(* and queues it again.  The window's thread pauses, resumes and stops.    *)
(* The OpenAL source is external; it is modelled by the OpenAL 1.1 rules   *)
(* the calls of the engine rely on.                                        *)
(***************************************************************************)
EXTENDS AudioDecoder

CONSTANT NUMBUFFERS    \* 4 in the code

ASSUME EngineAssumption == NUMBUFFERS \in Nat \ {0}

NoBuffer == 0          \* the value of bufferID when nothing was unqueued
Buffers == 1 .. NUMBUFFERS

VARIABLES
  stage,      \* how far Stop got; m_bStop is stage # "running"
  at,         \* where SoundPlayingThread is, outside GetFrame
  bufferID,   \* the buffer SoundCallback fills
  filled,     \* m_buffers passed to SoundCallback by the first loop
  todo,       \* calls of SoundCallback left in the current loop
  state,      \* AL_SOURCE_STATE
  source,     \* the queue of the source: buffers with the frame in each
  played,     \* how many of them the device has played since it started
  heard       \* history: the packets heard

sourceVars == <<state, source, played>>
playerVars == <<at, bufferID, filled, todo>>
engineVars == <<stage, heard, sourceVars, playerVars>>
vars == <<decoderVars, engineVars>>

m_bStopped == stage # "running"

\* AL_BUFFERS_PROCESSED: all of them, when the source has stopped.
BuffersProcessed == IF state = "stopped" THEN Len(source) ELSE played

Init ==
  /\ DecoderInit
  /\ stage = "running"
  /\ at = "loop"
  /\ bufferID = NoBuffer
  /\ filled = 0
  /\ todo = NUMBUFFERS
  /\ state = "initial"
  /\ source = <<>>
  /\ played = 0
  /\ heard = {}

-------------------------------------------------------------------------------
(* The device.                                                             *)

\* alSourcePlay starts from the head of the queue, unless the source is paused;
\* a source with nothing queued stops at once.
alSourcePlay ==
  /\ state' = IF source = <<>> THEN "stopped" ELSE "playing"
  /\ played' = IF state = "paused" THEN played ELSE 0
  /\ UNCHANGED source

DevicePlays ==
  /\ state = "playing"
  /\ played' = played + 1
  /\ heard' = heard \cup {source[played + 1].frame.pos}
  /\ state' = IF played + 1 = Len(source) THEN "stopped" ELSE "playing"
  /\ UNCHANGED <<decoderVars, stage, source, playerVars>>

-------------------------------------------------------------------------------
(* SoundPlayingThread.                                                     *)

\* The first loop takes the buffers of m_buffers in turn ...
FillBuffer ==
  /\ filled < NUMBUFFERS
  /\ bufferID' = filled + 1
  /\ filled' = filled + 1
  /\ UNCHANGED sourceVars

\* ... the second unqueues them; alSourceUnqueueBuffers leaves bufferID at 0
\* when Stop has detached the queue since it was counted.
UnqueueBuffer ==
  /\ filled = NUMBUFFERS
  /\ \/ /\ BuffersProcessed > 0
        /\ bufferID' = Head(source).buffer
        /\ source' = Tail(source)
        /\ played' = IF played = 0 THEN 0 ELSE played - 1
     \/ /\ BuffersProcessed = 0
        /\ bufferID' = NoBuffer
        /\ UNCHANGED <<source, played>>
  /\ UNCHANGED <<filled, state>>

\* Either way SoundCallback is called with the buffer and calls GetFrame.
NextBuffer ==
  /\ at = "loop"
  /\ todo > 0
  /\ at' = "callback"
  /\ FillBuffer \/ UnqueueBuffer
  /\ GetFrameCall
  /\ UNCHANGED <<stage, heard, todo>>

\* SoundCallback after GetFrame: without a frame the buffer is left unqueued.
SoundCallback ==
  /\ at = "callback"
  /\ pc["play"] = "idle"
  /\ source' = IF got = NoFrame THEN source
               ELSE Append(source, [buffer |-> bufferID, frame |-> got])
  /\ bufferID' = NoBuffer
  /\ todo' = todo - 1
  /\ at' = "loop"
  /\ UNCHANGED <<decoderVars, stage, heard, filled, state, played>>

\* Bugs Play could have: it starts the source only in one of two states.
PlayIn(startable) ==
  /\ at = "loop"
  /\ todo = 0
  /\ IF state = startable THEN alSourcePlay ELSE UNCHANGED sourceVars
  /\ at' = "check"
  /\ UNCHANGED <<decoderVars, stage, heard, bufferID, filled, todo>>

PlayStopped == PlayIn("stopped")
PlayInitial == PlayIn("initial")

\* Play, after either loop.
Play ==
  /\ at = "loop"
  /\ todo = 0
  /\ \/ state \in {"stopped", "initial"} /\ alSourcePlay
     \/ state \in {"playing", "paused"} /\ UNCHANGED sourceVars
  /\ at' = "check"
  /\ UNCHANGED <<decoderVars, stage, heard, bufferID, filled, todo>>

\* m_bStop is looked at once a turn, before the thread sleeps.
CheckStop ==
  /\ at = "check"
  /\ at' = IF m_bStopped THEN "done" ELSE "query"
  /\ UNCHANGED <<decoderVars, stage, heard, sourceVars, bufferID, filled, todo>>

\* A bug CountProcessed could have: AL_BUFFERS_QUEUED for AL_BUFFERS_PROCESSED.
CountQueued ==
  /\ at = "query"
  /\ todo' = Len(source)
  /\ at' = "loop"
  /\ UNCHANGED <<decoderVars, stage, heard, sourceVars, bufferID, filled>>

CountProcessed ==
  /\ at = "query"
  /\ todo' = BuffersProcessed
  /\ at' = "loop"
  /\ UNCHANGED <<decoderVars, stage, heard, sourceVars, bufferID, filled>>

SoundPlayingThread ==
  NextBuffer \/ SoundCallback \/ Play \/ CheckStop \/ CountProcessed

-------------------------------------------------------------------------------
(* Pause, PausePlay and Stop, called by the window's thread.               *)

Pause ==
  /\ stage = "running"
  /\ state = "playing"
  /\ state' = "paused"
  /\ UNCHANGED <<decoderVars, stage, heard, source, played, playerVars>>

PausePlay ==
  /\ stage = "running"
  /\ state = "paused"
  /\ alSourcePlay
  /\ UNCHANGED <<decoderVars, stage, heard, playerVars>>

StopEngine ==
  /\ stage = "running"
  /\ stage' = "flagged"
  /\ UNCHANGED <<decoderVars, heard, sourceVars, playerVars>>

StopSource ==
  /\ stage = "flagged"
  /\ stage' = "silenced"
  /\ state' = IF state = "initial" THEN "initial" ELSE "stopped"
  /\ UNCHANGED <<decoderVars, heard, source, played, playerVars>>

\* alSourcei(AL_BUFFER, 0) fails if the playing thread has started the source
\* again in the meantime.
DetachBuffers ==
  /\ stage = "silenced"
  /\ stage' = "decoder"
  /\ \/ /\ state \in {"stopped", "initial"}
        /\ source' = <<>>
        /\ played' = 0
     \/ /\ state = "playing"
        /\ UNCHANGED <<source, played>>
  /\ UNCHANGED <<decoderVars, heard, state, playerVars>>

\* m_decoder->StopDecode() ...
StopDecoder ==
  /\ stage = "decoder"
  /\ StopFlag \/ StopDecode
  /\ UNCHANGED engineVars

\* ... then the playing thread is joined; buffers and source are deleted.
JoinPlayer ==
  /\ stage = "decoder"
  /\ pc["control"] = "stopped"
  /\ at = "done"
  /\ stage' = "deleted"
  /\ state' = "initial"
  /\ source' = <<>>
  /\ played' = 0
  /\ UNCHANGED <<decoderVars, heard, playerVars>>

-------------------------------------------------------------------------------
DecoderThreads ==
  /\ DecodeThread \/ GetFrame \/ SpuriousWakeup("decode") \/ SpuriousWakeup("play")
  /\ UNCHANGED engineVars

Next ==
  \/ DecoderThreads
  \/ SoundPlayingThread
  \/ DevicePlays
  \/ Pause \/ PausePlay
  \/ StopEngine \/ StopSource \/ DetachBuffers \/ StopDecoder \/ JoinPlayer

Spec == Init /\ [][Next]_vars

\* Every thread and the device run when they can; nothing forces the user.  The
\* device also plays while the playing thread sleeps (20 ms, as long as a frame):
\* it does not finish every buffer just between CountProcessed and Play.
Fairness ==
  /\ WF_vars(ReadFrame /\ UNCHANGED engineVars)
  /\ WF_vars((NoRoom \/ HaveRoom) /\ UNCHANGED engineVars)
  /\ WF_vars((NoData \/ PopFrame) /\ UNCHANGED engineVars)
  /\ WF_vars(NotifyOne("decode", "read") /\ UNCHANGED engineVars)
  /\ WF_vars(NotifyOne("play", "idle") /\ UNCHANGED engineVars)
  /\ \A t \in {"decode", "play"} :
       SF_vars(Lock(t) /\ UNCHANGED engineVars) /\ WF_vars(Block(t) /\ UNCHANGED engineVars)
  /\ WF_vars(SoundPlayingThread) /\ WF_vars(DevicePlays)
  /\ SF_vars(DevicePlays /\ at = "query")
  /\ WF_vars(StopSource) /\ WF_vars(DetachBuffers)
  /\ SF_vars(StopDecoder) /\ WF_vars(JoinPlayer)

FairSpec == Spec /\ Fairness

-------------------------------------------------------------------------------
(* Properties.                                                             *)

Queued == {source[i].buffer : i \in DOMAIN source}

\* The values the variables range over.
TypeOK ==
  /\ DecoderTypeOK
  /\ stage \in {"running", "flagged", "silenced", "decoder", "deleted"}
  /\ at \in {"loop", "callback", "check", "query", "done"}
  /\ bufferID \in Buffers \cup {NoBuffer}
  /\ filled \in 0 .. NUMBUFFERS
  /\ todo \in 0 .. NUMBUFFERS
  /\ state \in {"initial", "playing", "paused", "stopped"}
  /\ source \in Seq([buffer : Buffers \cup {NoBuffer}, frame : Frames])
  /\ played \in 0 .. Len(source)
  /\ heard \subseteq 1 .. NPackets

\* Until Stop, no buffer of the pool is lost or queued twice: each is in the
\* source, in SoundCallback's hands, or not yet filled for the first time.
PoolConserved ==
  ~m_bStopped =>
    /\ Queued \cup (IF at = "callback" THEN {bufferID} ELSE {}) = 1 .. filled
    /\ Len(source) = IF at = "callback" THEN filled - 1 ELSE filled

\* The frames on their way to the device, oldest first: queued in the source,
\* just returned by GetFrame, queued in the decoder, held by DecodeThread.
Pipeline ==
  LET Returned == at = "callback" /\ pc["play"] \in {"notify", "idle"} /\ got # NoFrame
  IN  [i \in DOMAIN source |-> source[i].frame.pos]
        \o (IF Returned THEN <<got.pos>> ELSE <<>>)
        \o [i \in DOMAIN m_queueData |-> m_queueData[i].pos]
        \o (IF frame # NoFrame THEN <<frame.pos>> ELSE <<>>)

\* Frames keep the order of the file, without repetition, all the way from
\* DecodeThread to the queue of the source.
EndToEndOrder ==
  \A i, j \in DOMAIN Pipeline : i < j => Pipeline[i] < Pipeline[j]

\* Until Stop, a buffer is refilled only after its frame was heard: although
\* a stopped source counts as processed even buffers queued after it stopped,
\* none of these is unqueued before Play has started the source again.
NothingSkipped ==
  [][~m_bStopped /\ Len(source') < Len(source)
       => Head(source).frame.pos \in heard]_vars

\* Playback goes on: a frame the decoder queued reaches the source, unless the
\* user pauses or stops.
FramesReachSource ==
  \A n \in 1 .. NPackets :
    (\E i \in DOMAIN m_queueData : m_queueData[i].pos = n)
      ~> \/ \E i \in DOMAIN source : source[i].frame.pos = n
         \/ m_bStopped \/ state = "paused"

\* StopDecode notifies without the mutex.  Its notify_all was lost on a thread that
\* had found its wait predicate false and had not gone to sleep yet.
NotifyLost ==
  /\ pc["control"] \in {"join", "drain", "stopped"}
  /\ \E t \in {"decode", "play"} : pc[t] = "block"

\* Stop returns, wherever the two threads were when it was called (asleep for room
\* or for a frame, filling a buffer, starting the source again), unless the
\* notification was lost on one of them.
StopReturns == stage = "flagged" ~> stage = "deleted" \/ NotifyLost

\* Stop's comment: with the decoder stopped first, the playing thread does not
\* hang: once StopDecode has returned, SoundPlayingThread ends.
PlayerEnds == pc["control"] = "stopped" ~> at = "done"
===============================================================================
