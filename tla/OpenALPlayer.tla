---------------------------- MODULE OpenALPlayer -----------------------------
(***************************************************************************)
(* OpenALEngine of openalaudio.cpp: open_play_all, on a thread of its own, *)
(* circulates the buffers of an OpenAL source.  Unlike ALEngine it decodes *)
(* in the same loop, starts with every buffer full of the first frame, and *)
(* does not queue a buffer again when decoding gave nothing.               *)
(***************************************************************************)
EXTENDS Naturals, Sequences

CONSTANTS
  NBuffers,     \* of m_buffers: 4 in the code
  File,         \* the packets of the input, each "audio" or "other"
  MaxFailures   \* bound on the packets whose decoding fails

ASSUME OpenALAssumption ==
  /\ NBuffers \in Nat \ {0}
  /\ File \in Seq({"audio", "other"})
  /\ MaxFailures \in Nat

Buffers == 1 .. NBuffers
NoBuffer == 0

\* A frame is named by its packet; audio_size is 0, negative or the size of a frame.
Frames == DOMAIN File
NoFrame == 0

VARIABLES
  at,           \* where open_play_all is
  pos,          \* how much of the file has been read
  audio_buff,   \* the frame decoded last
  audio_size,   \* "zero", "failed" or "some"
  processed,    \* buffers left to refill
  bufferId,     \* the buffer unqueued
  primed,       \* how many of m_buffers the first loop has queued
  lost,         \* history: how many buffers were not queued again
  failures,
  state, source, played,    \* the OpenAL source, as in ALEngine
  heard,        \* history: the frames the device has played
  deleted       \* whether start_play has returned and the engine is deleted

fileVars == <<pos, audio_buff, audio_size, failures>>
poolVars == <<processed, bufferId, primed, lost>>
sourceVars == <<state, source, played>>
vars == <<at, fileVars, poolVars, sourceVars, heard, deleted>>

Init ==
  /\ at = "open"
  /\ pos = 0 /\ audio_buff = NoFrame /\ audio_size = "zero" /\ failures = 0
  /\ processed = 0 /\ bufferId = NoBuffer /\ primed = 0 /\ lost = 0
  /\ state = "initial" /\ source = <<>> /\ played = 0
  /\ heard = {}
  /\ deleted = FALSE

-------------------------------------------------------------------------------
(* The source, by the OpenAL 1.1 rules.                                    *)

BuffersProcessed == IF state = "stopped" THEN Len(source) ELSE played

\* From the head of the queue, also when some of it has been played before.
alSourcePlay ==
  /\ state' = IF source = <<>> THEN "stopped" ELSE "playing"
  /\ played' = 0
  /\ UNCHANGED source

DevicePlays ==
  /\ state = "playing" /\ ~deleted
  /\ played' = played + 1
  /\ heard' = heard \cup {source[played + 1].frame}
  /\ state' = IF played + 1 = Len(source) THEN "stopped" ELSE "playing"
  /\ UNCHANGED <<at, fileVars, poolVars, source, deleted>>

-------------------------------------------------------------------------------
(* get_one_audio_frame, one packet of the file in a step.  The loop goes on *)
(* while audio_size is 0.                                                  *)

Got(size) ==
  /\ audio_size' = size
  /\ at' = IF primed = 0 THEN "prime" ELSE "refill"

ReadEnd ==
  /\ pos = Len(File)
  /\ Got("zero")
  /\ UNCHANGED <<pos, audio_buff, failures>>

\* A packet of another stream, or one that gives no samples.
ReadOther ==
  /\ pos < Len(File)
  /\ pos' = pos + 1
  /\ audio_size' = "zero"
  /\ UNCHANGED <<at, audio_buff, failures>>

ReadAudio ==
  /\ pos < Len(File) /\ File[pos + 1] = "audio"
  /\ pos' = pos + 1 /\ audio_buff' = pos + 1
  /\ Got("some")
  /\ UNCHANGED failures

\* audio_decode_frame gives -1, also when the decoder only wants another packet.
ReadFails ==
  /\ pos < Len(File) /\ File[pos + 1] = "audio"
  /\ failures < MaxFailures
  /\ failures' = failures + 1
  /\ pos' = pos + 1
  /\ Got("failed")
  /\ UNCHANGED audio_buff

get_one_audio_frame ==
  /\ at = "read"
  /\ ReadEnd \/ ReadOther \/ ReadAudio \/ ReadFails
  /\ UNCHANGED <<poolVars, sourceVars, heard, deleted>>

-------------------------------------------------------------------------------
(* open_play_all.                                                          *)

\* The file, its sound stream, the decoder and audio_buff: each may be missing.
OpenFile ==
  /\ at = "open"
  /\ at' \in {"read", "ended"}
  /\ UNCHANGED <<fileVars, poolVars, sourceVars, heard, deleted>>

\* The first frame is put in every buffer; without one the player gives up.
Prime ==
  /\ at = "prime"
  /\ IF audio_size # "some"
       THEN at' = "ended" /\ UNCHANGED <<primed, source>>
       ELSE /\ source' = [b \in Buffers |-> [buffer |-> b, frame |-> audio_buff]]
            /\ primed' = NBuffers
            /\ at' = "play"
  /\ UNCHANGED <<fileVars, processed, bufferId, lost, state, played, heard, deleted>>

FirstPlay ==
  /\ at = "play"
  /\ alSourcePlay
  /\ at' = "query"
  /\ UNCHANGED <<fileVars, poolVars, heard, deleted>>

CountProcessed ==
  /\ at = "query"
  /\ processed' = BuffersProcessed
  /\ at' = "while"
  /\ UNCHANGED <<fileVars, bufferId, primed, lost, sourceVars, heard, deleted>>

UnqueueBuffer ==
  /\ at = "while" /\ processed > 0
  /\ bufferId' = Head(source).buffer
  /\ source' = Tail(source)
  /\ played' = IF played = 0 THEN 0 ELSE played - 1
  /\ at' = "read"
  /\ UNCHANGED <<fileVars, processed, primed, lost, state, heard, deleted>>

\* A bug Refill could have: the buffer is queued before and after the test.
RefillTwice ==
  /\ at = "refill"
  /\ source' = Append(Append(source, [buffer |-> bufferId, frame |-> audio_buff]),
                      [buffer |-> bufferId, frame |-> audio_buff])
  /\ processed' = processed - 1 /\ bufferId' = NoBuffer
  /\ at' = "while"
  /\ UNCHANGED <<fileVars, primed, lost, state, played, heard, deleted>>

\* A buffer for which there was no frame never comes back.
Refill ==
  /\ at = "refill"
  /\ IF audio_size = "some"
       THEN /\ source' = Append(source, [buffer |-> bufferId, frame |-> audio_buff])
            /\ UNCHANGED lost
       ELSE lost' = lost + 1 /\ UNCHANGED source
  /\ processed' = processed - 1 /\ bufferId' = NoBuffer
  /\ at' = "while"
  /\ UNCHANGED <<fileVars, primed, state, played, heard, deleted>>

EndWhile ==
  /\ at = "while" /\ processed = 0
  /\ at' = "state"
  /\ UNCHANGED <<fileVars, poolVars, sourceVars, heard, deleted>>

\* A bug CheckState could have: a source that ran dry is not started again.
CheckStateNoPlay ==
  /\ at = "state"
  /\ at' = IF state = "playing" \/ source # <<>> THEN "query" ELSE "ended"
  /\ UNCHANGED <<sourceVars, fileVars, poolVars, heard, deleted>>

CheckState ==
  /\ at = "state"
  /\ \/ state = "playing" /\ at' = "query" /\ UNCHANGED sourceVars
     \/ state # "playing" /\ source # <<>> /\ at' = "query" /\ alSourcePlay
     \/ state # "playing" /\ source = <<>> /\ at' = "ended" /\ UNCHANGED sourceVars
  /\ UNCHANGED <<fileVars, poolVars, heard, deleted>>

open_play_all ==
  /\ ~deleted
  /\ \/ OpenFile \/ get_one_audio_frame \/ Prime \/ FirstPlay \/ CountProcessed
     \/ UnqueueBuffer \/ Refill \/ EndWhile \/ CheckState

-------------------------------------------------------------------------------
\* The window is closed: start_play returns and the engine is deleted, with its
\* buffers and decoder, while open_play_all may still use them: the thread is not
\* joined, and what it does from here on is undefined and not modelled.
Destructor ==
  /\ ~deleted
  /\ deleted' = TRUE
  /\ state' = "stopped" /\ source' = <<>> /\ played' = 0
  /\ UNCHANGED <<at, fileVars, poolVars, heard>>

Next == open_play_all \/ DevicePlays \/ Destructor

\* The loop does not sleep and a buffer plays for milliseconds: the device does not
\* finish every buffer just between the count and the look at the state.
Spec ==
  /\ Init /\ [][Next]_vars
  /\ WF_vars(open_play_all) /\ WF_vars(DevicePlays) /\ SF_vars(DevicePlays /\ at = "query")

-------------------------------------------------------------------------------
(* Properties.                                                             *)

\* The values the variables range over.
TypeOK ==
  /\ at \in {"open", "read", "prime", "play", "query", "while", "refill", "state", "ended"}
  /\ pos \in 0 .. Len(File)
  /\ audio_buff \in Frames \cup {NoFrame}
  /\ audio_size \in {"zero", "failed", "some"}
  /\ processed \in 0 .. NBuffers /\ bufferId \in Buffers \cup {NoBuffer}
  /\ primed \in {0, NBuffers} /\ lost \in 0 .. NBuffers /\ failures \in 0 .. MaxFailures
  /\ state \in {"initial", "playing", "stopped"}
  /\ source \in Seq([buffer : Buffers, frame : Frames]) /\ played \in 0 .. Len(source)
  /\ heard \subseteq Frames /\ deleted \in BOOLEAN

\* Each buffer is queued, in the thread's hands or lost for want of a frame: a packet
\* that fails in the middle of the file costs the player a buffer for good.
PoolConserved ==
  primed > 0 /\ ~deleted =>
    Len(source) + lost + (IF bufferId # NoBuffer THEN 1 ELSE 0) = NBuffers

\* The source gets the frames in the order of the file, and more than once only the
\* first one, which fills every buffer at the start.
QueuedInOrder ==
  \A i, j \in DOMAIN source :
    i < j => \/ source[i].frame < source[j].frame
             \/ source[i].frame = source[j].frame /\ \A f \in heard : f >= source[i].frame

\* A buffer is refilled only after its frame was heard, although a stopped source
\* counts all its buffers as processed, also those refilled since it stopped.
NothingSkipped ==
  [][~deleted' /\ Len(source') < Len(source) => Head(source).frame \in heard]_vars

\* The thread ends, and not before the device has played all that was queued.
PlaybackEnds ==
  <>(deleted \/ (at = "ended" /\ source = <<>> /\ (primed > 0 => audio_buff \in heard)))
==============================================================================
