------------------------------ MODULE MuxerCore ------------------------------
(***************************************************************************)
(* What avmuxer.cpp and muxing.c have in common: an OutputStream for sound *)
(* and one for pictures, each with an encoder that holds frames back and   *)
(* keeps references to them, and one file that both write to.  A stream    *)
(* has one AVFrame, ost->frame, which is filled again for every frame.     *)
(***************************************************************************)
EXTENDS Naturals, FiniteSets

CONSTANTS
  StreamDuration,   \* STREAM_DURATION, in the smallest time unit of the instance
  MaxFrameTime,     \* bound on the time a frame lasts, which the codec decides
  MaxDelay          \* bound on the frames an encoder holds back

\* What the constants are.
MuxerAssumption ==
  /\ StreamDuration \in Nat /\ MaxDelay \in Nat
  /\ MaxFrameTime \in Nat \ {0}

Streams == {"video", "audio"}

\* A frame has the number its time stamp says, and its data show a frame.
Show(n, m) == [frame |-> n, shows |-> m]

VARIABLES
  frameTime, delay,   \* of each stream, given by its codec
  stage,              \* how far start, or main_mux, has got
  encode,             \* the streams with encode_video, encode_audio set
  next_pts,           \* of each stream
  shared,             \* the frames that were made in the buffer ost->frame has
  held,               \* the frames the encoder refers to
  file                \* the packets of each stream: the frames they were made from

codecVars == <<frameTime, delay>>
streamVars == <<next_pts, shared, held, file>>
coreVars == <<codecVars, stage, encode, streamVars>>

CoreInit ==
  /\ frameTime \in [Streams -> 1 .. MaxFrameTime]
  /\ delay \in [Streams -> 0 .. MaxDelay]
  /\ stage = "streams"
  /\ encode = {}
  /\ next_pts = [s \in Streams |-> 0]
  /\ shared = [s \in Streams |-> {}]
  /\ held = [s \in Streams |-> {}]
  /\ file = [s \in Streams |-> {}]

-------------------------------------------------------------------------------
\* No frame once next_pts has reached the duration.
MoreFrames(s) == next_pts[s] < StreamDuration

\* The number of the frame that is made next.
Number(s) == next_pts[s] \div frameTime[s] + 1

\* av_frame_make_writable: ost->frame gets a buffer of its own if the encoder refers to
\* the one it has; which frames share its buffer then.
make_writable(s) == IF \E f \in held[s] : f.frame \in shared[s] THEN {} ELSE shared[s]

\* get_audio_frame, get_video_frame: the next frame, in a buffer it shares with sharers.
FillFrame(s, sharers) ==
  /\ next_pts' = [next_pts EXCEPT ![s] = @ + frameTime[s]]
  /\ shared' = [shared EXCEPT ![s] = sharers \cup {Number(s)}]

NoMoreFrames == UNCHANGED <<next_pts, shared>>

\* What the encoder has with the next frame: filling it overwrote those of its buffer.
Fed(s, sharers) ==
  {IF f.frame \in sharers THEN Show(f.frame, Number(s)) ELSE f : f \in held[s]}
    \cup {Show(Number(s), Number(s))}

\* An encoder that has more frames than it keeps gives a packet of any of them, as it
\* may encode them in another order than they are shown; the packet is written.
EncodeAndWrite(s, fed, keep) ==
  \/ /\ Cardinality(fed) > keep
     /\ \E f \in fed : /\ held' = [held EXCEPT ![s] = fed \ {f}]
                       /\ file' = [file EXCEPT ![s] = @ \cup {f}]
  \/ /\ Cardinality(fed) <= keep
     /\ held' = [held EXCEPT ![s] = fed]
     /\ UNCHANGED file

\* The stream that is behind is encoded next.
Behind == next_pts["video"] <= next_pts["audio"]

-------------------------------------------------------------------------------
\* The values the variables range over.
CoreTypeOK ==
  /\ encode \subseteq Streams
  /\ next_pts \in [Streams -> 0 .. StreamDuration + MaxFrameTime]
  /\ \A s \in Streams : Cardinality(held[s]) <= delay[s]

\* The comments "make sure we do not overwrite it here": although a stream has one frame
\* and the encoder refers to it while it holds it back, every packet shows the frame of
\* its time stamp.
EncodedAsGiven == \A s \in Streams : \A f \in file[s] : f.shows = f.frame

Frames(fs) == {f.frame : f \in fs}

\* While both streams are encoded, neither is ahead by more than one frame: the
\* file can be played without reading far ahead.
StreamsInterleaved ==
  encode = Streams =>
    /\ next_pts["video"] <= next_pts["audio"] + frameTime["video"]
    /\ next_pts["audio"] <= next_pts["video"] + frameTime["audio"]

\* The number of frames that start before the duration is over.
Total(s) == (StreamDuration + frameTime[s] - 1) \div frameTime[s]
==============================================================================
