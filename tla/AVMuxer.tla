------------------------------- MODULE AVMuxer -------------------------------
(***************************************************************************)
(* AVMuxer of avmuxer.cpp: sound and the pictures of a camera are encoded  *)
(* into one file.  Unlike main_mux it goes on when sound cannot be encoded *)
(* or written, does not empty the video encoder, and counts the calls of   *)
(* write_audio_frame in a static variable that all muxers share.           *)
(***************************************************************************)
EXTENDS MuxerCore

CONSTANTS
  InxLimit,      \* 500 in the code
  MaxStarts,     \* bound on the muxers started one after the other
  MaxFailures    \* bound on the failures that are only reported

\* What the constants are.
AVMuxerAssumption ==
  /\ MuxerAssumption
  /\ InxLimit \in Nat /\ MaxStarts \in Nat /\ MaxFailures \in Nat

VARIABLES
  inx,        \* the static counter; above InxLimit it is kept to two values
  starts,     \* the muxers started
  lost,       \* history: the frames of sound that could not be encoded or written
  failures

muxerVars == <<inx, starts, lost, failures>>
vars == <<coreVars, muxerVars>>

Init ==
  /\ CoreInit
  /\ inx = 0 /\ starts = 1 /\ lost = {} /\ failures = 0

\* exit(1), or a return before the trailer.
Exit == stage' = "exited" /\ UNCHANGED <<codecVars, encode, streamVars, muxerVars>>

-------------------------------------------------------------------------------
(* start, up to its loop.                                                  *)

AddStreams ==
  /\ stage = "streams"
  /\ \E streams \in SUBSET Streams : encode' = streams
  /\ stage' = "open"
  /\ UNCHANGED <<codecVars, streamVars, muxerVars>>

OpenVideo ==
  /\ stage = "open"
  /\ \/ stage' = "audio" /\ UNCHANGED <<codecVars, encode, streamVars, muxerVars>>
     \/ "video" \in encode /\ Exit

OpenAudio ==
  /\ stage = "audio"
  /\ \/ stage' = "header" /\ UNCHANGED <<codecVars, encode, streamVars, muxerVars>>
     \/ "audio" \in encode /\ Exit

\* The output file and its header, then the camera: without one start returns.
WriteHeader ==
  /\ stage = "header"
  /\ \/ stage' = "encode" /\ UNCHANGED <<codecVars, encode, streamVars, muxerVars>>
     \/ Exit

-------------------------------------------------------------------------------
NextStream(s) ==
  /\ stage = "encode" /\ encode # {}
  /\ s = IF "video" \in encode /\ ("audio" \notin encode \/ Behind) THEN "video" ELSE "audio"

\* write_audio_frame returns 1 without a frame and a packet, but never again once
\* it has been called more than InxLimit times.
ReturnAudio(finished) ==
  /\ inx' = IF inx <= InxLimit + 1 THEN inx + 1 ELSE InxLimit + 1
  /\ encode' = IF finished /\ inx' <= InxLimit THEN encode \ {"audio"} ELSE encode

\* A bug AudioGiven could have: the resampled frame is put in the frame the encoder
\* still refers to.
AudioGivenInPlace ==
  /\ MoreFrames("audio")
  /\ FillFrame("audio", shared["audio"])
  /\ EncodeAndWrite("audio", Fed("audio", shared["audio"]), delay["audio"])
  /\ ReturnAudio(FALSE)
  /\ UNCHANGED <<lost, failures>>

AudioGiven ==
  /\ MoreFrames("audio")
  /\ FillFrame("audio", make_writable("audio"))
  /\ EncodeAndWrite("audio", Fed("audio", make_writable("audio")), delay["audio"])
  /\ ReturnAudio(FALSE)
  /\ UNCHANGED <<lost, failures>>

\* A bug AudioFlushed could have: it never says that it is finished.
AudioFlushedOn ==
  /\ ~MoreFrames("audio")
  /\ NoMoreFrames
  /\ EncodeAndWrite("audio", held["audio"], 0)
  /\ ReturnAudio(FALSE)
  /\ UNCHANGED <<lost, failures>>

AudioFlushed ==
  /\ ~MoreFrames("audio")
  /\ NoMoreFrames
  /\ EncodeAndWrite("audio", held["audio"], 0)
  /\ ReturnAudio(held["audio"] = {})
  /\ UNCHANGED <<lost, failures>>

\* The result of the encoder is not looked at: the frame is not encoded.  Without a
\* frame this ends the stream with what the encoder holds.
AudioNotEncoded ==
  /\ failures < MaxFailures /\ failures' = failures + 1
  /\ \/ /\ MoreFrames("audio")
        /\ FillFrame("audio", make_writable("audio"))
        /\ lost' = lost \cup {Number("audio")}
        /\ UNCHANGED held
     \/ /\ ~MoreFrames("audio")
        /\ NoMoreFrames
        /\ lost' = lost \cup Frames(held["audio"])
        /\ held' = [held EXCEPT !["audio"] = {}]
  /\ ReturnAudio(~MoreFrames("audio"))
  /\ UNCHANGED file

\* A packet that cannot be written is lost, and the muxer goes on.
AudioDropped(fed, keep) ==
  /\ Cardinality(fed) > keep
  /\ \E f \in fed : /\ held' = [held EXCEPT !["audio"] = fed \ {f}]
                    /\ lost' = lost \cup {f.frame}

AudioNotWritten ==
  /\ failures < MaxFailures /\ failures' = failures + 1
  /\ \/ /\ MoreFrames("audio")
        /\ FillFrame("audio", make_writable("audio"))
        /\ AudioDropped(Fed("audio", make_writable("audio")), delay["audio"])
     \/ /\ ~MoreFrames("audio")
        /\ NoMoreFrames
        /\ AudioDropped(held["audio"], 0)
  /\ ReturnAudio(FALSE)
  /\ UNCHANGED file

write_audio_frame ==
  /\ NextStream("audio")
  /\ \/ /\ AudioGiven \/ AudioFlushed \/ AudioNotEncoded \/ AudioNotWritten
        /\ UNCHANGED <<codecVars, stage, starts>>
     \/ Exit

\* get_video_frame_from_cap, then the picture is encoded and written.
VideoGiven ==
  /\ MoreFrames("video")
  /\ FillFrame("video", make_writable("video"))
  /\ EncodeAndWrite("video", Fed("video", make_writable("video")), delay["video"])
  /\ UNCHANGED encode

\* What the video encoder holds back stays there.
VideoEnds ==
  /\ ~MoreFrames("video")
  /\ encode' = encode \ {"video"}
  /\ UNCHANGED streamVars

write_video_frame ==
  /\ NextStream("video")
  /\ \/ (VideoGiven \/ VideoEnds) /\ UNCHANGED <<codecVars, stage, muxerVars>>
     \/ Exit

WriteTrailer ==
  /\ stage = "encode" /\ encode = {}
  /\ stage' = "trailer"
  /\ UNCHANGED <<codecVars, encode, streamVars, muxerVars>>

CloseStreams ==
  /\ stage = "trailer"
  /\ stage' = "done"
  /\ UNCHANGED <<codecVars, encode, streamVars, muxerVars>>

start ==
  \/ AddStreams \/ OpenVideo \/ OpenAudio \/ WriteHeader
  \/ write_audio_frame \/ write_video_frame
  \/ WriteTrailer \/ CloseStreams

\* Another muxer in the same process: everything is new but inx.
Another ==
  /\ stage = "done" /\ starts < MaxStarts
  /\ starts' = starts + 1
  /\ stage' = "streams" /\ encode' = {}
  /\ next_pts' = [s \in Streams |-> 0]
  /\ shared' = [s \in Streams |-> {}]
  /\ held' = [s \in Streams |-> {}]
  /\ file' = [s \in Streams |-> {}]
  /\ lost' = {}
  /\ UNCHANGED <<codecVars, inx, failures>>

Next == start \/ Another

\* Nothing forces a failure.
Spec == Init /\ [][Next]_vars /\ WF_vars(start /\ stage' # "exited")

-------------------------------------------------------------------------------
\* The values the variables range over.
TypeOK ==
  /\ CoreTypeOK
  /\ stage \in {"streams", "open", "audio", "header", "encode", "trailer", "done", "exited"}
  /\ inx \in 0 .. InxLimit + 2
  /\ failures \in 0 .. MaxFailures

\* When the trailer is written, every frame of sound is in the file but those whose
\* encoding or writing failed, and every picture but those the encoder held back.
OnlyDelayedLost ==
  stage \in {"trailer", "done"} =>
    /\ next_pts["audio"] > 0 => Frames(file["audio"]) \cup lost = 1 .. Total("audio")
    /\ next_pts["video"] > 0 =>
         Frames(file["video"]) \cup Frames(held["video"]) = 1 .. Total("video")

\* The loop of the first muxer of a process ends, if the calls its sound takes do not
\* pass the limit of the counter.
MuxingEnds ==
  Total("audio") + delay["audio"] < InxLimit => <>(stage \in {"done", "exited"})

\* "return 1 when encoding is finished": when the sound has no more frames and its
\* encoder is empty, the stream is taken off the loop.
FinishReported ==
  (stage = "encode" /\ "audio" \in encode /\ ~MoreFrames("audio") /\ held["audio"] = {})
    ~> ("audio" \notin encode \/ stage = "exited")
==============================================================================
