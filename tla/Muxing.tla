------------------------------- MODULE Muxing --------------------------------
(* main_mux of muxing.c.                                                   *)
EXTENDS MuxerCore

vars == coreVars

Init == CoreInit

\* exit(1), or a return before the trailer: the file is not finished.
Exit ==
  /\ stage' = "exited"
  /\ UNCHANGED <<codecVars, encode, streamVars>>

-------------------------------------------------------------------------------
\* A stream for each kind the format has an encoder for.
AddStreams ==
  /\ stage = "streams"
  /\ \/ \E streams \in SUBSET Streams : encode' = streams /\ stage' = "open"
     \/ stage' = "exited" /\ UNCHANGED encode
  /\ UNCHANGED <<codecVars, streamVars>>

OpenVideo ==
  /\ stage = "open"
  /\ stage' \in {"audio"} \cup (IF "video" \in encode THEN {"exited"} ELSE {})
  /\ UNCHANGED <<codecVars, encode, streamVars>>

OpenAudio ==
  /\ stage = "audio"
  /\ stage' \in {"header"} \cup (IF "audio" \in encode THEN {"exited"} ELSE {})
  /\ UNCHANGED <<codecVars, encode, streamVars>>

WriteHeader ==
  /\ stage = "header"
  /\ stage' \in {"encode", "exited"}
  /\ UNCHANGED <<codecVars, encode, streamVars>>

-------------------------------------------------------------------------------
\* A bug NextStream could have: the comparison is turned round.
NextStreamAhead(s) ==
  /\ stage = "encode" /\ encode # {}
  /\ s = IF "video" \in encode /\ ("audio" \notin encode \/ ~Behind) THEN "video" ELSE "audio"

\* The loop selects the stream to encode.
NextStream(s) ==
  /\ stage = "encode" /\ encode # {}
  /\ s = IF "video" \in encode /\ ("audio" \notin encode \/ Behind) THEN "video" ELSE "audio"

\* The common course of write_audio_frame and write_video_frame: the stream is
\* finished when there is neither a frame nor a packet.
Write(s) ==
  /\ UNCHANGED <<codecVars, stage>>
  /\ \/ /\ MoreFrames(s)
        /\ FillFrame(s, make_writable(s))
        /\ EncodeAndWrite(s, Fed(s, make_writable(s)), delay[s])
        /\ UNCHANGED encode
     \/ /\ ~MoreFrames(s)
        /\ NoMoreFrames
        /\ EncodeAndWrite(s, held[s], 0)
        /\ encode' = IF held[s] = {} THEN encode \ {s} ELSE encode

\* Converting, encoding or writing a frame may fail, and each time the program exits.
write_audio_frame == NextStream("audio") /\ (Write("audio") \/ Exit)

\* load_frame_from_image gives no picture, and get_video_frame uses it all the same.
LoadImageFails == MoreFrames("video") /\ Exit

write_video_frame == NextStream("video") /\ (Write("video") \/ LoadImageFails \/ Exit)

WriteTrailer ==
  /\ stage = "encode" /\ encode = {}
  /\ stage' = "trailer"
  /\ UNCHANGED <<codecVars, encode, streamVars>>

\* The streams and the file are closed after a key, a click or the window's end, for
\* which SDL_WaitEvent waits.
CloseStreams ==
  /\ stage = "trailer"
  /\ stage' = "done"
  /\ UNCHANGED <<codecVars, encode, streamVars>>

Next ==
  \/ AddStreams \/ OpenVideo \/ OpenAudio \/ WriteHeader
  \/ write_audio_frame \/ write_video_frame
  \/ WriteTrailer \/ CloseStreams

\* What one thread does by itself: nothing forces a failure or the user's event.
Runs == Next /\ stage # "trailer" /\ stage' # "exited"

Spec == Init /\ [][Next]_vars /\ WF_vars(Runs)

-------------------------------------------------------------------------------
\* The values the variables range over.
TypeOK ==
  /\ CoreTypeOK
  /\ stage \in {"streams", "open", "audio", "header", "encode", "trailer", "done", "exited"}

\* "return 1 when encoding is finished": when the trailer is written every frame that
\* starts before the duration is over is in the file, those an encoder held back too.
AllFramesWritten ==
  stage \in {"trailer", "done"} =>
    \A s \in Streams : Frames(file[s]) = IF next_pts[s] = 0 THEN {} ELSE 1 .. Total(s)

\* The loop ends and the trailer is written, whatever the streams, their frame times and
\* the encoders' delays; what comes after it waits for the user.
MuxingEnds == <>(stage \in {"trailer", "done", "exited"})
==============================================================================
