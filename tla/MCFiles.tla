------------------------------- MODULE MCFiles -------------------------------
(***************************************************************************)
(* Three readers of files: FFmpegUtil, the Transcoder, and the search for  *)
(* a frame (VideoSeek).  program says which a behaviour is about; the      *)
(* others stay as they were made.                                          *)
(***************************************************************************)
EXTENDS FFmpegUtil

CONSTANTS
  Kind, Packets, MaxDelay,      \* of the Transcoder
  Items, Keys, Delay,           \* of VideoSeek
  Attempts, Delta, MaxDelta, Far, Calls

VARIABLES
  program,
  decDelay, encDelay, main, stream_index, dec, enc, graph, cleared, lost, thread, cur,
  frame, flushing, left, decoder, encoder, written, container, shown, failed, crashed,
  video_stream, start_time, seek_pc, reader, seek_pos, seek_decoder, count_errs,
  frame_number, first_frame_number, target, delta, calls, start, got, missed, gave_up

Programs == {"util", "transcode", "seek"}

-----------------------------------------------------------------------------
\* A film, sound with a data stream before it, a film whose third stream is data, and a
\* film whose sound has no frame_size.
FourFiles ==
  {[streams |-> <<"video", "audio">>, packets |-> <<2, 1, 2, 2>>, sized |-> TRUE],
   [streams |-> <<"other", "audio">>, packets |-> <<1, 2>>, sized |-> TRUE],
   [streams |-> <<"audio", "video", "other">>, packets |-> <<1, 3, 2, 1>>, sized |-> TRUE],
   [streams |-> <<"video", "audio">>, packets |-> <<2, 2, 1>>, sized |-> FALSE]}

\* A film with a track of subtitles, to be copied.
FilmKind == <<"video", "audio", "data">>
FilmPackets == <<2, 2, 1>>

\* Four frames, the first and the fourth of them key frames and the third decoded before
\* the second, and a packet of another stream before the last.
FourFrames == <<1, 3, 2, 0, 4>>

-----------------------------------------------------------------------------
Film == INSTANCE Transcoder WITH next <- stream_index, file <- written

Search == INSTANCE VideoSeek WITH
  pc <- seek_pc, pos <- seek_pos, decoder <- seek_decoder

-----------------------------------------------------------------------------

ASSUME FilesAssumption == Film!TranscoderAssumption /\ Search!VideoSeekAssumption

filmVars ==
  <<decDelay, encDelay, main, stream_index, dec, enc, graph, cleared, lost, thread, cur,
    frame, flushing, left, decoder, encoder, written, container, shown, failed, crashed>>
searchVars ==
  <<video_stream, start_time, seek_pc, reader, seek_pos, seek_decoder, count_errs,
    frame_number, first_frame_number, target, delta, calls, start, got, missed, gave_up>>
allVars == <<program, vars, filmVars, searchVars>>

FilesInit ==
  /\ program \in Programs
  /\ Init /\ Film!Init /\ Search!Init
  /\ program # "util" => ~wanted /\ file = CHOOSE f \in Files : TRUE
  /\ program # "transcode" => \A s \in DOMAIN left : decDelay[s] = 0 /\ encDelay[s] = 0
  /\ program # "seek" => video_stream = 0 /\ start_time = 0

RunUtil ==
  /\ program = "util" /\ Next
  /\ UNCHANGED <<program, filmVars, searchVars>>

Transcode ==
  /\ program = "transcode" /\ Film!Next
  /\ UNCHANGED <<program, vars, searchVars>>

SearchFrame ==
  /\ program = "seek" /\ Search!Next
  /\ UNCHANGED <<program, vars, filmVars>>

FilesNext == RunUtil \/ Transcode \/ SearchFrame

\* The threads of each program run on; nothing has to fail, nobody has to touch a
\* window, and when a frame is searched for is the caller's affair.
FilesSpec ==
  /\ FilesInit /\ [][FilesNext]_allVars
  /\ WF_vars(program = "util" /\ run)
  /\ WF_vars(program = "util" /\ fill_audio)
  /\ WF_filmVars(program = "transcode" /\ Film!Setup)
  /\ WF_filmVars(program = "transcode" /\ Film!decode_encode /\ failed' = failed)
  /\ WF_searchVars(/\ program = "seek"
                   /\ \/ Search!Picture \/ Search!NoPicture
                      \/ Search!Position \/ Search!Landed)

-----------------------------------------------------------------------------
\* Whatever fails, what the codecs of a stream gave the transcoder is written in their
\* order, and without an error nothing is left out but what a decoder is left with at the
\* end: at most its delay, as the types say.  A search finds each frame it reads once,
\* but those that could not be decoded.
NoGaps ==
  /\ Film!TypeOK /\ Search!TypeOK
  /\ Film!NoGaps /\ Film!OnlyDecodersKeepFrames
  /\ Search!EachOnce /\ Search!NothingLeftAtTheEnd

\* Nothing is used that is not open, or no longer: the transcoder outlives its thread and
\* writes inside its container, and once the user has ended run, SDL calls nothing that
\* uses the object.  A file whose parts FFmpegUtil could open is never missed, but by the
\* three ways GoodFileRuns names.
SafeTeardown ==
  /\ [](Film!SafeTeardown /\ GoodFileRuns)
  /\ Film!PacketsInsideContainer /\ QuietAfterQuit

\* Transcoding ends whatever fails, run ends while SDL plays, and a search for a frame
\* stops at the beginning of the file at the latest.
FilesEnd == Film!TranscodingEnds /\ RunEnds /\ Search!CallsEnd
=============================================================================
