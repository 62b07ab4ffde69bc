------------------------------ MODULE MCPlayers ------------------------------
(***************************************************************************)
(* Three players beside each other: OpenALPlayer with the constants of its *)
(* own, OpenglPlayer and PolledPlayer on a file of pictures.  main starts  *)
(* one of them: program says which, the others stay as they were made.     *)
(***************************************************************************)
EXTENDS OpenALPlayer

CONSTANTS
  Pictures,    \* the packets of the file of the other two, "audio" or "video"
  Times,       \* when its pictures are due
  Stamps,      \* the pictures that say so
  Delays,      \* how long each is shown
  LastTime,    \* bound on the times
  Failures,    \* bound on what fails in them
  Rounds       \* bound on the rounds of their windows

VARIABLES
  program,
  gl_quit, gl_pos, gl_decoder, gl_frame, gl_pts, gl_clock, gl_frameq, gl_window,
  gl_shown, gl_displayed, gl_closed, gl_failures, gl_rounds,
  mutex, frameq, decoder, polled_pos, dst, window, frame, displayed,
  polled_failures, rounds

Programs == {"openal", "opengl", "polled"}

-----------------------------------------------------------------------------
\* Five frames of sound and a packet of another stream.
FiveFrames == <<"audio", "audio", "other", "audio", "audio", "audio">>

\* Four pictures, sound in between.
FourPictures == <<"video", "audio", "video", "video", "video">>

\* The first is due at 0, which counts as no time, and the third, after a repeated one,
\* says nothing.
FourTimes == <<0, 0, 1, 4, 5>>
FourDelays == <<1, 1, 2, 1, 1>>
SomeTimed == {1, 3, 5}

Opengl == INSTANCE OpenglPlayer WITH
  File <- Pictures, Time <- Times, Stamped <- Stamps, Delay <- Delays, MaxTime <- LastTime,
  MaxFailures <- Failures, MaxRounds <- Rounds,
  quit <- gl_quit, pos <- gl_pos, decoder <- gl_decoder, frame <- gl_frame,
  pts <- gl_pts, video_clock <- gl_clock, frameq <- gl_frameq, window <- gl_window,
  shown <- gl_shown, displayed <- gl_displayed, closed <- gl_closed,
  failures <- gl_failures, rounds <- gl_rounds

Polled == INSTANCE PolledPlayer WITH
  File <- Pictures, MaxFailures <- Failures, MaxRounds <- Rounds,
  pos <- polled_pos, failures <- polled_failures

ASSUME PlayersAssumption == Opengl!OpenglAssumption /\ Polled!PolledAssumption

-----------------------------------------------------------------------------
openglVars ==
  <<gl_quit, gl_pos, gl_decoder, gl_frame, gl_pts, gl_clock, gl_frameq, gl_window,
    gl_shown, gl_displayed, gl_closed, gl_failures, gl_rounds>>
polledVars ==
  <<mutex, frameq, decoder, polled_pos, dst, window, frame, displayed,
    polled_failures, rounds>>
allVars == <<program, vars, openglVars, polledVars>>

PlayersInit == program \in Programs /\ Init /\ Opengl!Init /\ Polled!Init

PlaySound ==
  /\ program = "openal" /\ Next
  /\ UNCHANGED <<program, openglVars, polledVars>>

PlayFile ==
  /\ program = "opengl" /\ Opengl!Next
  /\ UNCHANGED <<program, vars, polledVars>>

PlayPolled ==
  /\ program = "polled" /\ Polled!Next
  /\ UNCHANGED <<program, vars, openglVars>>

PlayersNext == PlaySound \/ PlayFile \/ PlayPolled

\* The fairness of each player, while it is the one that runs.
PlayersSpec ==
  /\ PlayersInit /\ [][PlayersNext]_allVars
  /\ WF_vars(program = "openal" /\ open_play_all)
  /\ WF_vars(program = "openal" /\ DevicePlays)
  /\ SF_vars(program = "openal" /\ DevicePlays /\ at = "query")
  /\ WF_openglVars(program = "opengl" /\ Opengl!decode_thread)
  /\ WF_openglVars(program = "opengl" /\ Opengl!play)
  /\ WF_polledVars(program = "polled" /\ Polled!display_frames)
  /\ WF_polledVars(program = "polled" /\ Polled!main)

-----------------------------------------------------------------------------
\* The values the variables range over; no thread of the polled player is between
\* lock and unlock without the mutex.
Types == TypeOK /\ Opengl!TypeOK /\ Polled!Exclusive

\* From the decoder to the screen both players are a queue: each frame that was
\* decoded is shown in its turn, none is lost, shown twice or overtaken.  The times of
\* the OpenGL player's pictures are their own, or lie between their neighbours'.  Sound
\* is queued in the order of the file.
ShownInOrder ==
  /\ Opengl!PipelineIsFifo /\ Polled!PipelineIsFifo
  /\ [](Opengl!TimesAscend /\ QueuedInOrder)

\* Closing the window ends the threads of the players, also when the input has
\* nothing for it or the decoder is not told; the sound ends when all was played.
PlayersEnd ==
  /\ program = "openal" => PlaybackEnds
  /\ Opengl!JoinReturns
  /\ Polled!ProgramEnds
=============================================================================
