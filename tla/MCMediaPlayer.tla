---------------------------- MODULE MCMediaPlayer ----------------------------
(***************************************************************************)
(* The SDL player for TLC: its pictures (SDLPlayer), opened to play at     *)
(* once or with a start button, and its sound (AudioCallback), which runs  *)
(* on a thread of SDL and meets the pictures only in the clock.  program   *)
(* says which a behaviour is about; the rest stays as it was made.         *)
(***************************************************************************)
EXTENDS SDLPlayer

CONSTANTS Pts, Stamped, Request, BUFFER_SIZE, RingSize, Channels, Width, MaxDelay   \* of the sound

VARIABLES
  program,
  sound_demuxed, sound_audioq, sound_eof, sound_quit, sound_paused,
  audio_buff_size, audio_buff_index, audio_clock, sample_array, sample_array_index,
  len, stream, pc, pkt, sampled, position, behind, hw_size, hw_index, sound_failures

Programs == {"play", "start", "sound"}

Sound == INSTANCE AudioCallback WITH
  demuxed <- sound_demuxed, audioq <- sound_audioq, eof <- sound_eof,
  quit <- sound_quit, paused <- sound_paused, failures <- sound_failures

-----------------------------------------------------------------------------
\* Three pictures with sound in between.
ShortFile == <<"video", "audio", "video", "video">>

\* Four frames of two channels: one longer than a request, one shorter, one that
\* fills the ring, and one more; the sound starts late, and every second packet has a
\* time stamp.
FourFrames == <<2, 8, 10, 26, 30>>
Alternate == {2, 4}

ASSUME MediaAssumption == PlayerAssumption /\ Sound!AudioAssumption

-----------------------------------------------------------------------------

soundVars ==
  <<sound_demuxed, sound_audioq, sound_eof, sound_quit, sound_paused,
    audio_buff_size, audio_buff_index, audio_clock, sample_array, sample_array_index,
    len, stream, pc, pkt, sampled, position, behind, hw_size, hw_index, sound_failures>>
allVars == <<program, vars, soundVars>>

MediaInit ==
  /\ program \in Programs
  /\ Init /\ Sound!Init
  /\ window = IF program = "start" THEN "loop" ELSE "play"

\* Bound: the program that plays at once plays once (MCSDLPlayer plays again).
PlayPictures ==
  /\ program \in {"play", "start"} /\ Next
  /\ program = "play" => gen' = 1
  /\ UNCHANGED <<program, soundVars>>

PlaySound == program = "sound" /\ Sound!Next /\ UNCHANGED <<program, vars>>

MediaNext == PlayPictures \/ PlaySound

\* The fairness of each program, while it is the one that runs.
MediaSpec ==
  /\ MediaInit /\ [][MediaNext]_allVars
  /\ WF_vars(program = "play" /\ Window)
  /\ WF_vars(program = "play" /\ decode_thread(1))
  /\ WF_vars(program = "play" /\ decode(1))
  /\ WF_soundVars(program = "sound" /\ Sound!Demux)
  /\ WF_soundVars(program = "sound" /\ Sound!audio_callback)

-----------------------------------------------------------------------------
\* The values the variables range over.
Types == TypeOK /\ Sound!TypeOK

\* Whatever fails to decode, the pictures of a player that plays once keep the
\* order of the file, and without failures each one read is shown or on its way.
NoFrameLost == NothingLost /\ DisplayedInOrder

\* media_play pauses the decoders it has just started: a player that waits for its
\* start button never displays a frame, whatever the user presses.
StartButtonShowsNothing == program = "start" => displayed = <<>>

\* The window's thread looks at the packet queue without a lock and then waits for
\* a frame: it comes back, unless a packet failed to decode.  A callback of the sound
\* comes back once the demuxer is at the end of the file, wherever it was then and
\* even if the player is paused, unless it had found the queue empty before: nothing
\* wakes a callback that waits for a packet when the last one has been taken.
ThreadsRespond ==
  /\ (program = "play" /\ window = "deQueue") ~> window # "deQueue" \/ failures > 0
  /\ sound_eof ~> \/ pc \in {"idle", "closed"}
                  \/ pc = "deQueue" /\ sound_audioq = <<>>

\* audio_callback stays inside its buffers, the clock the pictures are synchronised
\* to is the time of the sample that is mixed, but for the errors ClockExact names, and
\* the ring the wave is drawn from holds the latest samples.
SoundExact ==
  /\ Sound!MixInBounds /\ Sound!ClockExact
  /\ Sound!RingHoldsLatest /\ Sound!WaveInBounds
=============================================================================
