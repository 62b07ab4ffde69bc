------------------------------ MODULE SDLPlayer ------------------------------
(***************************************************************************)
(* MediaState of Media.cpp with VideoState of Video.cpp: the window's      *)
(* thread handles refresh events and buttons, the demuxer decode_thread    *)
(* reads the file, the thread decode turns packets into frames.            *)
(*                                                                         *)
(* Every call of play() makes new audio and video objects and new threads  *)
(* while the old ones go on: generation g is what the g-th call made, and  *)
(* gen the one that media->video points to.  Queues keep the promise of    *)
(* FifoQueue, so deQueue takes one step once there is something to take.   *)
(***************************************************************************)
EXTENDS Naturals, Sequences

CONSTANTS
  File,          \* the packets of the file, each "audio" or "video"
  MaxPlays,      \* bound on the calls of play()
  MaxFailures,   \* bound on reads and decodes that fail
  MaxPresses     \* bound on what the user does with mouse and keys

PlayerAssumption ==
  /\ File \in Seq({"audio", "video"})
  /\ MaxPlays \in Nat \ {0}
  /\ MaxFailures \in Nat
  /\ MaxPresses \in Nat

Gens == 1 .. MaxPlays
HasVideo == \E i \in DOMAIN File : File[i] = "video"
HasAudio == \E i \in DOMAIN File : File[i] = "audio"
Packets == DOMAIN File     \* a packet, or the frame decoded from it
NoPacket == 0

VARIABLES
  quit, started,        \* of MediaState
  stopped,              \* stop() has deleted the audio and video objects
  mouse_left_down,
  control_btns,         \* whether the five buttons exist
  gen,                  \* what media->video and media->audio point to
  pos,                  \* by generation: how far pFormatCtx has been read
  video,                \* by generation: the flags of VideoState
  audio_eof,            \* by generation: the flag eof of AudioState
  waiting,              \* by generation: whether the audio callback is in deQueue
  videoq, audioq, frameq,   \* by generation: the queues
  demux,                \* by generation: decode_thread
  dec,                  \* by generation: decode
  window,               \* where the window's thread is
  refreshes,            \* refresh timers running and refresh events queued
  displayed,            \* history: the frames shown, with their generation
  failures, presses     \* how often something failed, what the user did

queues == <<videoq, audioq, frameq>>
buttons == <<started, mouse_left_down, control_btns>>
audio == <<audio_eof, waiting>>
vars == <<quit, stopped, buttons, gen, pos, video, audio, queues, demux, dec,
          window, refreshes, displayed, failures, presses>>

Idle == [pc |-> "none", pkt |-> NoPacket]

\* The program plays at once, or its event loop waits for the start button.
Init ==
  /\ quit = FALSE
  /\ started = FALSE
  /\ stopped = FALSE
  /\ mouse_left_down = FALSE
  /\ control_btns = FALSE
  /\ gen = 0
  /\ pos = [g \in Gens |-> 0]
  /\ video = [g \in Gens |-> [quit |-> FALSE, eof |-> FALSE, paused |-> FALSE]]
  /\ audio_eof = [g \in Gens |-> FALSE]
  /\ waiting = [g \in Gens |-> FALSE]
  /\ videoq = [g \in Gens |-> <<>>]
  /\ audioq = [g \in Gens |-> <<>>]
  /\ frameq = [g \in Gens |-> <<>>]
  /\ demux = [g \in Gens |-> Idle]
  /\ dec = [g \in Gens |-> Idle]
  /\ window \in {"play", "loop"}
  /\ refreshes = 0
  /\ displayed = <<>>
  /\ failures = 0
  /\ presses = 0

-------------------------------------------------------------------------------
(* decode_thread: reads from media->pFormatCtx and queues for media->video  *)
(* and media->audio, which a later play() may have replaced in between.     *)

DemuxRead(g) ==
  /\ demux[g].pc = "read"
  /\ ~quit
  /\ pos[gen] < Len(File)
  /\ pos' = [pos EXCEPT ![gen] = @ + 1]
  /\ demux' = [demux EXCEPT ![g] = [pc |-> "put", pkt |-> pos[gen] + 1]]
  /\ UNCHANGED <<quit, stopped, buttons, gen, video, audio, queues, dec, window,
                 refreshes, displayed, failures, presses>>

DemuxPut(g) ==
  LET p == demux[g].pkt
  IN  /\ demux[g].pc = "put"
      /\ demux' = [demux EXCEPT ![g] = [pc |-> "read", pkt |-> NoPacket]]
      /\ videoq' = IF File[p] = "video" /\ ~stopped
                     THEN [videoq EXCEPT ![gen] = Append(@, p)] ELSE videoq
      /\ audioq' = IF File[p] = "audio" /\ ~stopped
                     THEN [audioq EXCEPT ![gen] = Append(@, p)] ELSE audioq
      /\ UNCHANGED <<quit, stopped, buttons, gen, pos, video, audio, frameq, dec,
                     window, refreshes, displayed, failures, presses>>

\* The end of the file.  The player quits if it has both streams
\* and nothing at all is queued.
DemuxEof(g) ==
  /\ demux[g].pc = "read"
  /\ ~quit
  /\ pos[gen] = Len(File)
  /\ video' = [video EXCEPT ![gen].eof = TRUE]
  /\ audio_eof' = [audio_eof EXCEPT ![gen] = TRUE]
  /\ quit' = (HasAudio /\ HasVideo /\ audioq[gen] = <<>> /\ videoq[gen] = <<>>)
  /\ demux' = [demux EXCEPT ![g].pc = "ended"]
  /\ UNCHANGED <<stopped, buttons, gen, pos, waiting, queues, dec, window, refreshes,
                 displayed, failures, presses>>

\* The loop ends because of quit, or because reading failed.
DemuxEnds(g) ==
  /\ demux[g].pc = "read"
  /\ \/ quit /\ UNCHANGED failures
     \/ ~quit /\ failures < MaxFailures /\ failures' = failures + 1
  /\ demux' = [demux EXCEPT ![g].pc = "ended"]
  /\ UNCHANGED <<quit, stopped, buttons, gen, pos, video, audio, queues, dec, window,
                 refreshes, displayed, presses>>

decode_thread(g) == DemuxRead(g) \/ DemuxPut(g) \/ DemuxEof(g) \/ DemuxEnds(g)

-------------------------------------------------------------------------------
(* decode, the video decoding thread.                                      *)

\* The test of the loop: the thread goes on unless quit and paused are both set.
Again(g) == IF video[g].quit /\ video[g].paused THEN "ended" ELSE "deQueue"

DecodeLoop(g) ==
  /\ dec[g].pc = "loop"
  /\ dec' = [dec EXCEPT ![g].pc = Again(g)]
  /\ UNCHANGED <<quit, stopped, buttons, gen, pos, video, audio, queues, demux, window,
                 refreshes, displayed, failures, presses>>

\* Once stop() has deleted the queue nothing comes out of it any more; what
\* the thread then does is undefined, here it stays where it is.
DecodeTake(g) ==
  /\ dec[g].pc = "deQueue"
  /\ videoq[g] # <<>>
  /\ videoq' = [videoq EXCEPT ![g] = Tail(@)]
  /\ dec' = [dec EXCEPT ![g] = [pc |-> "packet", pkt |-> Head(videoq[g])]]
  /\ UNCHANGED <<quit, stopped, buttons, gen, pos, video, audio, audioq, frameq, demux,
                 window, refreshes, displayed, failures, presses>>

\* A bug DecodePut could have: a frame is dropped when the queue is long.
DecodePutBounded(g) ==
  /\ dec[g].pc = "packet"
  /\ frameq' = IF Len(frameq[g]) > 0 THEN frameq
               ELSE [frameq EXCEPT ![g] = Append(@, dec[g].pkt)]
  /\ dec' = [dec EXCEPT ![g] = [pc |-> "loop", pkt |-> NoPacket]]
  /\ UNCHANGED <<quit, stopped, buttons, gen, pos, video, audio, videoq, audioq, demux,
                 window, refreshes, displayed, failures, presses>>

\* The packet gives a frame, filtered or not, which is queued.  When the queue
\* holds capacity frames the thread sleeps a second first, and queues it then.
DecodePut(g) ==
  /\ dec[g].pc = "packet"
  /\ frameq' = [frameq EXCEPT ![g] = Append(@, dec[g].pkt)]
  /\ dec' = [dec EXCEPT ![g] = [pc |-> "loop", pkt |-> NoPacket]]
  /\ UNCHANGED <<quit, stopped, buttons, gen, pos, video, audio, videoq, audioq, demux,
                 window, refreshes, displayed, failures, presses>>

\* The codec gives no frame: an error, or it wants more packets first.
DecodeFails(g) ==
  /\ dec[g].pc = "packet"
  /\ failures < MaxFailures
  /\ failures' = failures + 1
  /\ dec' = [dec EXCEPT ![g] = [pc |-> "loop", pkt |-> NoPacket]]
  /\ UNCHANGED <<quit, stopped, buttons, gen, pos, video, audio, queues, demux, window,
                 refreshes, displayed, presses>>

\* The codec refuses the packet or says that it is at its end.
DecodeGivesUp(g) ==
  /\ dec[g].pc = "packet"
  /\ failures < MaxFailures
  /\ failures' = failures + 1
  /\ video' = [video EXCEPT ![g].quit = TRUE, ![g].eof = TRUE]
  /\ dec' = [dec EXCEPT ![g] = [pc |-> "ended", pkt |-> NoPacket]]
  /\ UNCHANGED <<quit, stopped, buttons, gen, pos, audio, queues, demux, window,
                 refreshes, displayed, presses>>

decode(g) ==
  \/ DecodeLoop(g) \/ DecodeTake(g) \/ DecodePut(g)
  \/ DecodeFails(g) \/ DecodeGivesUp(g)

-------------------------------------------------------------------------------
(* SDL's audio thread, as far as the pictures meet it: it empties audioq.  *)
(* AudioCallback models the rest of it.                                    *)

\* audio_decode_frame goes on to deQueue unless the sound has quit, is paused (always
\* together with the pictures) or has come to its end.
SoundWaits(g) ==
  /\ HasAudio /\ demux[g].pc # "none" /\ ~waiting[g]
  /\ ~quit /\ ~stopped /\ ~video[g].paused
  /\ audioq[g] # <<>> \/ ~audio_eof[g]
  /\ waiting' = [waiting EXCEPT ![g] = TRUE]
  /\ UNCHANGED <<quit, stopped, buttons, gen, pos, video, audio_eof, queues, demux, dec,
                 window, refreshes, displayed, failures, presses>>

SoundTakes(g) ==
  /\ waiting[g] /\ audioq[g] # <<>> /\ ~stopped
  /\ waiting' = [waiting EXCEPT ![g] = FALSE]
  /\ audioq' = [audioq EXCEPT ![g] = Tail(@)]
  /\ UNCHANGED <<quit, stopped, buttons, gen, pos, video, audio_eof, videoq, frameq, demux,
                 dec, window, refreshes, displayed, failures, presses>>

audio_callback(g) == SoundWaits(g) \/ SoundTakes(g)

-------------------------------------------------------------------------------
(* The window's thread.                                                    *)

threads == <<demux, dec, pos, queues, failures>>

\* play: new objects, new threads, one more refresh timer.
play ==
  /\ gen < MaxPlays
  /\ gen' = gen + 1
  /\ started' = TRUE
  /\ dec' = IF HasVideo THEN [dec EXCEPT ![gen + 1].pc = "loop"] ELSE dec
  /\ demux' = [demux EXCEPT ![gen + 1].pc = "read"]
  /\ refreshes' = IF quit THEN refreshes ELSE refreshes + 1
  /\ UNCHANGED <<quit, stopped, control_btns, pos, video, audio, queues,
                 displayed, failures>>

\* The program calls play itself and then runs the event loop.
PlayAtOnce ==
  /\ window = "play"
  /\ play
  /\ window' = "loop"
  /\ UNCHANGED <<mouse_left_down, presses>>

LoopTest ==
  /\ window = "loop"
  /\ window' = IF quit THEN "ended" ELSE "event"
  /\ UNCHANGED <<quit, stopped, buttons, gen, video, audio, threads, refreshes, displayed,
                 presses>>

\* A bug RefreshCheck could have: nothing more is scheduled without a packet.
RefreshCheckOnce ==
  /\ window = "event"
  /\ refreshes > 0
  /\ \/ /\ quit
        /\ window' = "loop"
        /\ refreshes' = refreshes - 1
     \/ /\ ~quit /\ video[gen].paused
        /\ window' = "loop"
        /\ UNCHANGED refreshes
     \/ /\ ~quit /\ ~video[gen].paused
        /\ window' = IF videoq[gen] = <<>> THEN "loop" ELSE "refresh"
        /\ refreshes' = refreshes - 1
  /\ UNCHANGED <<quit, stopped, buttons, gen, video, audio, threads, displayed, presses>>

\* A bug RefreshCheck could have: each try is followed by two.
RefreshCheckTwice ==
  /\ window = "event"
  /\ refreshes > 0
  /\ \/ /\ ~quit /\ (video[gen].paused \/ (videoq[gen] = <<>> /\ ~video[gen].eof))
        /\ window' = "loop"
        /\ refreshes' = refreshes + 1
     \/ /\ ~quit /\ ~video[gen].paused /\ (videoq[gen] # <<>> \/ video[gen].eof)
        /\ window' = "refresh"
        /\ refreshes' = refreshes - 1
  /\ UNCHANGED <<quit, stopped, buttons, gen, video, audio, threads, displayed,
                 presses>>

\* video_refresh_timer, the first test: try again in a millisecond while paused
\* or while no packet is queued and more may come.  Without video the background
\* image is displayed each time.
RefreshCheck ==
  LET Later == \/ ~HasVideo
               \/ video[gen].paused
               \/ videoq[gen] = <<>> /\ ~video[gen].eof
  IN  /\ window = "event"
      /\ refreshes > 0
      /\ control_btns' = (control_btns \/ (~quit /\ ~HasVideo))
      /\ \/ /\ quit
            /\ window' = "loop"
            /\ refreshes' = refreshes - 1
         \/ /\ ~quit /\ Later
            /\ window' = "loop"
            /\ UNCHANGED refreshes
         \/ /\ ~quit /\ ~Later
            /\ window' = "refresh"
            /\ refreshes' = refreshes - 1
      /\ UNCHANGED <<quit, stopped, started, mouse_left_down, gen, video, audio,
                     threads, displayed, presses>>

\* The second test: at the end nothing more is scheduled; else wait for a frame.
RefreshEnds ==
  /\ window = "refresh"
  /\ window' = IF videoq[gen] = <<>> /\ (quit \/ video[gen].eof)
                 THEN "loop" ELSE "deQueue"
  /\ UNCHANGED <<quit, stopped, buttons, gen, video, audio, threads, refreshes, displayed,
                 presses>>

\* A frame has come: the next refresh is scheduled, the frame displayed.  The
\* first one makes the renderer and with it the buttons.
RefreshShow ==
  /\ window = "deQueue"
  /\ frameq[gen] # <<>>
  /\ frameq' = [frameq EXCEPT ![gen] = Tail(@)]
  /\ refreshes' = IF quit THEN refreshes ELSE refreshes + 1
  /\ displayed' = Append(displayed, <<gen, Head(frameq[gen])>>)
  /\ control_btns' = TRUE
  /\ window' = "loop"
  /\ UNCHANGED <<quit, stopped, started, mouse_left_down, gen, video, audio, videoq,
                 audioq, demux, dec, pos, failures, presses>>

video_refresh_timer == RefreshCheck \/ RefreshEnds \/ RefreshShow

\* The handlers of the buttons.  media_play pauses what it has just started.
media_play ==
  /\ play
  /\ window' = "played"

\* A bug MediaPlayPauses could have: what was paused is what plays.
MediaPlayResumes ==
  /\ window = "played"
  /\ video' = [video EXCEPT ![gen].paused = FALSE]
  /\ window' = "loop"
  /\ UNCHANGED <<quit, stopped, buttons, gen, audio, threads, refreshes, displayed, presses>>

MediaPlayPauses ==
  /\ window = "played"
  /\ video' = [video EXCEPT ![gen].paused = TRUE]
  /\ window' = "loop"
  /\ UNCHANGED <<quit, stopped, buttons, gen, audio, threads, refreshes, displayed, presses>>

media_pause ==
  /\ video' = [video EXCEPT ![gen].paused = TRUE]
  /\ window' = "loop"
  /\ UNCHANGED <<quit, stopped, started, control_btns, gen, audio, threads,
                 refreshes, displayed>>

\* stop: the destructor of VideoState empties and deletes the queues and then
\* joins decode.
stop ==
  /\ stopped' = TRUE
  /\ frameq' = [frameq EXCEPT ![gen] = <<>>]
  /\ videoq' = [videoq EXCEPT ![gen] = <<>>]
  /\ audioq' = [audioq EXCEPT ![gen] = <<>>]
  /\ control_btns' = FALSE
  /\ UNCHANGED <<started, gen, pos, audio, demux, dec, refreshes, displayed,
                 failures>>

media_stop ==
  /\ quit' = TRUE
  /\ video' = [video EXCEPT ![gen].paused = TRUE]
  /\ stop
  /\ window' = "join"

\* ~MediaState, after the event loop.
Destructor ==
  /\ window = "ended"
  /\ gen > 0 /\ ~stopped
  /\ stop
  /\ window' = "joinLast"
  /\ UNCHANGED <<quit, mouse_left_down, video, presses>>

Join ==
  /\ window \in {"join", "joinLast"}
  /\ HasVideo => dec[gen].pc = "ended"
  /\ window' = IF window = "join" THEN "loop" ELSE "ended"
  /\ UNCHANGED <<quit, stopped, buttons, gen, video, audio, threads, refreshes,
                 displayed, presses>>

Handler == media_play \/ media_pause \/ media_stop

Press ==
  /\ window = "event"
  /\ presses < MaxPresses
  /\ presses' = presses + 1

\* SDL_MOUSEBUTTONDOWN: the start button, or one of the five if they exist.
MouseDown ==
  /\ Press
  /\ \/ ~started /\ HasVideo /\ media_play
     \/ started /\ control_btns /\ Handler
  /\ mouse_left_down' = TRUE

\* SDL_MOUSEBUTTONUP: the button under the mouse is called once more.
MouseUp ==
  /\ Press
  /\ mouse_left_down
  /\ mouse_left_down' = FALSE
  /\ \/ control_btns /\ Handler
     \/ /\ window' = "loop"
        /\ UNCHANGED <<quit, stopped, started, control_btns, gen, video, audio,
                       threads, refreshes, displayed>>

\* SDL_KEYDOWN, SDL_QUIT.
QuitEvent ==
  /\ Press
  /\ quit' = TRUE
  /\ video' = IF gen = 0 THEN video ELSE [video EXCEPT ![gen].quit = TRUE]
  /\ window' = "ended"
  /\ UNCHANGED <<stopped, buttons, gen, audio, threads, refreshes, displayed>>

Window ==
  \/ PlayAtOnce \/ LoopTest \/ video_refresh_timer
  \/ MediaPlayPauses \/ Destructor \/ Join
User == MouseDown \/ MouseUp \/ QuitEvent

Next ==
  \/ \E g \in Gens : decode_thread(g) \/ decode(g) \/ audio_callback(g)
  \/ Window
  \/ User

\* Threads that can go on do.  Nothing is assumed of the user, or of the device, which
\* asks for sound when it likes.
Fairness ==
  /\ WF_vars(Window)
  /\ \A g \in Gens : WF_vars(decode_thread(g)) /\ WF_vars(decode(g))

Spec == Init /\ [][Next]_vars /\ Fairness

-------------------------------------------------------------------------------
(* Properties.                                                             *)

Positions == [pc : {"none", "read", "put", "loop", "deQueue", "packet", "ended"},
              pkt : Packets \cup {NoPacket}]

\* The values the variables range over.
TypeOK ==
  /\ quit \in BOOLEAN /\ started \in BOOLEAN /\ stopped \in BOOLEAN
  /\ mouse_left_down \in BOOLEAN /\ control_btns \in BOOLEAN
  /\ gen \in 0 .. MaxPlays
  /\ pos \in [Gens -> 0 .. Len(File)]
  /\ video \in [Gens -> [quit : BOOLEAN, eof : BOOLEAN, paused : BOOLEAN]]
  /\ audio_eof \in [Gens -> BOOLEAN] /\ waiting \in [Gens -> BOOLEAN]
  /\ videoq \in [Gens -> Seq(Packets)]
  /\ audioq \in [Gens -> Seq(Packets)]
  /\ frameq \in [Gens -> Seq(Packets)]
  /\ demux \in [Gens -> Positions]
  /\ dec \in [Gens -> Positions]
  /\ window \in {"play", "loop", "event", "refresh", "deQueue", "played", "join",
                "joinLast", "ended"}
  /\ refreshes \in 0 .. MaxPlays
  /\ displayed \in Seq(Gens \X Packets)
  /\ failures \in 0 .. MaxFailures /\ presses \in 0 .. MaxPresses

Refreshing == window \in {"refresh", "deQueue"}

\* A refresh handler arms the next refresh itself, so a path that forgets to stops
\* the picture for good.  Until the end of the player or of the video, somebody is
\* always about to refresh; and each play() adds one chain of refreshes at most.
RefreshAlive ==
  /\ gen > 0 /\ refreshes = 0 /\ ~Refreshing => quit \/ video[gen].eof
  /\ refreshes + (IF Refreshing THEN 1 ELSE 0) <= gen

Ascending(s) == \A i, j \in DOMAIN s : i < j => s[i] < s[j]
AllBefore(s, t) == \A i \in DOMAIN s, j \in DOMAIN t : s[i] < t[j]

\* What play() has made of the file, from the display back to the demuxer.
Pipeline ==
  << [i \in DOMAIN displayed |-> displayed[i][2]],
     frameq[1],
     IF dec[1].pc = "packet" THEN <<dec[1].pkt>> ELSE <<>>,
     videoq[1],
     IF demux[1].pc = "put" THEN <<demux[1].pkt>> ELSE <<>> >>

\* However the threads meet and whatever fails to decode, the frames of one play()
\* are displayed in the order of the file and none twice.  (Two demuxers, after a
\* second play(), put what they read in either order.)
DisplayedInOrder ==
  gen = 1 =>
    \A a \in DOMAIN Pipeline :
      /\ Ascending(Pipeline[a])
      /\ \A b \in DOMAIN Pipeline : a < b => AllBefore(Pipeline[a], Pipeline[b])

\* Without failures every packet that was read is displayed or still to be.
NothingLost ==
  failures = 0 /\ ~stopped /\ gen = 1 =>
    \A p \in Packets :
      File[p] = "video" /\ p <= pos[1] =>
        \E a \in DOMAIN Pipeline : \E i \in DOMAIN Pipeline[a] : Pipeline[a][i] = p
==============================================================================
