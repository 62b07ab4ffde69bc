---------------------------- MODULE OpenglPlayer -----------------------------
(***************************************************************************)
(* OpenglPlayer of opengldemo.cpp: decode_thread reads and decodes the     *)
(* file, the window's thread displays one frame in each round of its loop. *)
(* A frame takes a copy of its time with it into the queue.                *)
(***************************************************************************)
EXTENDS Naturals, Sequences

CONSTANTS
  File,          \* the packets of the input, each "audio" or "video"
  Time,          \* when each picture is due, in ticks of its stream
  Stamped,       \* the pictures that say so; the others have AV_NOPTS_VALUE
  Delay,         \* what the clock advances by after each, more if it is repeated
  MaxTime,       \* bound on the times
  MaxFailures,   \* bound on reads and decodes that fail
  MaxRounds      \* bound on the rounds of the window's loop

OpenglAssumption ==
  /\ File \in Seq({"audio", "video"})
  /\ MaxFailures \in Nat /\ MaxRounds \in Nat /\ MaxTime \in Nat
  /\ Time \in [DOMAIN File -> 0 .. MaxTime] /\ Delay \in [DOMAIN File -> Nat \ {0}]
  /\ Stamped \subseteq DOMAIN File
  /\ \A j, k \in DOMAIN File :
       j < k /\ File[j] = "video" /\ File[k] = "video" => Time[j] + Delay[j] <= Time[k]

\* A frame is named by its packet.
Frames == DOMAIN File
NoFrame == 0

\* The constructor leaves video_clock as it finds it: a time computed from that can be
\* anything.  0 stands for such a time, since a time of 0 is taken for none as well.
Unknown == 0
Timed == {f \in Stamped : Time[f] # 0}

\* What goes through the queue.
Nothing == <<NoFrame, Unknown>>
Queued == Frames \X (0 .. MaxTime)

VARIABLES
  quit,
  pos,         \* how much of the file has been read
  decoder,     \* where decode_thread is
  frame,       \* the frame it holds
  pts,         \* its local variable, the time of that frame
  video_clock, \* when the next frame is due
  frameq,      \* keeps the promise of FifoQueue
  window,      \* where the window's thread is
  shown,       \* the frame display_frame holds, with its time
  displayed,   \* history: the frames displayed, each with its time
  closed,      \* whether the user has closed the window
  failures, rounds

clocks == <<pts, video_clock>>
decoderVars == <<pos, decoder, frame, clocks, failures>>
windowVars == <<window, shown, displayed, closed, rounds>>
vars == <<quit, frameq, decoderVars, windowVars>>

Init ==
  /\ quit = FALSE
  /\ pos = 0
  /\ decoder = "none"
  /\ frame = NoFrame
  /\ pts = Unknown
  /\ video_clock = Unknown
  /\ frameq = <<>>
  /\ window = "start"
  /\ shown = Nothing
  /\ displayed = <<>>
  /\ closed = FALSE
  /\ failures = 0
  /\ rounds = 0

-------------------------------------------------------------------------------
(* decode_thread.                                                          *)

\* A bug LoopTest could have: quit is set only for the window.
LoopForever ==
  /\ decoder = "loop"
  /\ decoder' = "read"
  /\ UNCHANGED <<quit, pos, frame, clocks, frameq, failures, windowVars>>

LoopTest ==
  /\ decoder = "loop"
  /\ decoder' = IF quit THEN "ended" ELSE "read"
  /\ UNCHANGED <<quit, pos, frame, clocks, frameq, failures, windowVars>>

\* Sound goes to the queue of the audio player, a picture is decoded.
Read ==
  /\ decoder = "read"
  /\ pos < Len(File)
  /\ pos' = pos + 1
  /\ IF File[pos + 1] = "video"
       THEN decoder' = "packet" /\ frame' = pos + 1
       ELSE decoder' = "loop" /\ UNCHANGED frame
  /\ UNCHANGED <<quit, clocks, frameq, failures, windowVars>>

\* An input that is live may have nothing yet: the thread sleeps and asks again.
ReadNothing ==
  /\ decoder = "read"
  /\ decoder' = "loop"
  /\ UNCHANGED <<quit, pos, frame, clocks, frameq, failures, windowVars>>

ReadEnd ==
  /\ decoder = "read"
  /\ pos = Len(File)
  /\ decoder' = "ended" /\ quit' = TRUE
  /\ UNCHANGED <<pos, frame, clocks, frameq, failures, windowVars>>

\* Reading or decoding fails: the thread ends, and quit is left alone.
Fail ==
  /\ decoder \in {"read", "packet"}
  /\ failures < MaxFailures
  /\ failures' = failures + 1
  /\ decoder' = "ended"
  /\ UNCHANGED <<quit, pos, frame, clocks, frameq, windowVars>>

\* A bug synchronize could have: the clock is set and not advanced.
synchronize_still ==
  LET time == IF frame \in Timed THEN Time[frame] ELSE video_clock
  IN  pts' = time /\ video_clock' = time

\* The frame's own time sets the clock; a frame without one is given the clock's.
synchronize ==
  LET time == IF frame \in Timed THEN Time[frame] ELSE video_clock
  IN  /\ pts' = time
      /\ video_clock' = IF time = Unknown THEN Unknown ELSE time + Delay[frame]

\* The packet gave a frame, or none yet.
Decode ==
  /\ decoder = "packet"
  /\ \/ decoder' = "put" /\ synchronize
     \/ decoder' = "loop" /\ UNCHANGED clocks
  /\ UNCHANGED <<quit, pos, frame, frameq, failures, windowVars>>

\* After a second's sleep if the queue is full, the frame is queued, with a copy of pts
\* that enQueue makes.
Put ==
  /\ decoder = "put"
  /\ frameq' = Append(frameq, <<frame, pts>>)
  /\ decoder' = "loop"
  /\ UNCHANGED <<quit, pos, frame, clocks, failures, windowVars>>

decode_thread ==
  LoopTest \/ Read \/ ReadNothing \/ ReadEnd \/ Fail \/ Decode \/ Put

-------------------------------------------------------------------------------
(* play, on the window's thread.                                           *)

\* play returns before it starts the thread when the file cannot be opened.
OpenFails ==
  /\ window = "start" /\ failures < MaxFailures
  /\ failures' = failures + 1
  /\ window' = "ended"
  /\ UNCHANGED <<quit, pos, decoder, frame, clocks, frameq, shown, displayed, closed, rounds>>

start ==
  /\ window = "start"
  /\ decoder' = "loop"
  /\ window' = "loop"
  /\ UNCHANGED <<quit, pos, frame, clocks, frameq, failures, shown, displayed,
                 closed, rounds>>

\* display_frame returns at once when quit is set, else it waits for a frame.
BeginFrame ==
  /\ window = "loop" /\ ~closed
  /\ rounds < MaxRounds
  /\ rounds' = rounds + 1
  /\ window' = IF quit THEN "loop" ELSE "deQueue"
  /\ UNCHANGED <<quit, frameq, decoderVars, shown, displayed, closed>>

DeQueue ==
  /\ window = "deQueue"
  /\ frameq # <<>>
  /\ shown' = Head(frameq)
  /\ frameq' = Tail(frameq)
  /\ window' = "sync"
  /\ UNCHANGED <<quit, decoderVars, displayed, closed, rounds>>

\* delay_sync waits until the time the frame brought, and it is drawn.
Display ==
  /\ window = "sync"
  /\ displayed' = Append(displayed, shown)
  /\ shown' = Nothing
  /\ window' = "loop"
  /\ UNCHANGED <<quit, frameq, decoderVars, closed, rounds>>

\* The user closes the window: the loop ends at its next test.
CloseWindow ==
  /\ window \in {"loop", "deQueue", "sync"} /\ ~closed
  /\ closed' = TRUE
  /\ UNCHANGED <<quit, frameq, decoderVars, window, shown, displayed, rounds>>

EndLoop ==
  /\ window = "loop" /\ closed
  /\ quit' = TRUE
  /\ window' = "join"
  /\ UNCHANGED <<frameq, decoderVars, shown, displayed, closed, rounds>>

\* stop.  The destructor joins the same thread once more.
stop ==
  /\ window = "join"
  /\ decoder = "ended"
  /\ window' = "ended"
  /\ UNCHANGED <<quit, frameq, decoderVars, shown, displayed, closed, rounds>>

play == OpenFails \/ start \/ BeginFrame \/ DeQueue \/ Display \/ EndLoop \/ stop

Next == decode_thread \/ play \/ CloseWindow

Spec == Init /\ [][Next]_vars /\ WF_vars(decode_thread) /\ WF_vars(play)

-------------------------------------------------------------------------------
(* Properties.                                                             *)

\* The values the variables range over.
TypeOK ==
  /\ quit \in BOOLEAN /\ closed \in BOOLEAN
  /\ pos \in 0 .. Len(File)
  /\ decoder \in {"none", "loop", "read", "packet", "put", "ended"}
  /\ frame \in Frames \cup {NoFrame} /\ shown \in Queued \cup {Nothing}
  /\ pts \in 0 .. MaxTime /\ video_clock \in Nat
  /\ frameq \in Seq(Queued)
  /\ window \in {"start", "loop", "deQueue", "sync", "join", "ended"}
  /\ displayed \in Seq(Queued)
  /\ failures \in 0 .. MaxFailures /\ rounds \in 0 .. MaxRounds

One(f, here) == IF here THEN <<f>> ELSE <<>>

\* The way from the decoder to the screen, through the decoder's hands, the queue and
\* display_frame, is a queue: a decoded frame is put with its time, displaying takes the
\* oldest one, and none is dropped.
Pipeline == INSTANCE FifoQueue WITH
  Packets <- Queued,
  queue <- One(shown, shown # Nothing) \o frameq \o One(<<frame, pts>>, decoder = "put"),
  taken <- displayed,
  dropped <- {}

PipelineIsFifo == Pipeline!FifoSpec

\* A picture that says when it is due is displayed at that time; one that does not, at a
\* time between those of the pictures around it, once a time is known at all.  The times
\* are handed from one thread to the other and made from what earlier pictures left in
\* the clock.
TimesAscend ==
  /\ \A i \in DOMAIN displayed :
       displayed[i][1] \in Timed => displayed[i][2] = Time[displayed[i][1]]
  /\ \A i, j \in DOMAIN displayed :
       i < j /\ displayed[i][2] # Unknown => displayed[i][2] < displayed[j][2]

\* Closing the window ends the decoder, also when the input has nothing for it.
JoinReturns == window = "join" ~> window = "ended"
==============================================================================
