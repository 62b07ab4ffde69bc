---------------------------- MODULE PolledPlayer -----------------------------
(***************************************************************************)
(* The earlier player of opengldemo_1110.cpp: a decoding thread pushes     *)
(* pictures on a global std::queue and the window polls it, both under one *)
(* pthread mutex that start_decode creates and end_decode destroys.        *)
(***************************************************************************)
EXTENDS Naturals, Sequences

CONSTANTS
  File,          \* the packets of the input, each "audio" or "video"
  MaxFailures,   \* bound on the steps of the decoder that fail
  MaxRounds      \* bound on the rounds of the window's loop

PolledAssumption ==
  /\ File \in Seq({"audio", "video"})
  /\ MaxFailures \in Nat /\ MaxRounds \in Nat

\* A picture is named by its packet.
Frames == DOMAIN File
NoFrame == 0
Free == "nobody"

VARIABLES
  mutex,       \* who holds it: "decoder", "window", Free, or "destroyed"
  frameq,
  decoder,     \* where display_frames is: the decoding thread
  pos,         \* how much of the file has been read
  dst,         \* the picture the decoder has converted
  window,      \* where the window's thread is
  frame,       \* the picture display_frame holds
  displayed,   \* history: the pictures drawn
  failures, rounds

decoderVars == <<decoder, pos, dst, failures>>
windowVars == <<window, frame, displayed, rounds>>
vars == <<mutex, frameq, decoderVars, windowVars>>

Init ==
  /\ mutex = "destroyed" /\ frameq = <<>>
  /\ decoder = "none" /\ pos = 0 /\ dst = NoFrame /\ failures = 0
  /\ window = "start" /\ frame = NoFrame /\ displayed = <<>> /\ rounds = 0

-------------------------------------------------------------------------------
(* display_frames, the decoding thread.                                    *)

OpenInput ==
  /\ decoder = "open"
  /\ \/ decoder' = "read" /\ UNCHANGED failures
     \/ failures < MaxFailures /\ failures' = failures + 1 /\ decoder' = "ended"
  /\ UNCHANGED <<mutex, frameq, pos, dst, windowVars>>

\* The frame allocated for a packet of sound, and never freed, is left out.
Read ==
  /\ decoder = "read"
  /\ IF pos = Len(File)
       THEN decoder' = "ended" /\ UNCHANGED pos
       ELSE pos' = pos + 1 /\ decoder' = IF File[pos + 1] = "video" THEN "decode" ELSE "read"
  /\ UNCHANGED <<mutex, frameq, dst, failures, windowVars>>

\* No picture yet, or one that is converted; any failure ends the thread.
Decode ==
  /\ decoder = "decode"
  /\ \/ decoder' = "read" /\ UNCHANGED <<dst, failures>>
     \/ decoder' = "lock" /\ dst' = pos /\ UNCHANGED failures
     \/ /\ failures < MaxFailures /\ failures' = failures + 1
        /\ decoder' = "ended" /\ UNCHANGED dst
  /\ UNCHANGED <<mutex, frameq, pos, windowVars>>

DecoderLock ==
  /\ decoder = "lock" /\ mutex = Free
  /\ mutex' = "decoder" /\ decoder' = "push"
  /\ UNCHANGED <<frameq, pos, dst, failures, windowVars>>

Push ==
  /\ decoder = "push"
  /\ frameq' = Append(frameq, dst) /\ dst' = NoFrame
  /\ mutex' = Free /\ decoder' = "read"
  /\ UNCHANGED <<pos, failures, windowVars>>

display_frames == OpenInput \/ Read \/ Decode \/ DecoderLock \/ Push

-------------------------------------------------------------------------------
(* The window's thread.                                                    *)

start_decode ==
  /\ window = "start"
  /\ mutex' = Free /\ decoder' = "open" /\ window' = "loop"
  /\ UNCHANGED <<frameq, pos, dst, failures, frame, displayed, rounds>>

WindowLock ==
  /\ window = "loop" /\ rounds < MaxRounds
  /\ mutex = Free
  /\ mutex' = "window" /\ window' = "poll" /\ rounds' = rounds + 1
  /\ UNCHANGED <<frameq, decoderVars, frame, displayed>>

\* The queue may be empty: the window goes on at once.
Poll ==
  /\ window = "poll"
  /\ IF frameq = <<>>
       THEN mutex' = Free /\ window' = "loop" /\ UNCHANGED <<frameq, frame>>
       ELSE /\ frame' = Head(frameq) /\ frameq' = Tail(frameq)
            /\ window' = "draw" /\ UNCHANGED mutex
  /\ UNCHANGED <<decoderVars, displayed, rounds>>

\* Drawn while the mutex is held: the decoder waits for the texture.
Draw ==
  /\ window = "draw"
  /\ displayed' = Append(displayed, frame)
  /\ frame' = NoFrame /\ mutex' = Free /\ window' = "loop"
  /\ UNCHANGED <<frameq, decoderVars, rounds>>

CloseWindow ==
  /\ window = "loop"
  /\ window' = "join"
  /\ UNCHANGED <<mutex, frameq, decoderVars, frame, displayed, rounds>>

\* A bug end_decode could have: the thread is not joined.
end_decode_unjoined ==
  /\ window = "join"
  /\ mutex' = "destroyed" /\ window' = "ended"
  /\ UNCHANGED <<frameq, decoderVars, frame, displayed, rounds>>

\* There is no flag to end the decoder: it is joined when it has read the file.
end_decode ==
  /\ window = "join" /\ decoder = "ended"
  /\ mutex' = "destroyed" /\ window' = "ended"
  /\ UNCHANGED <<frameq, decoderVars, frame, displayed, rounds>>

main == start_decode \/ WindowLock \/ Poll \/ Draw \/ end_decode

Next == display_frames \/ main \/ CloseWindow

Spec == Init /\ [][Next]_vars /\ WF_vars(display_frames) /\ WF_vars(main)

-------------------------------------------------------------------------------
(* Properties.                                                             *)

\* One of the two threads at a time is between lock and unlock, and a thread there
\* holds a mutex that exists: end_decode does not destroy it under the decoder.
Exclusive ==
  /\ decoder = "push" => mutex = "decoder"
  /\ window \in {"poll", "draw"} => mutex = "window"
  /\ decoder \in {"lock", "push"} => mutex # "destroyed"

One(f) == IF f # NoFrame THEN <<f>> ELSE <<>>

\* From the decoder to the screen the pictures form a queue: none is lost, drawn twice
\* or overtaken.
Pipeline == INSTANCE FifoQueue WITH
  Packets <- Frames,
  queue <- One(frame) \o frameq \o One(dst),
  taken <- displayed,
  dropped <- {}

PipelineIsFifo == Pipeline!FifoSpec

\* Closing the window ends the program although the decoder is not told: it must still
\* get the mutex for each picture left, and nobody empties the queue for it.
ProgramEnds == window = "join" ~> window = "ended"
==============================================================================
