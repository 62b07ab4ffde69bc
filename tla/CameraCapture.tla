----------------------------- MODULE CameraCapture -----------------------------
(***************************************************************************)
(* FFmpegTools::cv_capture_camera_to_file of ffmpegtools.cpp: a file with  *)
(* a video and an audio stream is opened, a picture of the camera is shown *)
(* in each round, and a frame of sound is written for it.  The encoder of  *)
(* the sound (external) gives a packet for a frame when it holds more than *)
(* Delay, in their order; it may refer to the frames it holds, and all of  *)
(* them are os->frame, which the next conversion overwrites.               *)
(***************************************************************************)
EXTENDS Naturals, Sequences, SequencesExt

CONSTANTS
  Rounds,       \* how many pictures are taken at most: 200 in the code
  Samples,      \* the samples of a frame
  Delay         \* how many frames the encoder keeps

\* What the constants are.
CameraCaptureAssumption ==
  Rounds \in Nat \ {0} /\ Samples \in Nat \ {0} /\ Delay \in Nat

VARIABLES
  pc,             \* "output", "video", "audio", "header", "camera", "capture", "round",
                  \* "write", "finish", or how it ended: "returned", "exited", "crashed"
  audio,          \* the audio stream has an encoder
  tmp_frame,      \* os->tmp_frame is not null
  output,         \* the file: "none", "open", "header", "trailer" or "closed"
  camera, capture,\* the devices are open
  inx,            \* the rounds
  samples_count,
  encoder,        \* the time stamps of the frames the encoder holds
  file,           \* those of the packets written, in their order
  samples,        \* the frame whose samples each of them has, by its time stamp
  lost,           \* history: the time stamps the encoder or the muxer refused
  pictures        \* history: how many pictures were taken

devices == <<camera, capture>>
stream == <<audio, tmp_frame>>
sound == <<samples_count, encoder, file, samples, lost>>
vars == <<pc, stream, output, devices, inx, sound, pictures>>

Init ==
  /\ pc = "output" /\ audio = FALSE /\ tmp_frame = FALSE /\ output = "none"
  /\ camera = FALSE /\ capture = FALSE /\ inx = 0
  /\ samples_count = 0 /\ encoder = <<>> /\ file = <<>> /\ samples = <<>> /\ lost = {}
  /\ pictures = 0

At(place, places) == pc = place /\ pc' \in places

Output ==
  /\ At("output", {"video", "returned"})
  /\ UNCHANGED <<stream, output, devices, inx, sound, pictures>>

\* The video stream is made; its encoder is never given a frame.
AddVideo ==
  /\ At("video", {"audio", "returned", "exited"})
  /\ UNCHANGED <<stream, output, devices, inx, sound, pictures>>

\* When there is no encoder for the sound add_audio_stream returns, and nobody asks; it
\* leaves tmp_frame as it was allocated, to which the constructor gives no value.
add_audio_stream ==
  /\ At("audio", {"header", "exited"})
  /\ audio' \in BOOLEAN
  /\ tmp_frame' \in BOOLEAN /\ (audio' => tmp_frame')
  /\ UNCHANGED <<output, devices, inx, sound, pictures>>

Header ==
  /\ At("header", {"camera", "returned"})
  /\ output' \in IF pc' = "camera" THEN {"header"} ELSE {"none", "open"}
  /\ UNCHANGED <<stream, devices, inx, sound, pictures>>

\* Without a device it returns 0, and leaves the file as it is.
OpenCamera ==
  /\ At("camera", {"capture", "returned"})
  /\ camera' = (pc' = "capture")
  /\ UNCHANGED <<stream, output, capture, inx, sound, pictures>>

OpenCapture ==
  /\ At("capture", {"round", "returned"})
  /\ capture' \in IF pc' = "round" THEN {TRUE} ELSE BOOLEAN
  /\ UNCHANGED <<stream, output, camera, inx, sound, pictures>>

\* A picture is taken, resized and shown; an empty one ends the capture.
Picture ==
  /\ At("round", {"write", "finish"})
  /\ pictures' = IF pc' = "write" THEN pictures + 1 ELSE pictures
  /\ UNCHANGED <<stream, output, devices, inx, sound>>

\* The time stamp of the frame that is encoded when c samples have been.
Encode(c) == c

Counted(c) == c + Samples

\* tmp_frame is made writable, and converted into os->frame, to which the frames in the
\* encoder refer: what it gives out has the samples of the last conversion.  The packet is
\* written, or the muxer refuses it.  No sound is captured into tmp_frame.
write_audio_frame ==
  /\ samples_count' = Counted(samples_count)
  /\ LET held == Append(encoder, Encode(samples_count)) IN
     \/ Len(held) <= Delay /\ encoder' = held /\ UNCHANGED <<file, samples, lost>>
     \/ /\ Len(held) > Delay
        /\ encoder' = Tail(held)
        /\ \/ /\ file' = Append(file, Head(held))
              /\ samples' = Append(samples, samples_count)
              /\ UNCHANGED lost
           \/ lost' = lost \union {Head(held)} /\ UNCHANGED <<file, samples>>
     \/ lost' = lost \union {Encode(samples_count)} /\ UNCHANGED <<encoder, file, samples>>

NextRound == inx + 1

NextPlace == IF inx' >= Rounds THEN "finish" ELSE "round"

Write ==
  /\ pc = "write" /\ tmp_frame /\ audio
  /\ write_audio_frame
  /\ inx' = NextRound
  /\ pc' = NextPlace
  /\ UNCHANGED <<stream, output, devices, pictures>>

\* Without a frame write_audio_frame returns 1, which nobody looks at.
WriteSkipped ==
  /\ pc = "write" /\ ~tmp_frame
  /\ inx' = NextRound
  /\ pc' = NextPlace
  /\ UNCHANGED <<stream, output, devices, sound, pictures>>

\* The frame cannot be made writable or converted; or there is no encoder to ask.
WriteFails ==
  /\ pc = "write" /\ tmp_frame
  /\ pc' = IF audio THEN "exited" ELSE "crashed"
  /\ UNCHANGED <<stream, output, devices, inx, sound, pictures>>

\* The trailer is written without the frames the encoder holds, and all is closed.
Finish ==
  /\ At("finish", {"returned"})
  /\ output' = "closed"
  /\ camera' = FALSE /\ capture' = FALSE
  /\ UNCHANGED <<stream, inx, sound, pictures>>

Next ==
  \/ Output \/ AddVideo \/ add_audio_stream \/ Header \/ OpenCamera \/ OpenCapture
  \/ Picture \/ Write \/ WriteSkipped \/ WriteFails \/ Finish

\* One thread, which never waits for another.
Spec == Init /\ [][Next]_vars /\ WF_vars(Next)

-------------------------------------------------------------------------------
\* The values the variables range over, and the rounds stay within their limit.
TypeOK ==
  /\ pc \in {"output", "video", "audio", "header", "camera", "capture", "round", "write",
             "finish", "returned", "exited", "crashed"}
  /\ output \in {"none", "open", "header", "closed"}
  /\ {audio, tmp_frame, camera, capture} \subseteq BOOLEAN
  /\ inx \in 0 .. Rounds /\ pictures \in 0 .. Rounds
  /\ Len(encoder) <= Delay

\* The time stamps of the sound run without a gap but for what was refused: those of the
\* packets, of what the encoder holds and of what was refused are all that were counted.
\* The samples of a packet may be those of a later frame, never of an earlier one.
SoundIsContinuous ==
  /\ Range(file) \union Range(encoder) \union lost
       = {Samples * n : n \in 0 .. (samples_count \div Samples) - 1}
  /\ \A a, b \in 1 .. Len(file) + Len(encoder) :
       a < b => (file \o encoder)[a] < (file \o encoder)[b]
  /\ Len(samples) = Len(file) /\ \A a \in 1 .. Len(file) : file[a] <= samples[a]

\* The sound keeps step with the camera: a frame of it for each picture but the last, if
\* there is an encoder for it, and otherwise none.
InStep ==
  samples_count \div Samples =
    IF ~audio THEN 0
    ELSE IF pc \in {"write", "exited", "crashed"} /\ pictures > 0
           THEN pictures - 1 ELSE pictures

\* The capture ends, at the latest after its rounds, and a file that was written to is
\* then closed with its trailer unless the program ended.
CaptureEnds ==
  <>\/ pc \in {"exited", "crashed"}
    \/ pc = "returned" /\ (pictures > 0 => output = "closed")
==============================================================================
