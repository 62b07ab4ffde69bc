------------------------------ MODULE ImageVideo ------------------------------
(***************************************************************************)
(* FFmpegTools::create_video_from_images of ffmpegtools.cpp: a set of      *)
(* pictures is loaded, then shown in turn, each as one frame of an H.264   *)
(* file.  The encoder (external) answers a frame with a packet only when   *)
(* it holds more than Delay of them, and with any of those: it may encode  *)
(* them in another order than they are shown.                              *)
(***************************************************************************)
EXTENDS Naturals, Sequences, FiniteSets, SequencesExt

CONSTANTS
  Images,     \* how many files are tried: 20 in the code
  Rounds,     \* how many frames are asked for: 100 in the code
  LastPts,    \* how many frames ten seconds are, at the rate of the encoder
  Delay       \* how many frames the encoder keeps

\* What the constants are.
ImageVideoAssumption ==
  Images \in Nat \ {0} /\ Rounds \in Nat /\ LastPts \in Nat /\ Delay \in Nat

VARIABLES
  pc,           \* "load", "output", "stream", "header", "frame", "write",
                \* or how it ended: "returned", "exited" or "crashed"
  i,            \* the loop counter
  image_frames, \* the images loaded; 0 is a frame without a picture
  num,          \* the image whose turn it is
  next_pts,
  encoder,      \* the pts of the frames the encoder holds
  file,         \* the pts of the packets of the output
  trailer,      \* the trailer is written
  shown,        \* history: the image of each pts
  lost          \* history: the pts the encoder or the muxer refused

vars == <<pc, i, image_frames, num, next_pts, encoder, file, trailer, shown, lost>>

Init ==
  /\ pc = "load" /\ i = 0 /\ image_frames = <<>> /\ num = 0 /\ next_pts = 0
  /\ encoder = {} /\ file = {} /\ trailer = FALSE
  /\ shown = <<>> /\ lost = {}

\* What a file gives: no frame (it cannot be opened, read or decoded), its picture, or,
\* when its packets are of another medium, the frame that was allocated for them.
load_frame_from_image(name) == {<<>>, <<name>>, <<0>>}

Load ==
  /\ pc = "load"
  /\ \E frame \in load_frame_from_image(i + 1) : image_frames' = image_frames \o frame
  /\ i' = (i + 1) % Images
  /\ pc' = IF i + 1 = Images THEN "output" ELSE "load"
  /\ UNCHANGED <<num, next_pts, encoder, file, trailer, shown, lost>>

\* The output context is made, or create_video_from_images returns.
Output ==
  /\ pc = "output"
  /\ pc' \in {"stream", "returned"}
  /\ UNCHANGED <<i, image_frames, num, next_pts, encoder, file, trailer, shown, lost>>

\* Without a stream or an encoder it returns; one that does not open, as when no picture
\* gave the size, ends the program.
add_video_stream ==
  /\ pc = "stream"
  /\ pc' \in {"returned", "exited"}
       \union (IF Range(image_frames) \subseteq {0} THEN {} ELSE {"header"})
  /\ UNCHANGED <<i, image_frames, num, next_pts, encoder, file, trailer, shown, lost>>

Header ==
  /\ pc = "header"
  /\ pc' \in {"frame", "returned", "exited"}
  /\ UNCHANGED <<i, image_frames, num, next_pts, encoder, file, trailer, shown, lost>>

\* The turn after n, whatever the number of images that were loaded.
NextImage(n) == IF n + 1 >= Images THEN 0 ELSE n + 1

\* The image whose turn it is; past the end of the vector anything may happen.
Take == IF num < Len(image_frames) THEN {image_frames[num + 1]} ELSE {}

\* After ten seconds there is no frame; no scaler can be made from a frame without a
\* picture, but one that was made before is used for it.
convert_image_frame(image) ==
  CASE next_pts >= LastPts -> "frame"
    [] next_pts < LastPts /\ image = 0 /\ shown = <<>> -> "exited"
    [] OTHER -> "write"

Convert ==
  /\ pc = "frame" /\ i < Rounds
  /\ \E image \in Take :
       /\ pc' = convert_image_frame(image)
       /\ next_pts' = IF pc' = "write" THEN next_pts + 1 ELSE next_pts
       /\ shown' = IF pc' = "write" THEN Append(shown, image) ELSE shown
  /\ num' = NextImage(num)
  /\ i' = IF pc' = "frame" THEN i + 1 ELSE i
  /\ UNCHANGED <<image_frames, encoder, file, trailer, lost>>

OutOfRange ==
  /\ pc = "frame" /\ i < Rounds
  /\ Take = {}
  /\ pc' = "crashed"
  /\ UNCHANGED <<i, image_frames, num, next_pts, encoder, file, trailer, shown, lost>>

\* One frame goes in and at most one packet comes out; the encoder or the muxer may
\* refuse it.
write_video_frame(pts) ==
  LET held == encoder \union {pts} IN
  \/ encoder' = held /\ Cardinality(held) <= Delay /\ UNCHANGED <<file, lost>>
  \/ /\ Cardinality(held) > Delay
     /\ \E p \in held :
          /\ encoder' = held \ {p}
          /\ \/ file' = file \union {p} /\ UNCHANGED lost
             \/ lost' = lost \union {p} /\ UNCHANGED file
  \/ lost' = lost \union {pts} /\ UNCHANGED <<encoder, file>>

Write ==
  /\ pc = "write"
  /\ write_video_frame(next_pts - 1)
  /\ pc' = "frame"
  /\ i' = i + 1
  /\ UNCHANGED <<image_frames, num, next_pts, trailer, shown>>

\* An encoder that fails to give a packet ends the program.
EncoderFails ==
  /\ pc = "write"
  /\ pc' = "exited"
  /\ UNCHANGED <<i, image_frames, num, next_pts, encoder, file, trailer, shown, lost>>

\* The trailer is written without the frames the encoder still holds.
Finish ==
  /\ pc = "frame" /\ i = Rounds
  /\ pc' = "returned"
  /\ trailer' = TRUE
  /\ UNCHANGED <<i, image_frames, num, next_pts, encoder, file, shown, lost>>

Next ==
  \/ Load \/ Output \/ add_video_stream \/ Header
  \/ Convert \/ OutOfRange \/ Write \/ EncoderFails \/ Finish

\* One thread, which never waits.
Spec == Init /\ [][Next]_vars /\ WF_vars(Next)

-------------------------------------------------------------------------------
\* The values the variables range over: a picture is stamped before it is written, and
\* the encoder holds no more than its delay.
TypeOK ==
  /\ pc \in {"load", "output", "stream", "header", "frame", "write", "returned", "exited",
             "crashed"}
  /\ i \in 0 .. Rounds \union 0 .. Images
  /\ Range(image_frames) \subseteq 0 .. Images /\ Len(image_frames) <= Images
  /\ num \in 0 .. Images - 1
  /\ next_pts = Len(shown) /\ next_pts <= LastPts
  /\ trailer \in BOOLEAN
  /\ Cardinality(encoder) <= Delay

\* The frames the file lacks are those that were refused and those in the encoder: no
\* other is dropped.
OnlyTheTailIsMissing ==
  pc # "exited" =>
    file \union encoder \union lost
      = {p \in 0 .. next_pts - 1 : pc = "write" => p # next_pts - 1}

\* When every image was loaded the frames show them in turn, and none is looked for
\* past the end of the vector.
ImagesInTurn ==
  image_frames = [n \in 1 .. Images |-> n] =>
    /\ pc # "crashed"
    /\ \A p \in DOMAIN shown : shown[p] = ((p - 1) % Images) + 1

\* The program comes to an end, whatever the files and the encoder do, and a video that
\* was finished has a frame of each round up to the ten seconds.
Ends ==
  <>\/ pc \in {"exited", "crashed"}
    \/ pc = "returned" /\ ~trailer
    \/ pc = "returned" /\ next_pts = IF Rounds < LastPts THEN Rounds ELSE LastPts
==============================================================================
