------------------------------ MODULE MCWriters ------------------------------
(***************************************************************************)
(* The four writers of files beside each other: main_mux (Muxing), the     *)
(* muxer of a camera (AVMuxer), the video made of images (ImageVideo) and  *)
(* the camera captured to a file (CameraCapture).  One of them runs:       *)
(* program says which, the others stay as they were made.  The muxers      *)
(* have one encoder's bound, and each a duration and frame times.          *)
(***************************************************************************)
EXTENDS Muxing

CONSTANTS
  CameraDuration, CameraFrameTime, InxLimit, MaxStarts, MaxFailures,    \* of AVMuxer
  ImageFiles, ImageRounds, LastPts,                                     \* of ImageVideo
  CaptureRounds, Samples,                                               \* of CameraCapture
  Delay                           \* of the encoders of the latter two

VARIABLES
  program,
  inx, starts, lost, failures,
  image_pc, image_i, image_frames, num, image_pts, image_encoder, image_file, trailer,
  shown, image_lost,
  camera_pc, audio, tmp_frame, output, camera, capture, camera_inx, samples_count,
  camera_encoder, camera_file, samples, camera_lost, pictures

Programs == {"muxing", "avmuxer", "images", "camera"}

-----------------------------------------------------------------------------
\* The second muxer of the process begins with the counter of the first.
AVMux == INSTANCE AVMuxer WITH
  StreamDuration <- CameraDuration, MaxFrameTime <- CameraFrameTime

Images == INSTANCE ImageVideo WITH
  Images <- ImageFiles, Rounds <- ImageRounds,
  pc <- image_pc, i <- image_i, next_pts <- image_pts, encoder <- image_encoder,
  file <- image_file, lost <- image_lost

Camera == INSTANCE CameraCapture WITH
  Rounds <- CaptureRounds,
  pc <- camera_pc, inx <- camera_inx, encoder <- camera_encoder,
  file <- camera_file, lost <- camera_lost

-----------------------------------------------------------------------------

ASSUME WritersAssumption ==
  /\ MuxerAssumption /\ AVMux!AVMuxerAssumption
  /\ Images!ImageVideoAssumption /\ Camera!CameraCaptureAssumption

muxerVars == <<coreVars, inx, starts, lost, failures>>
imageVars ==
  <<image_pc, image_i, image_frames, num, image_pts, image_encoder, image_file, trailer,
    shown, image_lost>>
cameraVars ==
  <<camera_pc, audio, tmp_frame, output, camera, capture, camera_inx, samples_count,
    camera_encoder, camera_file, samples, camera_lost, pictures>>
allVars == <<program, muxerVars, imageVars, cameraVars>>

WritersInit ==
  /\ program \in Programs
  /\ IF program = "muxing"
       THEN Init /\ inx = 0 /\ starts = 1 /\ lost = {} /\ failures = 0
       ELSE AVMux!Init
  /\ program \in {"images", "camera"} =>
       \A s \in DOMAIN delay : frameTime[s] = 1 /\ delay[s] = 0
  /\ Images!Init /\ Camera!Init

MuxFile ==
  /\ program = "muxing" /\ Next
  /\ UNCHANGED <<program, inx, starts, lost, failures, imageVars, cameraVars>>

MuxCamera ==
  /\ program = "avmuxer" /\ AVMux!Next
  /\ UNCHANGED <<program, imageVars, cameraVars>>

WriteImages ==
  /\ program = "images" /\ Images!Next
  /\ UNCHANGED <<program, muxerVars, cameraVars>>

WriteCamera ==
  /\ program = "camera" /\ Camera!Next
  /\ UNCHANGED <<program, muxerVars, imageVars>>

WritersNext == MuxFile \/ MuxCamera \/ WriteImages \/ WriteCamera

\* Each writer is one thread that waits for no other; nothing forces a failure, or the
\* event of the user for which main_mux waits before it closes its streams.
WritersSpec ==
  /\ WritersInit /\ [][WritersNext]_allVars
  /\ WF_coreVars(program = "muxing" /\ Runs)
  /\ WF_muxerVars(program = "avmuxer" /\ AVMux!start /\ stage' # "exited")
  /\ WF_imageVars(program = "images" /\ Images!Next)
  /\ WF_cameraVars(program = "camera" /\ Camera!Next)

-----------------------------------------------------------------------------
\* The comments "make sure we do not overwrite it here" of the muxers and "return 1 when
\* encoding is finished": every packet of theirs shows the frame of its time stamp, though
\* the captured sound, which has the comment too, keeps only its time stamps.  No frame is
\* missing when the trailer is written but those that could not be encoded or written and
\* those an encoder that is not emptied holds back: at most its delay, as the types say.
NothingMissing ==
  /\ program = "muxing" => TypeOK /\ EncodedAsGiven /\ AllFramesWritten
  /\ program = "avmuxer" => AVMux!TypeOK /\ AVMux!EncodedAsGiven /\ AVMux!OnlyDelayedLost
  /\ Images!TypeOK /\ Images!OnlyTheTailIsMissing /\ Images!ImagesInTurn
  /\ Camera!TypeOK /\ Camera!SoundIsContinuous

\* The streams of a file keep step: neither muxer lets one be ahead by more than a
\* frame, and a frame of sound is written for each picture of the camera.
StreamsTogether ==
  /\ program = "muxing" => StreamsInterleaved
  /\ program = "avmuxer" => AVMux!StreamsInterleaved
  /\ Camera!InStep

\* Each writer comes to an end by itself, main_mux but for its user: the first muxer of a
\* process if its sound takes no more calls than the limit of its counter.
WritersEnd ==
  /\ program = "muxing" => MuxingEnds
  /\ program = "avmuxer" => AVMux!MuxingEnds
  /\ program = "images" => Images!Ends
  /\ program = "camera" => Camera!CaptureEnds
=============================================================================
