------------------------------ MODULE FFmpegUtil ------------------------------
(***************************************************************************)
(* FFmpegUtil of ffmpegutil.cpp: run opens a file, decodes and filters it, *)
(* shows the pictures and hands the sound to the callback of SDL through   *)
(* one buffer, out_buffer, its length audio_len and its position           *)
(* audio_pos, all without a lock.  The results of opening are ignored, and *)
(* what was not opened is missed where it is used.                         *)
(*                                                                         *)
(* Lengths are counted in what the device asks for at once.                *)
(***************************************************************************)
EXTENDS Integers, Sequences

CONSTANTS
  Files,       \* the files: records of their streams' types, their packets' streams and
               \* whether their sound has a frame_size (some codecs have none)
  Chunks,      \* how often the device asks for sound until it has a frame's
  Capacity,    \* ... all that out_buffer has room for: MAX_AUDIO_FRAME_SIZE * 2 bytes
  Endless      \* ... as much as the negative error of av_samples_get_buffer_size says as Uint32

StreamTypes == {"video", "audio", "other"}

ASSUME FFmpegUtilAssumption ==
  /\ {Chunks, Capacity, Endless} \subseteq Nat
  /\ 0 < Chunks /\ Chunks < Capacity /\ Capacity < Endless
  /\ \A f \in Files : /\ f.streams \in Seq(StreamTypes)
                      /\ f.packets \in Seq(DOMAIN f.streams)
                      /\ f.sized \in BOOLEAN

VARIABLES
  file, wanted,    \* the file; whether an output file is wanted
  pc,              \* where run is, and whether the object was destroyed
  opened,          \* how many decoders stream_ctx holds; -1 without a stream_ctx
  named,           \* the types pVideoCodecCtx and pAudioCodecCtx are set for
  output,          \* ofmt_ctx: "none", "noheader", "header" or "trailer"
  device,          \* SDL plays: the callback is called
  filters,         \* the entries of filter_ctx that were initialised; -1 without it
  sdlTexture,      \* a picture was shown
  next,            \* the next packet of the file
  quit,            \* the user ended run
  out_buffer,      \* the audio frame out_buffer holds; 0 for none
  audio_len, audio_pos,
  handed,          \* history: how many frames were handed to the callback
  raced,           \* history: the callback read or wrote the position of another frame
  cb, len, pos,    \* where the callback is, what it has read
  mixed,           \* history: how often the callback mixed sound
  heard            \* history: the frame it mixed last; 0 for none

setup == <<file, wanted, opened, named, output, filters>>
shared == <<out_buffer, audio_len, audio_pos, handed, raced>>
callback == <<cb, len, pos, mixed, heard>>
vars == <<setup, pc, device, sdlTexture, next, quit, shared, callback>>

Streams == DOMAIN file.streams
TypesOf(n) == {file.streams[i] : i \in 1 .. n}

\* videoIndex or audioIndex: the last stream of the type.
IsIndexOf(s, type) ==
  file.streams[s] = type /\ \A t \in Streams : t > s => file.streams[t] # type

Init ==
  /\ file \in Files /\ wanted \in BOOLEAN
  /\ pc = "open_input_file"
  /\ opened = -1 /\ named = {} /\ output = "none" /\ filters = -1
  /\ device = FALSE /\ sdlTexture = FALSE /\ next = 1 /\ quit = FALSE
  /\ out_buffer = 0 /\ audio_len = 0 /\ audio_pos = 0
  /\ handed = 0 /\ raced = FALSE
  /\ cb = "idle" /\ len = 0 /\ pos = 0 /\ mixed = 0 /\ heard = 0

\* A step of opening leaves the sound and what comes later alone.
Opens(label) ==
  /\ pc = label
  /\ UNCHANGED <<file, wanted, sdlTexture, next, quit, shared, callback>>

\* A step of run once everything is open.
Runs(label) == pc = label /\ UNCHANGED <<setup, callback>>

-------------------------------------------------------------------------------
(* Opening.                                                                *)

\* open_input_file: the file, or the decoder of a stream, may fail; a decoder that
\* cannot be opened leaves the context of its type set.
open_input_file ==
  /\ Opens("open_input_file")
  /\ pc' = IF wanted THEN "open_output_file" ELSE "initAV"
  /\ \/ UNCHANGED <<opened, named>>
     \/ \E n \in 0 .. Len(file.streams) :
          /\ opened' = n
          /\ named' \in {TypesOf(n), TypesOf(IF n \in Streams \ {Len(file.streams)} THEN n + 1 ELSE n)}
  /\ UNCHANGED <<output, device, filters>>

\* open_output_file looks at the decoder of every stream; when it fails before the
\* header is written, ofmt_ctx may stay.
open_output_file ==
  /\ Opens("open_output_file")
  /\ \/ output' \in {"none", "noheader"} /\ pc' = "initAV"
     \/ opened = Len(file.streams) /\ output' = "header" /\ pc' = "initAV"
     \/ opened < Len(file.streams) /\ pc' = "crashed" /\ UNCHANGED output
  /\ UNCHANGED <<opened, named, device, filters>>

\* initAV uses the sound decoder; SDL may not start.
initAV ==
  /\ Opens("initAV")
  /\ \/ "audio" \in named /\ device' \in BOOLEAN /\ pc' = "dump"
     \/ "audio" \notin named /\ pc' = "crashed" /\ UNCHANGED device
  /\ UNCHANGED <<opened, named, output, filters>>

\* dump names the video codec.
dump ==
  /\ Opens("dump")
  /\ pc' = IF "video" \in TypesOf(opened) THEN "init_filters" ELSE "crashed"
  /\ UNCHANGED <<opened, named, output, device, filters>>

\* init_filter makes a graph for a picture or a sound stream, which may fail.
MayFail(i) == file.streams[i] # "other"

\* init_filters uses the decoder of each such stream.  When a graph cannot be made run
\* returns, and the entries behind it are never written.
init_filters ==
  LET Missing == {i \in Streams : i > opened /\ MayFail(i)}
  IN  /\ Opens("init_filters")
      /\ \/ \E i \in Streams :
              /\ MayFail(i)
              /\ \A j \in Missing : i < j
              /\ filters' = i
              /\ pc' = "returned"
         \/ Missing = {} /\ filters' = Len(file.streams) /\ pc' = "av_read_frame"
         \/ Missing # {} /\ pc' = "crashed" /\ UNCHANGED filters
      /\ UNCHANGED <<opened, named, output, device>>

-------------------------------------------------------------------------------
(* The loop of run.                                                        *)

\* A picture without a size, or without a window, is not shown.
sdlDisplayFrame == sdlTexture' \in {sdlTexture, TRUE}

\* handle_filters gives sound that is also to be written, and nothing on an error.
Filtered(frame) == IF output = "none" THEN {frame} ELSE {frame, out_buffer}

\* A packet goes to the decoder of its stream, which may give a frame; a picture
\* that comes out of the filters is shown, sound of the audio stream converted.  The
\* decoder of a stream that is neither was never opened: the libraries answer its packet
\* with an error or use what opening would have set.
Read ==
  /\ Runs("av_read_frame")
  /\ next <= Len(file.packets)
  /\ next' = next + 1
  /\ LET s == file.packets[next]
     IN  \/ s > opened /\ pc' = "crashed" /\ UNCHANGED sdlTexture
         \/ file.streams[s] = "other" /\ pc' = "crashed" /\ UNCHANGED sdlTexture
         \/ s <= opened /\ pc' = "SDL_PollEvent" /\ UNCHANGED sdlTexture
         \/ /\ s <= opened /\ IsIndexOf(s, "video")
            /\ sdlDisplayFrame
            /\ pc' = "SDL_PollEvent"
         \/ /\ s <= opened /\ IsIndexOf(s, "audio")
            /\ pc' = "swr_convert"
            /\ UNCHANGED sdlTexture
  /\ UNCHANGED <<device, quit, shared>>

\* decode_audio first converts, with a context that exists only if SDL started, ...
Convert ==
  /\ Runs("swr_convert")
  /\ out_buffer' \in Filtered(handed + 1)
  /\ pc' \in {"audio_len"} \union (IF device THEN {} ELSE {"crashed"})
  /\ UNCHANGED <<device, sdlTexture, next, quit, audio_len, audio_pos, handed, raced>>

\* Bugs Played could have: decode_audio does not wait; it waits for sound to play.
NeverWaits == TRUE
StillPlaying == audio_len > 0

\* ... waits until the callback has played the frame before, ...
Played == audio_len = 0

\* The length of a frame, out_buffer_size; without a frame_size it is an error.
Length == IF file.sized THEN Chunks ELSE Endless

\* ... and gives it the new length and then the position, which a callback that comes in
\* between, or has yet to write the position behind the frame before, spoils.
SetAudioLen ==
  /\ Runs("audio_len")
  /\ Played
  /\ audio_len' = Length
  /\ handed' = handed + 1
  /\ raced' = FALSE
  /\ pc' = "audio_pos"
  /\ UNCHANGED <<device, sdlTexture, next, quit, out_buffer, audio_pos>>

SetAudioPos ==
  /\ Runs("audio_pos")
  /\ audio_pos' = 0
  /\ raced' = (raced \/ cb = "set_audio_pos")
  /\ pc' = "SDL_PollEvent"
  /\ UNCHANGED <<device, sdlTexture, next, quit, out_buffer, audio_len, handed>>

NoEvent ==
  /\ Runs("SDL_PollEvent")
  /\ pc' = "av_read_frame"
  /\ UNCHANGED <<device, sdlTexture, next, quit, shared>>

\* SDL_Quit waits for the callback and closes the device.
SDL_Quit == cb = "idle" /\ device' = FALSE

\* A key or a click, or what sdlEvent held before the first event, ends run.
Quit ==
  /\ Runs("SDL_PollEvent")
  /\ SDL_Quit
  /\ quit' = TRUE
  /\ pc' = "end"
  /\ UNCHANGED <<sdlTexture, next, shared>>

\* An output without a header gets a trailer all the same.
NoHeader == output = "noheader"

\* The file ends, or cannot be read on: the trailer is written.
EndOfFile ==
  /\ pc = "av_read_frame"
  /\ \/ output = "header" /\ output' = "trailer" /\ pc' = "end"
     \/ output # "header" /\ UNCHANGED output /\ pc' = "end"
     \/ NoHeader /\ UNCHANGED output /\ pc' = "crashed"
  /\ UNCHANGED <<file, wanted, opened, named, filters, device, sdlTexture, next, quit,
                 shared, callback>>

\* The end of run destroys a texture that SDL_Quit may have destroyed before.
End ==
  /\ Runs("end")
  /\ pc' \in {"returned"} \union (IF quit /\ sdlTexture THEN {"crashed"} ELSE {})
  /\ UNCHANGED <<device, sdlTexture, next, quit, shared>>

\* The destructor frees every entry of filter_ctx, written or not.
Destroy ==
  /\ Runs("returned")
  /\ pc' \in {"destroyed"} \union
              (IF filters < Len(file.streams) THEN {"crashed"} ELSE {})
  /\ UNCHANGED <<device, sdlTexture, next, quit, shared>>

-------------------------------------------------------------------------------
(* fill_audio, on the thread of the device.                                *)

Plays(label) ==
  /\ device /\ cb = label
  /\ pc \notin {"crashed", "destroyed", "late"}
  /\ UNCHANGED <<setup, device, sdlTexture, next, quit, out_buffer, handed>>

ReadLen ==
  /\ Plays("idle")
  /\ audio_len > 0
  /\ len' = audio_len
  /\ cb' = "audio_pos"
  /\ UNCHANGED <<pc, audio_len, audio_pos, raced, pos, mixed, heard>>

\* The position is read and what stands there mixed: behind the frame there is nothing,
\* and behind the buffer memory that may not be readable.
Mix ==
  /\ Plays("audio_pos")
  /\ pos' = audio_pos
  /\ mixed' = mixed + 1
  /\ heard' = IF audio_pos < Chunks THEN out_buffer ELSE 0
  /\ raced' = (raced \/ pc = "audio_pos")
  /\ cb' = "set_audio_len"
  /\ \/ UNCHANGED pc
     \/ audio_pos >= Capacity /\ pc' = "crashed"
  /\ UNCHANGED <<audio_len, audio_pos, len>>

\* A bug StoreLen could have: what the frame has left is forgotten.
StoreZero == audio_len' = 0

StoreLen == audio_len' = len - 1

WriteLen ==
  /\ Plays("set_audio_len")
  /\ StoreLen
  /\ cb' = "set_audio_pos"
  /\ UNCHANGED <<pc, audio_pos, raced, len, pos, mixed, heard>>

WritePos ==
  /\ Plays("set_audio_pos")
  /\ audio_pos' = pos + 1
  /\ cb' = "idle"
  /\ UNCHANGED <<pc, audio_len, raced, len, pos, mixed, heard>>

\* Nothing but SDL_Quit closes the device: the callback uses a destroyed object.
LateCallback ==
  /\ pc = "destroyed" /\ device
  /\ pc' = "late"
  /\ UNCHANGED <<setup, device, sdlTexture, next, quit, shared, callback>>

run ==
  \/ open_input_file \/ open_output_file \/ initAV \/ dump \/ init_filters
  \/ Read \/ Convert \/ SetAudioLen \/ SetAudioPos \/ NoEvent \/ Quit
  \/ EndOfFile \/ End

fill_audio == ReadLen \/ Mix \/ WriteLen \/ WritePos

Next == run \/ Destroy \/ fill_audio \/ LateCallback

\* Both threads run on; nothing is assumed of the user.
Fairness == WF_vars(run) /\ WF_vars(fill_audio)

Spec == Init /\ [][Next]_vars /\ Fairness

-------------------------------------------------------------------------------
\* The values the variables range over.
TypeOK ==
  /\ pc \in {"open_input_file", "open_output_file", "initAV", "dump", "init_filters",
             "av_read_frame", "swr_convert", "audio_len", "audio_pos", "SDL_PollEvent",
             "end", "returned", "destroyed", "late", "crashed"}
  /\ opened \in -1 .. Len(file.streams) /\ filters \in -1 .. Len(file.streams)
  /\ named \subseteq StreamTypes
  /\ output \in {"none", "noheader", "header", "trailer"}
  /\ audio_len \in 0 .. Endless /\ audio_pos \in Nat /\ raced \in BOOLEAN
  /\ out_buffer \in 0 .. handed + 1
  /\ cb \in {"idle", "audio_pos", "set_audio_len", "set_audio_pos"}

\* Two threads count audio_len down and set it without a lock, and no length is lost or
\* counted twice: what was mixed and what is left are together what was handed over, so
\* every frame gets as many calls of the callback as it is long.  What they mix is the
\* frame, part by part, only if the callback kept clear of the two lines that give it the
\* length and the position; else it is what stands behind the frame, or a part again.
SlotsConserved ==
  /\ handed * Length =
       mixed + audio_len - (IF cb = "set_audio_len" THEN 1 ELSE 0)
  /\ cb = "set_audio_len" /\ ~raced => pos = Length - len

\* A frame is converted into the buffer another one is played from, so a listener hears
\* the wrong frame, but never one further than the next.
OneAhead ==
  LET slot == (mixed - 1) \div Length + 1
  IN  heard <= slot + 1

\* A file whose streams, filters and output could be opened is never missed: run ends
\* without using what is not there.  There are three ways in which it may be: packets of a
\* third kind of stream are decoded, the sound has no frame_size, or the callback comes
\* between the length and the position of a frame too often.
GoodFileRuns ==
  (/\ opened = Len(file.streams) /\ filters = Len(file.streams)
   /\ output # "noheader" /\ device /\ ~quit
   /\ \A i \in DOMAIN file.packets : i < next => file.streams[file.packets[i]] # "other"
   /\ file.sized /\ ~raced) => pc # "crashed"

\* Once the user has ended run, SDL calls nothing that uses the object.
QuietAfterQuit == [][quit => UNCHANGED callback /\ pc' # "late"]_vars

\* While SDL plays, run ends: it never waits for ever for the callback.
RunEnds == (pc = "av_read_frame" /\ device) ~> (pc \in {"returned", "destroyed", "crashed", "late"})
==============================================================================
