----------------------------- MODULE Transcoder ------------------------------
(***************************************************************************)
(* FFmpegTranscode, transcoding.cpp.  The main thread opens the input, the *)
(* output and a filter graph per stream, starts decode_encode in a thread, *)
(* waits for an event of the window, joins the thread and destroys the     *)
(* object.  The thread decodes, filters, shows, encodes and writes sound   *)
(* and pictures, and copies the packets of any other stream.  A frame is a *)
(* number.  A codec may give pictures in another order than it got them:   *)
(* the number counts what it gave, and does not say which picture it is.   *)
(***************************************************************************)
EXTENDS Naturals, Sequences

CONSTANTS
  Kind,       \* the kind of each stream: "video", "audio" or "data"
  Packets,    \* the number of packets of each stream in the input
  MaxDelay    \* bound on the frames a decoder or an encoder holds back

Streams == DOMAIN Kind

\* What the constants are.
TranscoderAssumption ==
  /\ Kind \in Seq({"video", "audio", "data"})
  /\ Packets \in [Streams -> Nat]
  /\ MaxDelay \in Nat

Coded == {s \in Streams : Kind[s] # "data"}

VARIABLES
  decDelay, encDelay, \* of each stream, given by its codecs
  main,               \* where the main thread is
  next,               \* the stream a loop over the streams looks at
  dec, enc, graph,    \* streams whose decoder, encoder, filter graph is kept
  cleared,            \* streams whose entry of filter_ctx was set to NULL
  lost,               \* contexts allocated that no field refers to
  thread,             \* where decode_encode is
  cur, frame,         \* stream_index, and the frame in hand: 0 for NULL
  flushing,           \* the thread is in flush_encoders
  left,               \* packets of each stream still in the input
  decoder, encoder,   \* frames each codec holds back, oldest first
  file,               \* frames, or packets, of each stream written
  container,          \* "none", "header" or "trailer": what was written last
  shown,              \* sdl_display_frame has created the window
  failed,             \* some step of the thread returned an error
  crashed             \* memory that is not, or no longer, set was used

setupVars == <<next, dec, enc, graph, cleared, lost>>
pipeVars == <<cur, frame, flushing, left, decoder, encoder, file>>
vars == <<decDelay, encDelay, main, setupVars, thread, pipeVars, container,
          shown, failed, crashed>>

Empty == [s \in Streams |-> <<>>]

Init ==
  /\ decDelay \in [Streams -> 0 .. MaxDelay]
  /\ encDelay \in [Streams -> 0 .. MaxDelay]
  /\ main = "open_input" /\ next = 1
  /\ dec = {} /\ enc = {} /\ graph = {} /\ cleared = {} /\ lost = {}
  /\ thread = "none" /\ cur = 1 /\ frame = 0 /\ flushing = FALSE
  /\ left = Packets
  /\ decoder = Empty /\ encoder = Empty /\ file = Empty
  /\ container = "none"
  /\ shown = FALSE /\ failed = FALSE /\ crashed = FALSE

-------------------------------------------------------------------------------
(* The main thread: start, then the destructor.                            *)

\* avformat_open_input or avformat_find_stream_info; without a stream_ctx the
\* destructor uses a null pointer.
OpenInput ==
  /\ main = "open_input"
  /\ \/ main' = "open_decoders" /\ UNCHANGED crashed
     \/ main' = "gone" /\ crashed' = TRUE
  /\ UNCHANGED <<decDelay, encDelay, setupVars, thread, pipeVars, container, shown, failed>>

\* One round of the loop over the streams at stage here: the stream is kept in
\* the set, or its context is lost, or nothing was allocated for it.
Opens(here, then, set, kept, what) ==
  /\ main = here
  /\ \/ /\ next \in Streams
        /\ set' = IF next \in kept THEN set \union {next} ELSE set
        /\ next' = next + 1
        /\ UNCHANGED <<main, lost>>
     \/ /\ next \in Streams
        /\ main' = "destroy"
        /\ lost' \in {lost, lost \union {<<what, s>> : s \in kept \intersect {next}}}
        /\ UNCHANGED <<set, next>>
     \/ /\ next \notin Streams
        /\ main' = then
        /\ next' = 1
        /\ UNCHANGED <<set, lost>>

OpenDecoders ==
  /\ Opens("open_decoders", "open_encoders", dec, Streams, "decoder")
  /\ UNCHANGED <<decDelay, encDelay, enc, graph, cleared, thread, pipeVars, container,
                 shown, failed, crashed>>

OpenEncoders ==
  /\ Opens("open_encoders", "write_header", enc, Coded, "encoder")
  /\ UNCHANGED <<decDelay, encDelay, dec, graph, cleared, thread, pipeVars, container,
                 shown, failed, crashed>>

\* avio_open, avformat_write_header.
WriteHeader ==
  /\ main = "write_header"
  /\ \/ main' = "init_filters" /\ container' = "header"
     \/ main' = "destroy" /\ UNCHANGED container
  /\ UNCHANGED <<decDelay, encDelay, setupVars, thread, pipeVars, shown, failed, crashed>>

\* The graph is allocated first, and a failure of what follows does not free it.
init_filter ==
  \/ /\ graph' = graph \union {next}
     /\ next' = next + 1
     /\ UNCHANGED <<main, lost>>
  \/ /\ main' = "destroy"
     /\ lost' \in {lost, lost \union {<<"graph", next>>}}
     /\ UNCHANGED <<graph, next>>

\* The entry of a stream is cleared before its graph is made: a failure leaves the
\* entries of the streams that follow as av_malloc_array gave them.
InitFilters ==
  /\ main = "init_filters"
  /\ \/ next \in Coded /\ init_filter
     \/ /\ next \in Streams \ Coded
        /\ next' = next + 1
        /\ UNCHANGED <<main, graph, lost>>
     \/ /\ next \notin Streams
        /\ main' = "start_thread"
        /\ UNCHANGED <<next, graph, lost>>
  /\ cleared' = cleared \union ({next} \intersect Streams)
  /\ UNCHANGED <<decDelay, encDelay, dec, enc, thread, pipeVars, container,
                 shown, failed, crashed>>

StartThread ==
  /\ main = "start_thread"
  /\ main' = "loop_event"
  /\ thread' = "read"
  /\ UNCHANGED <<decDelay, encDelay, setupVars, pipeVars, container, shown, failed, crashed>>

\* sdl_loop_event: a key, a button or the window's closing ends SDL.
LoopEvent ==
  /\ main = "loop_event"
  /\ main' = "join"
  /\ UNCHANGED <<decDelay, encDelay, setupVars, thread, pipeVars, container,
                 shown, failed, crashed>>

\* A bug start could have: it does not join the thread.
DoesNotJoin == TRUE

\* pthread_join.
Joined == thread = "ended"

Join ==
  /\ main = "join"
  /\ Joined
  /\ main' = "destroy"
  /\ UNCHANGED <<decDelay, encDelay, setupVars, thread, pipeVars, container,
                 shown, failed, crashed>>

\* ~FFmpegTranscode: filter_ctx is looked at for every stream once it is allocated.
Destroy ==
  /\ main = "destroy"
  /\ main' = "gone"
  /\ dec' = {} /\ enc' = {} /\ graph' = {}
  /\ crashed' = (crashed \/ (cleared # {} /\ cleared # Streams))
  /\ UNCHANGED <<decDelay, encDelay, next, cleared, lost, thread, pipeVars, container,
                 shown, failed>>

-------------------------------------------------------------------------------
(* The thread: decode_encode.                                              *)

threadOnly == <<decDelay, encDelay, main, dec, enc, graph, cleared, lost>>

\* The thread goes on at a step, or fails and goes on at another one.
Succeeds(then) == thread' = then /\ UNCHANGED failed
Fails(then) == thread' = then /\ failed' = TRUE

\* av_read_frame: a packet of a stream that has some, or the end of the loop.
Read ==
  /\ thread = "read"
  /\ \/ \E s \in {t \in Streams : left[t] > 0} :
          /\ Succeeds(IF s \in graph THEN "decode" ELSE "remux")
          /\ cur' = s
          /\ left' = [left EXCEPT ![s] = @ - 1]
          /\ UNCHANGED flushing
     \/ /\ IF \A s \in Streams : left[s] = 0
             THEN Succeeds("flush") ELSE Fails("flush")
        /\ flushing' = TRUE /\ cur' = 1
        /\ UNCHANGED left
  /\ UNCHANGED <<threadOnly, next, frame, decoder, encoder, file, container, shown, crashed>>

\* The packet is copied; an error ends the thread without a trailer.
Remux ==
  /\ thread = "remux"
  /\ \/ /\ Succeeds("read")
        /\ file' = [file EXCEPT ![cur] = Append(@, Packets[cur] - left[cur])]
     \/ Fails("ended") /\ UNCHANGED file
  /\ UNCHANGED <<threadOnly, next, cur, frame, flushing, left, decoder, encoder,
                 container, shown, crashed>>

\* dec_func: the decoder gives a frame once it holds more than its delay.
Decode ==
  LET fed == Append(decoder[cur], Packets[cur] - left[cur])
      got_frame == Len(fed) > decDelay[cur] IN
  /\ thread = "decode"
  /\ \/ /\ Succeeds(IF got_frame THEN "filter" ELSE "read")
        /\ frame' = IF got_frame THEN Head(fed) ELSE 0
        /\ decoder' = [decoder EXCEPT ![cur] = IF got_frame THEN Tail(fed) ELSE fed]
        /\ UNCHANGED <<cur, flushing>>
     \/ /\ Fails("flush")
        /\ flushing' = TRUE /\ cur' = 1
        /\ UNCHANGED <<frame, decoder>>
  /\ UNCHANGED <<threadOnly, next, left, encoder, file, container, shown, crashed>>

\* What cv_handle_frame allocates for each picture and nobody frees.
Conversions == {<<"conversion", s>> : s \in Coded}

\* cv_handle_frame converts a picture there and back and shows it, in a window that
\* sdl_loop_event may have destroyed; a picture without a size, or one of the two
\* conversions that cannot be made, is no error.
cv_handle_frame ==
  \/ /\ lost' = lost \union {<<"conversion", cur>>}
     /\ shown' = (shown \/ main = "loop_event")
     /\ crashed' = (crashed \/ (shown /\ main = "join"))
  \/ /\ lost' \in {lost, lost \union {<<"conversion", cur>>}}
     /\ UNCHANGED <<shown, crashed>>

\* The frame goes through a graph that changes nothing.
Filter ==
  /\ thread = "filter"
  /\ \/ Succeeds("encode") /\ Kind[cur] = "video" /\ cv_handle_frame
     \/ Succeeds("encode") /\ Kind[cur] # "video" /\ UNCHANGED <<lost, shown, crashed>>
     \/ Fails("ended") /\ UNCHANGED <<lost, shown, crashed>>
  /\ UNCHANGED <<decDelay, encDelay, main, next, dec, enc, graph, cleared, pipeVars, container>>

\* A bug decode_encode could have: it goes on after a packet that was not written.
IgnoresError == IF flushing THEN "trailer" ELSE "read"

\* An error while encoding or writing skips the trailer, unless it is met flushing.
NotWritten == IF flushing THEN "trailer" ELSE "ended"

\* The encoder gives a packet once it holds more than its delay.
Gives(s, fed) == Len(fed) > encDelay[s]

\* Where the thread goes when the encoder gave nothing.
NotGiven == IF flushing THEN "flush" ELSE "read"

\* enc_func: given NULL it gives what it holds, until nothing is left.
Encode ==
  LET fed == IF frame = 0 THEN encoder[cur] ELSE Append(encoder[cur], frame)
      got_frame == IF frame = 0 THEN fed # <<>> ELSE Gives(cur, fed) IN
  /\ thread = "encode"
  /\ \/ /\ encoder' = [encoder EXCEPT ![cur] = IF got_frame THEN Tail(fed) ELSE fed]
        /\ IF got_frame
             THEN Succeeds("write") /\ frame' = Head(fed) /\ UNCHANGED cur
             ELSE /\ Succeeds(NotGiven)
                  /\ cur' = IF NotGiven = "flush" THEN cur + 1 ELSE cur
                  /\ UNCHANGED frame
     \/ Fails(NotWritten) /\ UNCHANGED <<cur, frame, encoder>>
  /\ UNCHANGED <<threadOnly, next, flushing, left, decoder, file, container, shown, crashed>>

\* Where the thread goes from a packet that is written.
Written == IF flushing THEN "encode" ELSE "read"

\* av_interleaved_write_frame; flush_encoder then encodes NULL again.
Write ==
  /\ thread = "write"
  /\ \/ /\ Succeeds(Written)
        /\ file' = [file EXCEPT ![cur] = Append(@, frame)]
     \/ Fails(NotWritten) /\ UNCHANGED file
  /\ frame' = 0
  /\ UNCHANGED <<threadOnly, next, cur, flushing, left, decoder, encoder, container,
                 shown, crashed>>

\* flush_encoders: each stream that has a graph and an encoder that delays frames.
Flush ==
  /\ thread = "flush"
  /\ frame' = 0
  /\ \/ cur \notin Streams /\ Succeeds("trailer") /\ UNCHANGED cur
     \/ /\ cur \in graph /\ encDelay[cur] > 0
        /\ Succeeds("encode") /\ UNCHANGED cur
     \/ /\ cur \in Streams /\ ~(cur \in graph /\ encDelay[cur] > 0)
        /\ Succeeds("flush") /\ cur' = cur + 1
     \/ cur \in graph /\ Fails("trailer") /\ UNCHANGED cur
  /\ UNCHANGED <<threadOnly, next, flushing, left, decoder, encoder, file, container,
                 shown, crashed>>

WriteTrailer ==
  /\ thread = "trailer"
  /\ thread' = "ended"
  /\ container' = "trailer"
  /\ UNCHANGED <<threadOnly, next, pipeVars, shown, failed, crashed>>

-------------------------------------------------------------------------------
Setup ==
  \/ OpenInput \/ OpenDecoders \/ OpenEncoders \/ WriteHeader \/ InitFilters
  \/ StartThread \/ Join \/ Destroy

decode_encode ==
  Read \/ Remux \/ Decode \/ Filter \/ Encode \/ Write \/ Flush \/ WriteTrailer

Next == Setup \/ LoopEvent \/ decode_encode

\* Both threads are scheduled; nothing has to fail and nobody has to touch the window.
Spec ==
  /\ Init /\ [][Next]_vars
  /\ WF_vars(Setup) /\ WF_vars(decode_encode /\ failed' = failed)

-------------------------------------------------------------------------------
\* The values the variables range over.
TypeOK ==
  /\ dec \subseteq Streams /\ enc \subseteq Coded /\ graph \subseteq Coded
  /\ left \in [Streams -> Nat]
  /\ file \in [Streams -> Seq(Nat)]
  /\ container \in {"none", "header", "trailer"}
  /\ \A s \in Streams : /\ Len(decoder[s]) <= decDelay[s]
                        /\ Len(encoder[s]) <= encDelay[s]

\* Whatever fails and wherever the packets of the streams interleave, what the codecs of
\* a stream gave is in the file without a gap, a repetition or a change of order.
NoGaps == \A s \in Streams : file[s] = [i \in 1 .. Len(file[s]) |-> i]

\* A file finished without an error holds every packet that was copied and every
\* frame but those the decoder still held: flush_encoders empties the encoders, and
\* nobody gives the decoders the empty packet that would empty them.
OnlyDecodersKeepFrames ==
  container = "trailer" /\ ~failed =>
    \A s \in Streams :
      Len(file[s]) + (IF s \in Coded THEN Len(decoder[s]) ELSE 0) = Packets[s]

\* The file is a container that can be closed: packets are written after the header
\* and never after the trailer.
PacketsInsideContainer ==
  [][file' # file => container = "header" /\ container' = "header"]_vars

\* The object outlives its thread, and when its setup succeeded and the window was left
\* alone nothing that is not set is used and every context of the setup is freed; what
\* cv_handle_frame made for each picture never is.
SafeTeardown ==
  /\ main \in {"destroy", "gone"} => thread \in {"none", "ended"}
  /\ crashed => ~(thread # "none" /\ (main = "loop_event" \/ ~shown))
  /\ main = "gone" /\ thread = "ended" => dec \union enc \union graph = {} /\ lost \subseteq Conversions

\* Every transcoding that starts ends, whatever fails and whoever closes the window.
TranscodingEnds == (thread = "read") ~> (thread = "ended")

=============================================================================
