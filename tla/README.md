# TLA+ models of learnffmpeg

The repository is a collection of media programs around FFmpeg: an SDL player, two
OpenGL players, two OpenAL players, muxers, a transcoder, an RTSP/RTP client and tools.
What can go wrong in them is concurrency and order: demuxing, decoding, displaying,
playing and receiving run on threads of their own and meet in hand-written queues, flags
and buffers; files are written by loops that interleave streams and must end.  This
directory models these parts, model-checks them and proves theorems about them.

- [Inventory](#inventory)
- [Modules](#modules)
- [Suites](#suites)
- [Runs](#runs), [bounds](#bounds), [fairness](#fairness), [deadlock](#deadlock)
- [Proofs](#proofs)
- [Divergences found](#divergences-found)
- [What else the models show](#what-else-the-models-show)
- [Not modelled](#not-modelled)
- [What is left](#what-is-left)

## Inventory

| Component | Source | State | Meets |
|---|---|---|---|
| Blocking queues | `PthreadQueue.cpp`, `PacketQueue.cpp` | `queue`, `nb_packets`, `size`, `mutex`, `cond` | the threads of all players |
| Audio decoder | `audioengine.cpp` `AudioDecoder` | `m_queueData`, `m_bStop`, `m_bSeeked`, `m_pmtx`, `m_pcond` | the engine calls `GetFrame`, `StopDecode` |
| OpenAL engine | `audioengine.cpp` `ALEngine` | `m_bStop`, `m_buffers`, the source | decoder, device, window's thread |
| SDL player | `Media.cpp`, `Video.cpp`, `Audio.cpp` | `quit`, `eof`, `paused` in three objects, three queues, the clocks, the sample ring | five threads without locks besides the queues' |
| OpenGL player, its polled ancestor | `opengldemo.cpp`, `opengldemo_1110.cpp` | `quit`, a frame queue; a mutex and a polled `std::queue` | decoder's and window's threads |
| OpenAL player | `openalaudio.cpp` | a pool of four buffers | the device |
| RTP packets | `RtpPacket.cpp` | `seq_no`, `sps`, `pps`, `h264_buf`; the bit writer | called by the UDP server |
| RTSP client, session, UDP server | `RtspClient.cpp`, `RtspSession.cpp`, `RtspCommand.cpp`, `UdpServer.cpp` | the connection, the session, `stopped` and unsynchronised pointers | server, the session's thread |
| Live555 client | `testrtspclient.cpp` | `StreamClientState`, sinks, timer | handlers of one event loop |
| Muxers | `avmuxer.cpp`, `muxing.c` | two output streams, encoders, the file | camera, container |
| Transcoder | `transcoding.cpp` | decoders, encoders, graphs of each stream | its thread and the window's |
| FFmpegUtil | `ffmpegutil.cpp` | `out_buffer`, `audio_len`, `audio_pos` | SDL's callback |
| FFmpegTools | `ffmpegtools.cpp` | place in the file, decoder, files written | callers on one thread |

Hard behaviours, by component, and what makes it correct:

- *Queues*: signals to nobody, signals used up by a failing `av_packet_ref`, spurious
  wakeups, several consumers, an early return that keeps the mutex.  Nothing is lost,
  doubled or reordered, the counters are exact, no consumer sleeps beside an element.
- *Audio decoder*: one condition variable for both directions, a seek while the thread
  holds a frame of the old position, a stop that notifies without the mutex.
- *Engines and pools*: a count of processed buffers that is stale when it is used, a
  source that runs dry, a buffer without a frame.  The pool is conserved, frames keep
  their order, none is skipped, playback goes on.
- *Players*: flags read by other threads without a lock, a window's thread that blocks in
  `deQueue`, refresh timers that must arm themselves, two generations of threads, a clock
  written in three stores and read in three loads, time stamps that are missing.  Nothing
  is lost or reordered, the refresh never dies early, the clock is off by no more than can
  be said, the threads come back unless they wait for what never comes.
- *Receiving*: lost, repeated, reordered packets whose numbers wrap; empty datagrams;
  answers cut in any way, a server that falls silent; a receiver stopped from another
  thread at any point; handlers in any order.
- *Writing*: loops over time stamps, encoders that hold frames back, refer to the one
  frame of a stream and give packets in an order of their own, errors in the middle, a
  static counter.  Streams stay together, nothing is missing but what is accounted for,
  and the loops end.
- *Reading files*: two threads and two fields without a lock, streams whose decoder was
  never opened, sound without a frame size, results of reads and seeks that nobody looks
  at.  Lengths are conserved, each frame is found once, what was opened is not missed.

`PROJECT.json` lists each hazard at its line with the properties that cover it.

## Modules

A module models one class or program; its comments name the functions.  `PROJECT.json`
maps each definition to its lines.

**Queues.**  `PthreadQueue` implements the abstract `FifoQueue`.  The four queue classes
have one shape and are one module; `Pollers` marks threads that call `deQueue` without
blocking and `UnlockOnEmpty` is FALSE for `PthreadFrameQueue`, whose `deQueue` returns from an
empty queue without unlocking (line 197).  A call is the step that starts it, the step
that gets the mutex and the critical section in one step: nothing it writes can be read
before it unlocks.  `pthread_cond_wait` releases the mutex and sleeps in one step; a
sleeper may wake by itself.

**Audio engine.**  `AudioDecoder` is `DecodeThread`, `GetFrame`, `SetSeekPosition` and
`StopDecode`, each on its thread; `StopDecode` does not take the mutex, so a wait is the
evaluation of its predicate and the sleep as two steps.  `ALEngine` composes it with
`SoundPlayingThread`, the window's thread and the OpenAL source, which is external and
follows OpenAL 1.1: playing starts at the head of the queue unless paused, a stopped
source counts everything queued as processed.

**SDL player.**  `SDLPlayer` is `MediaState` with `VideoState`: `decode_thread`, `decode`,
`video_refresh_timer`, the event loop, the buttons, `stop` and the destructor.  Every call of
`play` makes new objects and threads while the old ones go on; they are told apart by
their generation.  Queues keep the promise of `FifoQueue`, so a `deQueue` takes one step once
there is something to take.  The sound takes its packets as it likes, so that a file with
sound can come to the end of its queues.  `AudioCallback` is `AudioState`: `audio_callback`
step by step, `audio_decode_frame`, the sample ring and the clock.  A packet may have no time
stamp, and then leaves the clock as it was.  The size of the buffer and the index into it
are stored one after the other, and `get_audio_clock` loads them, and the clock, at three
moments: `hw_size` and `hw_index` are what it has loaded.

**Other players.**  `OpenglPlayer`: `decode_thread` and the window's loop.  `enQueue` copies the
time of a frame into the queue's element, so a frame is queued as a pair of the two; the
time is made by `synchronize`, which takes the picture's own or what the ones before left in
`video_clock`.  `PolledPlayer`: the earlier player, with its global mutex.  Both are shown to
be a queue from decoder to screen (`FifoQueue` with a refinement mapping).  `OpenALPlayer`:
`open_play_all`, which decodes and refills in one loop.

**Receiving.**  `H264RtpPacket` and `AACRtpPacket` are the two `parse_data`; a packet is the
place of its parts, the network loses, reorders and repeats.  `PutBits` is the bit writer
and the headers written with it, on sequences of bits.  `RtspClient` is `start` with the
executor: a line is what ends with `\r\n`, reads bring any amount, and what a read brings
beyond an answer is lost with its buffer; the server may send errors, break off, or fall
silent, and then `start` waits for ever.  `UdpServer` is `run`, `handle_receive` and `stop`
with the session's `start` and `close` around it; each pointer is written by one thread and
used by the other, and a use of what is deleted or not yet made may crash.  A datagram of
no bytes is taken for an error: no parser sees it and the socket is closed.  `LiveClient`
is the handlers of `testrtspclient.cpp`, one step each as the event loop runs them.

**Writing.**  `MuxerCore` is what `main_mux` (`Muxing`) and `AVMuxer` share: the choice of the
stream that is behind, `av_frame_make_writable`, an encoder that holds frames back, refers
to their buffers and gives a packet of any of them, as one with B-frames does.  The two
differ in what they do on an error and at the end.  `ImageVideo` and `CameraCapture` are the
two writers of `FFmpegTools`; the sound of the latter is converted into the one frame its
encoder may still hold, so a packet has a time stamp and the samples of some later frame.
`VideoSeek` is the walk through a file, whose frames need not lie in it in the order they
are shown, with every read, packet and seek that may fail.  `Transcoder` is `start`, the
thread, every error on the way, the destructor, and the conversion contexts a frame gets
that nobody frees.  `FFmpegUtil` is `run` with what it opens, the decoders it uses without
having opened them, `decode_audio` with sound that has a frame size and sound that has
none, and `fill_audio` on SDL's thread, one step for each access to the shared fields.

FFmpeg, SDL, OpenAL, Live555 and Boost are external: decoders and encoders hold back a
bounded number of frames, anything that returns an error may do so.

Operators commented as bugs the code could have belong to no specification; each property
is shown to notice one of them.

## Suites

The repository is a set of programs: `main` starts one at a time and they share no state.
`MCMediaPlayer`, `MCPlayers`, `MCRtpPackets`, `MCNetwork`, `MCWriters` and `MCFiles` give TLC
several of them as one specification with a variable `program` that never changes: the
initial state chooses the program, each disjunct of the next-state relation is the
program's own `Next` with its fairness, and the others' variables stay as they were made.
A property of a suite is a conjunction of the programs' own, about one question; each
conjunct is stated and commented in its module.  What a suite takes from its
configuration (lengths, failures, files, packets) are its constants, with an assumption of
their kinds.  Only where programs interact are they composed: decoder and engine
(`ALEngine`), session and server (`UdpServer`), the threads of each player.

## Runs

| Run | Suite or module | Checks |
|---|---|---|
| `shared_queue` | `PthreadQueue` | `LockDiscipline`: the early return is the only leak of the mutex; `NoLostWakeup`; `SizeCountsBytes`; `ImplementsFifo`; `Delivered` |
| `audio_decoder` | `AudioDecoder` | `NoStaleFrame`: no frame from before a seek is queued; `NoDecoderWakeupLost` |
| `al_engine` | `ALEngine` | `PoolConserved`, `EndToEndOrder`, `NothingSkipped`, `FramesReachSource`; `StopReturns`: `Stop` comes back unless its notification was lost |
| `rtp_packets` | `H264RtpPacket`, `AACRtpPacket`, `PutBits` | `UsedOnce`, `CompletePictureDecoded`: loss damages only the picture it hits, or the next one; `NewestAreDecoded`; `WholeStream` |
| `media_player` | `SDLPlayer` twice, `AudioCallback` | `Types`; `NoFrameLost`; `StartButtonShowsNothing`; `SoundExact`: buffers, ring, and how far the clock can be off; `ThreadsRespond`: window and callback come back, but for a callback that had found the queue empty |
| `sdl_buttons` | `SDLPlayer` | `RefreshAlive`: over two generations somebody is always about to refresh |
| `players` | `OpenALPlayer`, `OpenglPlayer` twice, `PolledPlayer` | `Types`, `PoolConserved`, `NothingSkipped`, `ShownInOrder`: both refinements of `FifoQueue`, and each picture at its own time or between its neighbours'; `PlayersEnd` |
| `writers` | `Muxing`, `AVMuxer`, `ImageVideo`, `CameraCapture` | `NothingMissing`, `StreamsTogether`, `WritersEnd` |
| `network` | `UdpServer`, `RtspClient`, `LiveClient` | `ReceivedIsParsed`, `AtMostOneLate`; `AnswersMatch`: up to the first answer that is an error or longer than was read; `ServerTold`, `NetworkEnds` |
| `files` | `FFmpegUtil`, `Transcoder`, `VideoSeek` | `SlotsConserved`: lengths, not what is heard; `OneAhead`, `NoGaps`, `SafeTeardown`, `FilesEnd` |
| `stop_engine` | `ALEngine` | violates `PlayerEnds`, see below |
| `second_muxer` | `AVMuxer` | violates `FinishReported`, see below |

### Bounds

*Queues.*  A producer, two consumers, a poller, a flush and three packets reach an empty, a
partly filled and a drained queue with each consumer at every point of its call; sizes 2,
3, 4 exceed the modulus 7, so the byte counter wraps; one reference fails.  The proofs
cover any number of each.

*Engine.*  A decoder queue of two is empty, half full and full, three packets exceed it, one
seek can find the thread at every point of its loop.  With two OpenAL buffers and four
packets each buffer is refilled once, the source can run dry before, between and after
the refills, and the file ends while playing.

*Players.*  Three pictures with sound in between give the SDL player a picture before,
during and after every press; two calls of `play` are what it takes for two generations to
meet; up to two failures follow each other.  The four frames of sound are longer and
shorter than a request and one fills a ring of 16 exactly, so each wraps; every other one
has no time stamp, so that the clock goes on from one with and from one without.  The
OpenAL player has its four buffers and five frames of sound, so that refilling starts and
the first frame, which is in all buffers, leaves the queue; two failures cost it two
buffers.  Of the OpenGL player's four pictures one has no time stamp and one has zero, which
the code cannot tell from none; one lasts longer than the others.

*Receiving.*  Eight arrivals of seven packets let parameter sets come again between the
fragments and the buffer be enlarged; numbers modulo 6 wrap between the first two.  Four
pictures with a repeated pair of parameter sets give each loss a picture before and
after.  Fields of 1, 7, 24 and 31 bits, three in a row, meet every position in a word of 32,
also with too little room; the lengths in a header go from 7 to 8191, the largest it has
bits for.  Four descriptions: one medium, two, a line behind the control line, none.  Of
four datagrams one can come before the socket is bound, one be parsed, one be in the
buffer and one wait when the session is stopped; each may be empty.

*Writing and reading files.*  Frame times 1 to 3 with a duration of 7 end together and apart;
encoders hold back up to two frames, which is one more than a stream has of its own.
`InxLimit` is 5 for 500 in the code: the calls of some files stay below it and those of
others pass it, and so does a second muxer.  The film to be transcoded has sound, pictures
and a track that is copied, codecs with and without a delay.  FFmpegUtil's four files have
the streams in both orders, one no pictures, two a third stream of which packets are read,
and one no frame size.  The device asks twice for a frame's sound, the buffer has room for
three times, and the length of sound without a frame size, four, stands for the 2^32
bytes that are more than the buffer (any such numbers in the proofs).  The film that is
searched has four frames with key frames at 1 and 4, so a goal is before, at and behind
one, and the third is in the file before the second.

### Fairness

A thread that can take its next step takes it: weak fairness for each thread of each
program, and of the device or timer where it has one.  Nothing is assumed of users,
servers, spurious wakeups or failures: a step that only fails is not in any fairness
condition, nor is one that waits for an event of the user, as `main_mux` does when its file
is written.  What needs another's help has that help in its premise: `start` of the RTSP
client returns unless the server fell silent, a datagram is parsed unless an empty one
came before, `Stop` returns unless its notification was lost, the camera's muxer ends if
its calls stay below the counter's limit.  Stronger assumptions, each for a reason:

- A mutex that is free again and again is eventually obtained (strong fairness of `Lock`,
  `SetSeekPosition`, `StopDrain`), which the system's scheduling gives in practice.
- In `shared_queue` the loops around blocking `deQueue`s call it again; a poller need not.
- The device does not finish all its buffers just between the count of the processed ones
  and the look at its state every time (`SF` of `DevicePlays /\ at = "query"`): a buffer
  lasts milliseconds, that stretch of code does not.  Without this `FramesReachSource` and
  `PlayersEnd` fail: the source is restarted from the head of its queue every time.

### Deadlock

It is checked where the code never stops.  The configurations that switch it off say why:
programs end, bounded inputs end, a poll of the empty queue never releases the mutex, and
joins that never return are among the behaviours (`media_player`, `network`).

## Proofs

TLAPS proves every safety property that a passing run checks, invariants and action
properties alike, for every value of the constants that satisfies the modules' assumptions.
A proof module extends the suite whose properties it proves, and so speaks of the very
definitions TLC checks; the steps of the program a property is about are taken from the
suite's next-state relation, the others leave its invariant alone.

- `PthreadQueue_proofs`: types, counters, `LockDiscipline`, `NoLostWakeup`, `SizeCountsBytes`, and
  that the queue implements `FifoQueue`.  The invariant adds that the mutex is owned by the
  thread in its critical section (or leaked by a poll), that a producer in `enQueue` holds a
  packet, and that sleepers beside elements are matched by consumers on their way or
  failures; the counting rests on the finiteness of the set of threads (`OnTheWayFinite`).  The
  refinement maps each critical section to one step of `FifoQueue`.  The byte counter is a
  fold over a set: that the fold is a function, and what it makes of one more or one fewer
  element, is proved by a least counterexample (`WFMin`).  `OnePlace` says that a packet is
  in one place at a time, so the sum over a queue is one over a set.
- `ALEngine_proofs`: for the decoder types with the capacity, `NoStaleFrame`, file order,
  `NoDecoderWakeupLost`.  `NoStaleFrame` alone is not inductive: `HeldFrameFresh` says that,
  unless a seek is pending, the frame in the thread's hands is of the present position;
  `StillTrue` that a thread about to sleep still has its reason.  For the engine
  `PoolConserved`, `NothingSkipped` and `EndToEndOrder`, for any number of buffers, any
  capacity of the decoder's queue and any file.  Every step of the engine is a step of the
  decoder or leaves it alone (`DecoderPart`), so the decoder's invariant is used as it was
  proved.  `Counted` bounds what is left of the count by what OpenAL counts as processed
  now; `WasHeard` says that this was heard, a stopped source included when `Play` is past;
  `Calls` that `GetFrame` returns a frame as long as nobody stopped the decoder; `Ordered`
  compares each place a frame can be in with the ones behind it.
- `MediaPlayer_proofs`: types, `RefreshAlive`, `NoFrameLost`, `StartButtonShowsNothing` and
  `SoundExact`, for any file, number of presses, plays and failures.  `RefreshAlive` is over
  all generations of threads; what a later `play` will make is untouched until then
  (`NotYetMade`).  `InOrder` names the five stages a picture can be in, says that every one in
  a stage is before those in the stages behind it, and that without failures each picture
  up to the reader's place is in one of them.  `SoundPlace` says where the callback is in its
  buffer, `ClockPlace` what the clock and the time it has missed add up to at each step, and
  `Loads` that what the window has loaded is a size and an index of some frame; that the
  ring holds the latest samples is arithmetic with a variable modulus (`RingSteps`).
- `OpenALPlayer_proofs`: `PoolConserved`, `NothingSkipped`, `Types` and `ShownInOrder` of the suite
  of players.  For the OpenAL player the invariant relates the stale count to the source:
  as many buffers as are left to unqueue are queued, they were heard (`WasHeard`), and a
  source that plays is past them (`Counted`); `InHand` says where the one buffer that is out
  can be, `Since` that the frame all buffers begin with is older than every other.  The two
  OpenGL players are mapped to `FifoQueue` step by step (`GlQueueStep`, `PolledMoves`): what is on
  the screen, in the queue and in the decoder's hands is the abstract queue.  `ClockBehind`
  relates `video_clock` to the last time stamp, `TimeInv` says that all that was handed over,
  displayed or queued, has ascending times, the clock behind them.
- `Muxing_proofs`: `EncodedAsGiven`, `AllFramesWritten` and `StreamsInterleaved` of `main_mux`, for
  any duration, frame times and delays that satisfy `MuxerAssumption`; with them
  `NothingMissing` and `StreamsTogether` of all four writers.  Encoders give any of the frames
  they hold, so the invariant of a stream (`Stream`) is one of sets: what the encoder holds,
  what the file has and what was lost are together the frames made so far (`Whole`), and
  each shows itself.  It is kept when a frame enters (`Enters`) and when one leaves
  (`Leaves`); that no frame held is overwritten is `NotOverwritten`, from `make_writable`; that
  a stream is over with its `Total` of frames is arithmetic (`Over`).  `AvInv` is the same for
  the muxer that loses what it cannot encode, and whose pictures are never emptied.
  `SoundInv` says the time stamps of the captured sound run on, `PacketInv` what the images'
  file misses, `TurnInv` that the image whose turn it is follows from the number of frames.
- `UdpServer_proofs`: `ReceivedIsParsed` and `AtMostOneLate`, for any number of datagrams.
  `InBuffer` says which datagram is in the buffer; `GaveUp` that after an empty one nothing
  is received any more; `LastOne` that a datagram parsed after the
  stop was the last one because no receive is pending then; `NotStopped` that before the
  stop nothing is late; `OneReceive` that a receive is pending only while the context runs.
  `AnswersMatch`, for any descriptions of a server: `Answering` says that behind the lines of
  earlier answers stands the beginning of the one awaited, `Between` what may be left on the
  connection between two requests.  `ServerTold`, for any media and durations: `LiveInv`.
- `FFmpegUtil_proofs`: `SlotsConserved` and `OneAhead`, for any files and any lengths.  Neither
  field has a lock; `LenIsFresh` is why the lengths come out right all the same: what the
  callback has read of `audio_len` is still its value when it writes it back, since
  `decode_audio` writes it only while it is zero and the callback starts only when it is not.
  `PosIsPlace` says the same of the position, but only until the two threads raced for it.
  `HeardBound` carries the division of `OneAhead` as a product.  `NoGaps` and `SafeTeardown` of
  the Transcoder, of FFmpegUtil and of the walk through a file: `FilmInv` says how far the
  main thread has come and what it has made by then, and that the frames of a stream in
  the file, the encoder, the decoder and the rest of the input follow one another;
  `MixInside` that the callback stays in the buffer of a file that is sized, as long as
  nobody raced; `SearchInv` that each frame read since the last seek is given, kept or
  missed, once, whatever failed.
- `H264RtpPacket_proofs`: types, `BufferFits`, `UsedOnce`, `PictureAfterParameterSets`, for every
  stream whose packets fit the receive buffer, every network, every modulus.  `UsedOnce`
  rests on `Ascending`: the slices accepted since a parameter set have ascending numbers
  up to `seq_no`, so the wraparound cannot bring one back.  `CompletePictureDecoded`, for a
  network that only loses packets and numbers that do not wrap: `LossyInv` says what the
  buffer holds while a picture has come from its first packet without a gap.
  `NewestAreDecoded`: `AacInv`.  `WholeStream`: `BitInv` places each bit of the fields in the
  buffer or in the word, while they are put and while they are flushed; both ways to write
  a header are compared with its 56 bits (`HeaderBits`), for every length.

What a proof needed and TLC's instance did not show is now said in the model:
`NothingLeftAtTheEnd` was false of a file of one frame, which is read without being
positioned; `HeadersAgree` is about a buffer with room for the header; the completeness of
a picture is about fragmented pictures with the marker on the last packet only, as RFC
6184 has them (`FragmentsAssumption`); the buffer of sound holds at least one request.

Only model-checked is liveness, which the prover does not reach: `Delivered`,
`StopReturns`, `FramesReachSource`, `ThreadsRespond`, `PlayersEnd`, `WritersEnd`, `NetworkEnds`
and `FilesEnd`.  So is the violation found by each of `stop_engine` and `second_muxer`.

## Divergences found

`Stop` stops the decoder before it joins the playing thread, and says why
(`audioengine.cpp:498`): otherwise the playing thread may hang.  It may hang even so.
`GetFrame` finds the queue empty and `m_bStop` false; before it sleeps, `StopDecode`
sets `m_bStop` and notifies without the mutex (lines 141-142), and nobody is asleep yet;
the decoding thread ends; the playing thread sleeps, and the join at line 500 never
returns.  Run `stop_engine` finds this.

`write_audio_frame` promises to "return 1 when encoding is finished, 0 otherwise"
(`avmuxer.cpp`), and counts its calls in a static variable.  A second muxer of the process
begins with the count of the first; once it is above the limit, the function never says
that it is finished, and the loop of `start` does not end.  Run `second_muxer` finds this.

## What else the models show

The properties are stated so that they hold; what is excepted is said in their comments.

- `cv_capture_camera_to_file` has the comment "make sure we do not overwrite it here"
  (`ffmpegtools.cpp:1511`) like the muxers, but makes `tmp_frame` writable and then converts
  into `frame`, which its encoder may still hold: a packet may have the samples of a later
  frame (`SoundIsContinuous` speaks of the time stamps, and says that the samples are
  never those of an earlier one).
- `get_audio_clock` may be off by two of the longest frames, as its three loads fall between
  other stores; a packet without a time stamp that follows one that failed to decode
  leaves it behind until the next one with a time stamp (`ClockExact`).
- A callback that waits in `deQueue` when the last packet has been taken never comes back:
  `eof` is looked at before, not while it waits (`ThreadsRespond`).
- A datagram of no bytes ends a session's receives for good (`UdpServer.cpp:85`).
- The answers are right only up to the first that is an error or has more than was read of
  it: what is left of it is read as the next answer (`AnswersMatch`).
- A server that accepts the connection and says nothing leaves `start` waiting.
- `FFmpegUtil::run` decodes packets of a third kind of stream with a decoder it never opened;
  sound without a frame size gets a negative error as its length, and the callback runs
  out of the buffer; a callback that falls between the two lines that set length and
  position (`ffmpegutil.cpp:410-411`) mixes what is behind the frame, which is then not heard
  at all (`GoodFileRuns`, `SlotsConserved`).
- `cv_handle_frame` makes two conversion contexts for each picture and frees none
  (`transcoding.cpp:519`, `563`).
- `FFmpegTools` looks at no result of a seek, and at none of the decoder: when the seek
  fails it reads on from where it was, and a packet that fails costs its picture
  (`EachOnce`).
- When the OpenAL source runs dry during a refill, buffers not yet unqueued are heard again
  (`audioengine.cpp:534`); a file of fewer than `NUMBUFFERS` frames is never played.
- `Stop` can wait for the decoding thread, too: when that missed the notification between its
  predicate and its sleep, and the playing thread has left its loop (`StopReturns`).
- `media_play` sets `paused` on the decoders it has just started: a player that waits for
  its start button never shows a picture (`StartButtonShowsNothing`).  A click on play is
  handled on press and on release, so it starts two generations of threads.
- The window's thread looks at the packet queue and then waits for a frame; a packet that
  fails to decode leaves it waiting until another one succeeds.
- A picture whose time stamp is zero is taken for one without, and shown at a time made from
  the pictures before it (`opengldemo.cpp:615`).
- A packet that fails in the middle of the file costs the OpenAL player one of its four
  buffers for good; after four it stops.
- Sequence numbers are compared as integers (`RtpPacket.cpp:429`): after 65535 every slice
  is dropped until the next parameter set.  Of an AAC packet only the first unit is
  decoded, and whole only behind a plain header.
- `RtspClient::start` declares a local `exec` that hides the member, so `close` has no
  connection to send TEARDOWN on.  A `stop` of the UDP server before the thread has stored
  `stopped = false` is forgotten, and pointers may be used before they are set.
- A description with a line behind its control line leaves that line to the next answer.
- Seeks in `FFmpegTools` always go back to the beginning of the file: the number of the
  frame is computed from a time stamp nobody sets.
- Video encoders of `AVMuxer` and of the camera's file are never flushed; the camera's
  video stream never gets a picture.
- `FFmpegUtil::run` ignores the results of opening: what was not opened is missed later.

## Not modelled

- FFmpeg, SDL, OpenGL, OpenAL, Live555 and Boost themselves; pixel and sample data,
  scaling, resampling and drawing; texts of requests and reports; parameters of codecs.
- The data race inside libavformat when a seek runs against `av_read_frame`; what happens
  after the OpenAL engine is deleted under its thread; a second `OpenFile` after `Stop`.
- Functions nothing calls: `add_frame`, `open_play_mp3`, `decode()` of the transcoder, the
  processors of `ffmpegutil.hpp`; and `BoostUdpClient`, which nothing makes.
- `parse_control`, which only prints a report.
- The OpenCV demos and frame handlers (image processing on one thread), the adapted
  examples, entry points and the vendored linter hold no state of the program's own logic.

`PROJECT.json` says for each component what is left out of it.

## What is left

1. The sample ring of the OpenAL engine's wave (`audioengine.cpp`), which repeats that of
   `AudioCallback` with a lock.
2. `OpenFile` after `Stop`, and the pictures drawn from JPEG files in the OpenGL players.
3. Of `CompletePictureDecoded`, numbers that wrap: after 65535 the code drops every slice
   until the next parameter set, so a statement for them has to except those pictures.
