---------------------------- MODULE AudioCallback ----------------------------
(***************************************************************************)
(* AudioState of Audio.cpp: SDL's audio thread calls audio_callback, which *)
(* decodes packets into audio_buff and mixes them into the device's        *)
(* stream.  The window's thread reads the audio clock and draws the wave   *)
(* of the sample ring meanwhile, and sets the flags, all without a lock.   *)
(*                                                                         *)
(* Sizes and times are in samples of 16 bits.                              *)
(***************************************************************************)
EXTENDS Integers, Sequences

CONSTANTS
  Pts,          \* Pts[k] is the time of packet k; the last entry ends the file
  Stamped,      \* the packets that come with a time stamp
  Request,      \* len, what the device asks for in one callback
  BUFFER_SIZE,  \* of audio_buff
  RingSize,     \* SAMPLE_ARRAY_SIZE
  Channels,
  Width,        \* rect.w, the samples a channel's wave needs
  MaxDelay,     \* bound on the delay the time since the callback gives
  MaxFailures   \* bound on packets that fail to decode

Packets == 1 .. Len(Pts) - 1
FrameSize(k) == Pts[k + 1] - Pts[k]

\* A request fits in audio_buff, alone and behind a frame, frames and the ring hold
\* whole samples of all channels, and the wave is drawn from less than a whole ring
\* ago: compute_mod gives the ring's size for exactly that.
AudioAssumption ==
  /\ Pts \in Seq(Nat) /\ Len(Pts) > 0 /\ Stamped \subseteq Packets
  /\ Request \in Nat \ {0} /\ BUFFER_SIZE \in Nat /\ Request <= BUFFER_SIZE
  /\ Channels \in Nat \ {0} /\ RingSize \in Nat \ {0} /\ RingSize % Channels = 0
  /\ Width \in Nat \ {0} /\ MaxDelay \in Nat /\ MaxFailures \in Nat
  /\ (MaxDelay + 2 * Width) * Channels < RingSize
  /\ \A k \in Packets : /\ FrameSize(k) \in Nat
                        /\ FrameSize(k) % Channels = 0
                        /\ FrameSize(k) + Request <= BUFFER_SIZE

VARIABLES
  demuxed,            \* packets the demuxer has queued
  audioq, eof, quit, paused,
  audio_buff_size, audio_buff_index,
  audio_clock,
  sample_array, sample_array_index,
  len,                \* what is still asked for
  stream,             \* how far the stream has been filled
  pc,                 \* where audio_callback is
  pkt,                \* the last packet taken
  sampled,            \* history: how many samples went into the ring
  position,           \* history: the time of the sample that is mixed next
  behind,             \* history: the time the clock has missed since it was last set
  hw_size, hw_index,  \* what get_audio_clock has loaded, on the window's thread
  failures

flags == <<demuxed, eof, quit, paused>>
ring == <<sample_array, sample_array_index, sampled>>
buff == <<audio_buff_size, audio_buff_index>>
history == <<position, behind>>
loaded == <<hw_size, hw_index>>
vars == <<flags, audioq, buff, audio_clock, ring, len, stream, pc, pkt, history, loaded,
          failures>>

\* sample_array_index is not initialised; it is 0 in memory fresh from the system.
Init ==
  /\ demuxed = 0
  /\ audioq = <<>>
  /\ eof = FALSE /\ quit = FALSE /\ paused = FALSE
  /\ audio_buff_size = 0 /\ audio_buff_index = 0
  /\ audio_clock = 0
  /\ sample_array = [i \in 0 .. RingSize - 1 |-> 0]
  /\ sample_array_index = 0
  /\ len = 0 /\ stream = 0
  /\ pc = "idle"
  /\ pkt = 0
  /\ sampled = 0
  /\ position = Pts[1] /\ behind = Pts[1]
  /\ hw_size = 0 /\ hw_index = 0
  /\ failures = 0

-------------------------------------------------------------------------------
(* The demuxer and the window.                                             *)

Demux ==
  /\ \/ /\ demuxed < Len(Pts) - 1
        /\ demuxed' = demuxed + 1
        /\ audioq' = Append(audioq, demuxed + 1)
        /\ UNCHANGED eof
     \/ /\ demuxed = Len(Pts) - 1
        /\ eof' = TRUE
        /\ UNCHANGED <<demuxed, audioq>>
  /\ UNCHANGED <<quit, paused, buff, audio_clock, ring, len, stream, pc, pkt, history,
                 loaded, failures>>

\* media_pause and the quit event.
Control ==
  /\ \/ paused' = TRUE /\ UNCHANGED quit
     \/ quit' = TRUE /\ UNCHANGED paused
  /\ UNCHANGED <<demuxed, eof, audioq, buff, audio_clock, ring, len, stream, pc, pkt,
                 history, loaded, failures>>

\* The loads of get_audio_clock before that of audio_clock, each at a moment of its
\* own and however long before the next.
LoadSize ==
  /\ hw_size' = audio_buff_size
  /\ UNCHANGED <<flags, audioq, buff, audio_clock, ring, len, stream, pc, pkt, history,
                 hw_index, failures>>

LoadIndex ==
  /\ hw_index' = audio_buff_index
  /\ UNCHANGED <<flags, audioq, buff, audio_clock, ring, len, stream, pc, pkt, history,
                 hw_size, failures>>

-------------------------------------------------------------------------------
(* audio_callback.                                                         *)

Callback ==
  /\ pc = "idle"
  /\ len' = Request
  /\ stream' = 0
  /\ pc' = "loop"
  /\ UNCHANGED <<flags, audioq, buff, audio_clock, ring, pkt, history, loaded, failures>>

LoopTest ==
  /\ pc = "loop"
  /\ pc' = IF len = 0 THEN "idle"
           ELSE IF audio_buff_index >= audio_buff_size THEN "decode" ELSE "mix"
  /\ UNCHANGED <<flags, audioq, buff, audio_clock, ring, len, stream, pkt, history,
                 loaded, failures>>

\* A bug NoFrame could have: the end of the file is not noticed.
NoFrameIgnored ==
  /\ pc' = "reset"
  /\ audio_buff_size' = 0
  /\ UNCHANGED audio_buff_index

\* audio_decode_frame gives nothing: at the end of the file the device is closed,
\* else the buffer is empty and the loop goes round.
NoFrame ==
  /\ pc' = IF eof' THEN "closed" ELSE "reset"
  /\ audio_buff_size' = IF eof' THEN audio_buff_size ELSE 0
  /\ UNCHANGED audio_buff_index

Refuse ==
  /\ pc = "decode"
  /\ quit \/ paused \/ (audioq = <<>> /\ eof)
  /\ UNCHANGED flags
  /\ NoFrame
  /\ UNCHANGED <<audioq, audio_clock, ring, len, stream, pkt, history, loaded, failures>>

\* audio_decode_frame goes on to deQueue, which waits while the queue is empty.
Wait ==
  /\ pc = "decode"
  /\ ~quit /\ ~paused /\ ~(audioq = <<>> /\ eof)
  /\ pc' = "deQueue"
  /\ UNCHANGED <<flags, audioq, buff, audio_clock, ring, len, stream, pkt, history,
                 loaded, failures>>

\* A bug Take could have: the clock is left where the last frame ended.
TakeUntimed ==
  /\ pc = "deQueue"
  /\ audioq # <<>>
  /\ audioq' = Tail(audioq)
  /\ pkt' = Head(audioq)
  /\ behind' = IF Head(audioq) \in Stamped THEN 0 ELSE behind
  /\ pc' = "packet"
  /\ UNCHANGED <<flags, buff, audio_clock, ring, len, stream, position, loaded, failures>>

\* A packet with a time stamp sets the clock, one without leaves it where it is.
Take ==
  /\ pc = "deQueue"
  /\ audioq # <<>>
  /\ audioq' = Tail(audioq)
  /\ pkt' = Head(audioq)
  /\ \/ /\ Head(audioq) \in Stamped
        /\ audio_clock' = Pts[Head(audioq)]
        /\ behind' = 0
     \/ /\ Head(audioq) \notin Stamped
        /\ UNCHANGED <<audio_clock, behind>>
  /\ pc' = "packet"
  /\ UNCHANGED <<flags, buff, ring, len, stream, position, loaded, failures>>

\* The codec fails, or says EAGAIN or EOF, which the code takes for the end.  The
\* sound of the packet is missing, and the clock does not count it.
DecodeFails ==
  /\ pc = "packet"
  /\ failures < MaxFailures
  /\ failures' = failures + 1
  /\ \/ UNCHANGED flags
     \/ eof' = TRUE /\ quit' = TRUE /\ UNCHANGED <<demuxed, paused>>
  /\ NoFrame
  /\ position' = position + FrameSize(pkt)
  /\ behind' = behind + FrameSize(pkt)
  /\ UNCHANGED <<audioq, audio_clock, ring, len, stream, pkt, loaded>>

\* The frame is in audio_buff and counted by the clock.
Decoded ==
  /\ pc = "packet"
  /\ audio_clock' = audio_clock + FrameSize(pkt)
  /\ pc' = "decoded"
  /\ UNCHANGED <<flags, audioq, buff, ring, len, stream, pkt, history, loaded, failures>>

\* n samples are copied into the ring, piece by piece up to its end.
update_sample_display(n) ==
  /\ sample_array' = [i \in 0 .. RingSize - 1 |->
       LET ahead == (i - sample_array_index) % RingSize
       IN  IF ahead < n
             THEN sampled + ahead + RingSize * ((n - 1 - ahead) \div RingSize) + 1
             ELSE sample_array[i]]
  /\ sample_array_index' = (sample_array_index + n) % RingSize
  /\ sampled' = sampled + n

\* The size and the index of the buffer are stored one after the other.
Publish ==
  /\ pc = "decoded"
  /\ update_sample_display(FrameSize(pkt))
  /\ audio_buff_size' = FrameSize(pkt)
  /\ pc' = "reset"
  /\ UNCHANGED <<flags, audioq, audio_buff_index, audio_clock, len, stream, pkt, history,
                 loaded, failures>>

ResetIndex ==
  /\ pc = "reset"
  /\ audio_buff_index' = 0
  /\ pc' = "mix"
  /\ UNCHANGED <<flags, audioq, audio_buff_size, audio_clock, ring, len, stream, pkt,
                 history, loaded, failures>>

\* len1 samples are used up, although SDL_MixAudio is given len of them.
Mix ==
  LET rest == audio_buff_size - audio_buff_index
      len1 == IF rest > len THEN len ELSE rest
  IN  /\ pc = "mix"
      /\ len' = len - len1
      /\ stream' = stream + len1
      /\ audio_buff_index' = audio_buff_index + len1
      /\ position' = position + len1
      /\ pc' = "loop"
      /\ UNCHANGED <<flags, audioq, audio_buff_size, audio_clock, ring, pkt, behind,
                     loaded, failures>>

audio_callback ==
  \/ LoopTest \/ Refuse \/ Wait \/ Take \/ DecodeFails \/ Decoded \/ Publish
  \/ ResetIndex \/ Mix

Next == Demux \/ Control \/ LoadSize \/ LoadIndex \/ Callback \/ audio_callback

\* The demuxer reads to the end and the audio thread goes on when it can.
Spec == Init /\ [][Next]_vars /\ WF_vars(Demux) /\ WF_vars(audio_callback)

-------------------------------------------------------------------------------
(* What the window reads.                                                  *)

\* audio_clock with a size and an index of the buffer.
get_audio_clock(size, index) == audio_clock - (size - index)

\* The samples sdl_display_audio_wave reads: from where the delay puts the start,
\* or from where the search for a steep edge finds one, Width for each channel.
compute_mod(a, b) == IF a < 0 THEN b - ((-a) % b) ELSE a % b

WaveStart(delay) ==
  LET wanted == delay + 2 * Width
  IN  compute_mod(sample_array_index
                    - (IF wanted < Width THEN Width ELSE wanted) * Channels, RingSize)

WaveRead(start) ==
  {IF k = 0 THEN start + ch ELSE (start + ch + k * Channels) % RingSize :
     ch \in 0 .. Channels - 1, k \in 0 .. Width - 1}

Edges(x) == {(RingSize + x - i) % RingSize :
               i \in {j \in 0 .. RingSize - 1 : j % Channels = 0}}

-------------------------------------------------------------------------------
(* Properties.                                                             *)

\* The values the variables range over.
TypeOK ==
  /\ demuxed \in 0 .. Len(Pts) - 1
  /\ audioq \in Seq(Packets)
  /\ eof \in BOOLEAN /\ quit \in BOOLEAN /\ paused \in BOOLEAN
  /\ audio_buff_size \in Nat /\ audio_buff_index \in Nat /\ audio_clock \in Nat
  /\ sample_array \in [0 .. RingSize - 1 -> Nat]
  /\ sample_array_index \in 0 .. RingSize - 1
  /\ len \in 0 .. Request /\ stream \in 0 .. Request
  /\ pc \in {"idle", "loop", "decode", "deQueue", "packet", "decoded", "reset", "mix",
            "closed"}
  /\ pkt \in Packets \cup {0}
  /\ sampled \in Nat /\ position \in Nat /\ behind \in Nat
  /\ hw_size \in Nat /\ hw_index \in Nat
  /\ failures \in 0 .. MaxFailures

\* SDL_MixAudio is given len samples from audio_buff_index although fewer may be
\* left there: it reads and writes inside both buffers all the same.
MixInBounds ==
  pc = "mix" => /\ audio_buff_index + len <= BUFFER_SIZE
                /\ stream + len = Request

\* The clock the video is synchronised to, read at one moment, is the time of the
\* sample mixed next, less what packets without a time stamp and packets that failed
\* to decode have kept from it since it was last set, which is nothing while the sound
\* of a packet with a time stamp plays.  It runs ahead by the frame
\* while that is decoded and not yet published, and by the length of the frame before
\* between the stores of the new size and of the index.  Read at three moments, with
\* the callback running in between, it is off by two of the longest frames at most.
ClockExact ==
  LET ahead(size, index) == get_audio_clock(size, index) + behind - position
      longest == BUFFER_SIZE - Request
  IN  /\ ahead(audio_buff_size, audio_buff_index) =
           CASE pc = "decoded" -> FrameSize(pkt)
             [] pc = "reset" -> audio_buff_index
             [] OTHER -> 0
      /\ ahead(hw_size, hw_index) \in -longest .. 2 * longest
      /\ pkt \in Stamped /\ audio_buff_size > 0 /\ pc # "closed" => behind = 0

\* The ring holds the latest samples, the newest just before sample_array_index,
\* wherever frames wrap around its end.
RingHoldsLatest ==
  \A k \in 1 .. RingSize :
    k <= sampled => sample_array[(sample_array_index - k) % RingSize] = sampled - k + 1

\* sdl_display_audio_wave reads inside the ring for every delay, since everything
\* that is counted is a multiple of the channels.
WaveInBounds ==
  \A delay \in -MaxDelay .. MaxDelay :
    \A start \in Edges(WaveStart(delay)) \cup {WaveStart(delay)} :
      WaveRead(start) \subseteq 0 .. RingSize - 1
==============================================================================
