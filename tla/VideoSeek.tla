------------------------------- MODULE VideoSeek -------------------------------
(***************************************************************************)
(* get_video_frame and seek_video_frame of ffmpegtools.cpp: how            *)
(* FFmpegTools walks through an input file, whose demuxer and decoder are  *)
(* external.  The stream has a start time, as it has in every container    *)
(* with time stamps.  What the libraries answer is ignored: a read, a      *)
(* packet or a seek may fail.                                              *)
(***************************************************************************)
EXTENDS Integers, Sequences, FiniteSets, SequencesExt, FiniteSetsExt

CONSTANTS
  Items,        \* the packets of the file: the number of a frame, or 0 for another stream
  Keys,         \* the frames that can be decoded without those before them
  Delay,        \* how many frames the decoder keeps at most
  Attempts,     \* max_number_of_attempts: 2^9
  Delta,        \* the frames a seek first goes back: 16
  MaxDelta,     \* INT_MAX / 4
  Far,          \* the size of what AV_NOPTS_VALUE gives as the number of a frame
  Calls         \* bound: how many calls are made

\* The number of the last frame: nb_frames of the stream.
Frames == Max(Range(Items))

\* What the constants are: frames are numbered in the order they are shown in, which need
\* not be that of the file.
VideoSeekAssumption ==
  /\ Items \in Seq(Nat) /\ Frames \in Nat /\ Range(Items) \union {0} = 0 .. Frames
  /\ \A i, j \in DOMAIN Items : Items[i] = Items[j] /\ Items[i] # 0 => i = j
  /\ Keys \subseteq 1 .. Frames /\ 1 \in Keys
  /\ {Delay, Attempts, Delta, MaxDelta, Far, Calls} \subseteq Nat
  /\ Delta > 1 /\ MaxDelta > Delta /\ Far > Frames

VARIABLES
  video_stream,       \* the index of the stream: 0 or 1
  start_time,         \* of the stream: 0 or more
  pc,                 \* "idle", "get", "position" or "landed"
  reader,             \* who called get_video_frame: "idle" or the place in the seek
  pos,                \* how many items were read
  decoder,            \* the frames the decoder holds
  count_errs,
  frame_number, first_frame_number,
  target, delta,      \* of the seek
  calls,
  start,              \* history: where the file stood when the decoder was flushed last
  got,                \* history: how often the decoder gave each frame since
  missed,             \* history: the frames it could not decode since
  gave_up             \* history: the last get_video_frame ended at the end of the file

seeking == <<target, delta>>
history == <<start, got, missed>>
vars == <<video_stream, start_time, pc, reader, pos, decoder, count_errs, frame_number,
          first_frame_number, seeking, calls, history, gave_up>>
input == <<video_stream, start_time>>

Init ==
  /\ video_stream \in 0 .. 1 /\ start_time \in 0 .. 1
  /\ pc = "idle" /\ reader = "idle"
  /\ pos = 0 /\ decoder = {} /\ count_errs = 0
  /\ frame_number = 0 /\ first_frame_number = -1
  /\ target = 0 /\ delta = 0 /\ calls = 0
  /\ start = 0 /\ got = [f \in 1 .. Frames |-> 0] /\ missed = {} /\ gave_up = FALSE

\* What dts_to_frame_number makes of AV_NOPTS_VALUE: the subtraction may overflow.
Unstamped == IF start_time = 0 THEN {-Far} ELSE {-Far, Far}

-------------------------------------------------------------------------------
(* get_video_frame                                                         *)

\* It begins unless the frames have been counted already.
Get(who) ==
  /\ reader' = who
  /\ count_errs' = 0
  /\ IF frame_number > Frames THEN pc' = who ELSE pc' = "get"
  /\ gave_up' = FALSE

get_video_frame ==
  /\ pc = "idle" /\ calls < Calls
  /\ calls' = calls + 1
  /\ Get("idle")
  /\ UNCHANGED <<input, pos, decoder, frame_number, first_frame_number, seeking, history>>

\* The frames a read may hand to the decoder: that of the next packet, or none when the
\* read fails or the file has ended, for the blank packet then counts as one of stream 0.
ForDecoder ==
  {{Items[n]} : n \in {m \in {pos + 1} \intersect DOMAIN Items : Items[m] # 0}}
    \union {{} : s \in {video_stream} \intersect {0}}

\* A read hands them on; the decoder has them besides those it held, or cannot decode
\* the packet.
Feed(frames, fed) ==
  /\ frames \in ForDecoder
  /\ fed \in {decoder, decoder \union frames}
  /\ missed' = missed \union (frames \ fed)
  /\ pos' = IF frames = {} THEN pos ELSE pos + 1

\* A packet of another stream, or a read that failed when the video is not stream 0.
NotForDecoder ==
  /\ pos' \in {pos} \union ({pos + 1} \intersect DOMAIN Items)
  /\ pos' = pos => video_stream # 0
  /\ pos' # pos => Items[pos'] = 0
  /\ UNCHANGED <<decoder, missed>>

Tries == count_errs < Attempts

\* The number of the first picture is computed from its time stamp, or from that of the
\* packet if it is zero, which may be less.
FirstNumbers(f) == {f - 1} \union (IF f = 1 /\ start_time = 0 THEN {-1} ELSE {})

\* The decoder gives one of the pictures it has.
Picture ==
  /\ pc = "get"
  /\ \E frames \in ForDecoder : \E fed \in {decoder, decoder \union frames} : \E f \in fed :
       /\ Feed(frames, fed)
       /\ got' = [got EXCEPT ![f] = @ + 1]
       /\ decoder' = fed \ {f}
       /\ first_frame_number' \in
            IF first_frame_number < 0 THEN FirstNumbers(f) ELSE {first_frame_number}
  /\ frame_number' = frame_number + 1
  /\ pc' = reader
  /\ UNCHANGED <<input, reader, count_errs, seeking, calls, start, gave_up>>

\* The decoder may wait for more as long as it is given something and has room.
Waits ==
  \E frames \in ForDecoder : \E fed \in {decoder, decoder \union frames} :
    /\ Feed(frames, fed)
    /\ Cardinality(fed) <= Delay
    /\ frames = {} => fed = {}
    /\ decoder' = fed

\* No picture: another stream, a decoder that waits, or the end; too many end the call.
NoPicture ==
  /\ pc = "get"
  /\ NotForDecoder \/ Waits
  /\ count_errs' = count_errs + 1
  /\ pc' = IF Tries THEN "get" ELSE reader
  /\ gave_up' = (~Tries /\ pos = Len(Items))
  /\ UNCHANGED <<input, reader, frame_number, first_frame_number, seeking, calls, start, got>>

-------------------------------------------------------------------------------
(* seek_video_frame                                                        *)

\* The first seek reads a frame before anything else, if there is more than one.
seek_video_frame ==
  /\ pc = "idle" /\ calls < Calls
  /\ calls' = calls + 1
  /\ \E number \in 0 .. Frames + 1 : target' = Min({number, Frames})
  /\ delta' = Delta
  /\ IF first_frame_number < 0 /\ Frames > 1 THEN Get("position")
       ELSE pc' = "position" /\ UNCHANGED <<reader, count_errs, gave_up>>
  /\ UNCHANGED <<input, pos, decoder, frame_number, first_frame_number, history>>

\* What the decoder holds after avcodec_flush_buffers.
Flushed == {}

goal == Max({target - delta, 0})

\* The frame the demuxer goes to: the last key frame not behind the goal.
Landing == Max({k \in Keys : k <= goal + 1})

\* The decoder is flushed also when the seek fails and the file stays where it is.
Position ==
  /\ pc = "position"
  /\ \/ UNCHANGED pos
     \/ Frames > 1 /\ pos' = (CHOOSE n \in DOMAIN Items : Items[n] = Landing) - 1
  /\ start' = pos'
  /\ decoder' = Flushed
  /\ got' = [f \in 1 .. Frames |-> 0] /\ missed' = {}
  /\ IF target > 0 THEN Get("landed") /\ UNCHANGED frame_number
       ELSE /\ pc' = "idle" /\ frame_number' = 0 /\ gave_up' = FALSE
            /\ UNCHANGED <<reader, count_errs>>
  /\ UNCHANGED <<input, first_frame_number, seeking, calls>>

Wider(d) == IF d < 16 THEN d * 2 ELSE (d * 3) \div 2

\* The number of the frame is computed from a time stamp nobody has set: it is never one of
\* the file, and the seek goes further back until it is at the beginning.
Landed ==
  /\ pc = "landed"
  /\ IF target = 1 THEN frame_number' = 1 /\ pc' = "idle" /\ UNCHANGED delta
       ELSE /\ \E stamp \in Unstamped : frame_number' = stamp - first_frame_number
            /\ IF goal = 0 \/ delta >= MaxDelta THEN pc' = "idle" /\ UNCHANGED delta
                 ELSE pc' = "position" /\ delta' = Wider(delta)
  /\ UNCHANGED <<input, reader, pos, decoder, count_errs, first_frame_number, target, calls,
                 history, gave_up>>

Next ==
  \/ get_video_frame \/ Picture \/ NoPicture
  \/ seek_video_frame \/ Position \/ Landed

\* One thread; when it calls is the caller's affair.
Spec == Init /\ [][Next]_vars /\ WF_vars(Picture \/ NoPicture \/ Position \/ Landed)

-------------------------------------------------------------------------------
\* The values the variables range over.
TypeOK ==
  /\ pc \in {"idle", "get", "position", "landed"} /\ reader \in {"idle", "position", "landed"}
  /\ pos \in 0 .. Len(Items)
  /\ decoder \subseteq 1 .. Frames /\ missed \subseteq 1 .. Frames
  /\ count_errs \in 0 .. Attempts + 1
  /\ frame_number \in -Far - Frames .. Far + 1
  /\ first_frame_number \in -1 .. Frames - 1
  /\ target \in 0 .. Frames /\ delta \in 0 .. 2 * MaxDelta

\* The frames read since the decoder was flushed last.
Read == {Items[i] : i \in start + 1 .. pos} \ {0}

\* How often a frame is in a set.
In(f, S) == IF f \in S THEN 1 ELSE 0

\* From the place the file stood at when the decoder was flushed on, each frame that was
\* read was given once, or waits in the decoder, or could not be decoded; no other frame
\* is, so none of an earlier place, though seeks, reads and packets may fail.
EachOnce ==
  \A f \in 1 .. Frames :
    got[f] + In(f, decoder) + In(f, missed) = In(f, Read)

\* When the video is the file's first stream, a call that ended at the end of the file has
\* left no picture behind: those the decoder had kept were given as well.
NothingLeftAtTheEnd ==
  gave_up /\ video_stream = 0 =>
    \A i \in start + 1 .. Len(Items) :
      Items[i] # 0 => got[Items[i]] = 1 \/ Items[i] \in missed

\* Whatever is asked for, a call ends: a seek that never learns where it is stops at the
\* beginning of the file.
CallsEnd == (pc # "idle") ~> (pc = "idle")
==============================================================================
