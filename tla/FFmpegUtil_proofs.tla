--------------------------- MODULE FFmpegUtil_proofs ---------------------------
(***************************************************************************)
(* Theorems about the readers of files: the sound of FFmpegUtil and what   *)
(* it uses, the frames the Transcoder writes and when it frees what, and   *)
(* the frames VideoSeek finds; for any files, codec delays and failures.   *)
(***************************************************************************)
EXTENDS MCFiles, SequenceTheorems, WellFoundedInduction, TLAPS

CallbackPlaces == {"idle", "audio_pos", "set_audio_len", "set_audio_pos"}

\* What the counters hold.
Counters ==
  /\ file \in Files
  /\ handed \in Nat /\ mixed \in Nat /\ audio_len \in Nat /\ len \in Nat
  /\ audio_pos \in Nat /\ pos \in Nat
  /\ audio_len <= Length
  /\ out_buffer \in Nat /\ heard \in Nat
  /\ cb \in CallbackPlaces

\* What the callback has read of audio_len is still what it says: run waits for zero,
\* and the callback starts on more than that.
LenIsFresh ==
  cb \in {"audio_pos", "set_audio_len"} => len = audio_len /\ audio_len > 0

\* Unless they met at a new frame, what run and the callback say of the position fits the
\* length: between the two lines that give a frame both, nothing of it is mixed.
PosIsPlace ==
  ~raced =>
    /\ pc = "audio_pos" => audio_len = Length /\ cb # "set_audio_len"
    /\ pc # "audio_pos" =>
         /\ cb = "idle" /\ audio_len > 0 => audio_pos = Length - audio_len
         /\ cb = "audio_pos" => audio_pos = Length - len
         /\ cb = "set_audio_len" => pos = Length - len
         /\ cb = "set_audio_pos" => pos = Length - audio_len - 1

\* A frame is converted while the one before is played, and only then.
NextFrame == out_buffer <= handed + 1

\* The sound mixed last is no further ahead than that.
HeardBound == heard <= handed + 1 /\ (heard - 2) * Length <= mixed - 1

IInv == Counters /\ LenIsFresh /\ PosIsPlace /\ SlotsConserved /\ NextFrame /\ HeardBound

\* The two parts of SlotsConserved.
Counted(L) == handed * L = mixed + audio_len - (IF cb = "set_audio_len" THEN 1 ELSE 0)
Placed(L) == cb = "set_audio_len" /\ ~raced => pos = L - len

-------------------------------------------------------------------------------
LEMMA LengthType ==
  ASSUME file \in Files
  PROVE  Length \in Nat /\ Length > 0
<1>1. /\ Chunks \in Nat /\ Endless \in Nat /\ Capacity \in Nat
      /\ 0 < Chunks /\ Chunks < Capacity /\ Capacity < Endless
  BY FFmpegUtilAssumption
<1> QED
  BY <1>1 DEF Length

LEMMA Times ==
  ASSUME NEW n \in Nat, NEW L \in Nat
  PROVE  n * L \in Nat /\ (n + 1) * L = n * L + L
OBVIOUS

LEMMA TimesMonotone ==
  ASSUME NEW L \in Nat, NEW a \in Int, NEW b \in Int, a <= b
  PROVE  a * L <= b * L
OBVIOUS

LEMMA DivLowerBound ==
  ASSUME NEW L \in Nat, L > 0, NEW k \in Int, NEW x \in Int, k * L <= x
  PROVE  k <= x \div L
OBVIOUS

\* One frame less, and one less than that.
LEMMA FrameBound ==
  ASSUME NEW L \in Nat, NEW h \in Nat, NEW k \in Nat, NEW x \in Nat,
         h <= k + 1, k * L <= x + L
  PROVE  (h - 2) * L <= x
<1>1. k * L \in Nat
  BY Times
<1>2. h - 2 \in Int /\ k - 1 \in Int /\ h - 2 <= k - 1
  OBVIOUS
<1>3. (h - 2) * L <= (k - 1) * L
  BY <1>2, TimesMonotone
<1>4. (k - 1) * L = k * L - L
  BY <1>1
<1>5. (h - 2) * L \in Int /\ (k - 1) * L \in Int
  BY <1>1, <1>2
<1> QED
  BY <1>1, <1>3, <1>4, <1>5

LEMMA InitInv == Init => IInv
<1> SUFFICES ASSUME Init PROVE IInv
  OBVIOUS
<1>1. PICK L \in Nat : L = Length /\ L > 0
  BY LengthType DEF Init
<1>2. 0 * L = 0 /\ (0 - 2) * L <= -1
  BY <1>1
<1>3. Counters /\ LenIsFresh /\ PosIsPlace /\ NextFrame
  BY <1>1 DEF Init, Counters, LenIsFresh, PosIsPlace, NextFrame, CallbackPlaces
<1>4. SlotsConserved /\ HeardBound
  BY <1>1, <1>2 DEF Init, SlotsConserved, HeardBound
<1> QED
  BY <1>3, <1>4 DEF IInv

\* The steps that leave the sound alone.
LEMMA SilentSteps ==
  ASSUME IInv, pc # "audio_pos", pc' # "audio_pos",
         UNCHANGED <<file, handed, mixed, audio_len, audio_pos, len, pos, raced, heard,
                     out_buffer, cb>>
  PROVE  IInv'
<1>1. Length' = Length
  BY DEF Length
<1>2. Counters' /\ LenIsFresh' /\ NextFrame'
  BY <1>1 DEF IInv, Counters, LenIsFresh, NextFrame
<1>3. PosIsPlace'
  BY <1>1 DEF IInv, PosIsPlace
<1>4. SlotsConserved' /\ HeardBound'
  BY <1>1 DEF IInv, SlotsConserved, HeardBound
<1> QED
  BY <1>2, <1>3, <1>4 DEF IInv

\* The length of the frame in Nat, under a name that a step does not change.
LEMMA LengthStays ==
  ASSUME IInv, UNCHANGED file
  PROVE  \E L \in Nat : L > 0 /\ L = Length /\ L = Length'
<1>1. Length' = Length
  BY DEF Length
<1> QED
  BY <1>1, LengthType DEF IInv, Counters

LEMMA SlotsNext ==
  ASSUME IInv, NEW L \in Nat, L = Length, L = Length'
  PROVE  /\ Counted(L) /\ Placed(L)
         /\ Counted(L)' /\ Placed(L)' => SlotsConserved'
BY Zenon DEF IInv, SlotsConserved, Counted, Placed

LEMMA HeardNext ==
  ASSUME IInv, NEW L \in Nat, L = Length, L = Length'
  PROVE  /\ heard <= handed + 1 /\ (heard - 2) * L <= mixed - 1
         /\ heard' <= handed' + 1 /\ (heard' - 2) * L <= mixed' - 1 => HeardBound'
BY Zenon DEF IInv, HeardBound

LEMMA SetAudioLenStep == IInv /\ SetAudioLen => IInv'
<1> SUFFICES ASSUME IInv, SetAudioLen PROVE IInv'
  OBVIOUS
<1>1. /\ audio_len = 0 /\ audio_len' = Length /\ handed' = handed + 1
      /\ ~raced' /\ pc' = "audio_pos"
      /\ UNCHANGED <<file, out_buffer, audio_pos, pos, mixed, len, heard, cb>>
  BY DEF SetAudioLen, Played, Runs, callback, setup
<1>2. PICK L \in Nat : L > 0 /\ L = Length /\ L = Length'
  BY <1>1, LengthStays
<1>3. handed \in Nat /\ mixed \in Nat
  BY DEF IInv, Counters
<1>4. cb \in {"idle", "set_audio_pos"}
  BY <1>1 DEF IInv, Counters, CallbackPlaces, LenIsFresh
<1>5. handed' * L = handed * L + L /\ handed * L \in Nat
  BY <1>1, <1>3, Times
<1>6. handed * L = mixed
  <2>1. Counted(L)
    BY <1>2, SlotsNext
  <2>2. handed * L = mixed + audio_len - 0
    BY <1>4, <2>1 DEF Counted
  <2> QED
    BY <1>1, <1>3, <2>2
<1>7. SlotsConserved'
  <2>1. audio_len' = L
    BY <1>1, <1>2
  <2>2. Counted(L)' /\ Placed(L)'
    BY <1>1, <1>3, <1>4, <1>5, <1>6, <2>1 DEF Counted, Placed
  <2> QED
    BY <1>2, <2>2, SlotsNext
<1>8. Counters' /\ LenIsFresh' /\ NextFrame'
  BY <1>1, <1>2, <1>3, <1>4 DEF IInv, Counters, LenIsFresh, NextFrame
<1>9. HeardBound'
  <2>1. heard \in Nat /\ heard <= handed + 1 /\ (heard - 2) * L <= mixed - 1
    BY <1>2, HeardNext DEF IInv, Counters
  <2>2. heard' <= handed' + 1
    BY <1>1, <1>3, <2>1
  <2>3. (heard' - 2) * L <= mixed' - 1
    BY <1>1, <2>1, Zenon
  <2> QED
    BY <1>2, <2>2, <2>3, HeardNext
<1>10. PosIsPlace'
  BY <1>1, <1>2, <1>4 DEF PosIsPlace
<1> QED
  BY <1>7, <1>8, <1>9, <1>10 DEF IInv

LEMMA SetAudioPosStep == IInv /\ SetAudioPos => IInv'
<1> SUFFICES ASSUME IInv, SetAudioPos PROVE IInv'
  OBVIOUS
<1>1. /\ audio_pos' = 0 /\ raced' = (raced \/ cb = "set_audio_pos")
      /\ pc = "audio_pos" /\ pc' = "SDL_PollEvent"
      /\ UNCHANGED <<file, handed, out_buffer, audio_len, pos, mixed, len, heard, cb>>
  BY DEF SetAudioPos, Runs, callback, setup
<1>2. PICK L \in Nat : L > 0 /\ L = Length /\ L = Length'
  BY <1>1, LengthStays
<1>3. Counters' /\ LenIsFresh' /\ NextFrame'
  BY <1>1, <1>2 DEF IInv, Counters, LenIsFresh, NextFrame
<1>4. ASSUME ~raced'
      PROVE  /\ cb \in {"idle", "audio_pos"} /\ audio_len = L
             /\ cb = "audio_pos" => len = L
  <2>1. ~raced /\ cb # "set_audio_pos"
    BY <1>1, <1>4
  <2>2. audio_len = L /\ cb # "set_audio_len"
    BY <1>1, <1>2, <2>1 DEF IInv, PosIsPlace
  <2> QED
    BY <2>1, <2>2 DEF IInv, Counters, CallbackPlaces, LenIsFresh
<1>5. PosIsPlace'
  <2>1. L - L = 0
    OBVIOUS
  <2>2. ASSUME ~raced'
        PROVE  /\ cb' \in {"idle", "audio_pos"} /\ audio_pos' = Length' - audio_len'
               /\ cb' = "audio_pos" => audio_pos' = Length' - len'
    BY <1>1, <1>2, <1>4, <2>1, <2>2
  <2>3. pc' # "audio_pos"
    BY <1>1
  <2> QED
    BY <2>2, <2>3, Zenon DEF PosIsPlace
<1>6. SlotsConserved'
  <2>1. handed' * Length' = mixed' + audio_len' - (IF cb' = "set_audio_len" THEN 1 ELSE 0)
    BY <1>1, <1>2 DEF IInv, SlotsConserved
  <2>2. ~(cb' = "set_audio_len" /\ ~raced')
    BY <1>1, <1>4
  <2> QED
    BY <2>1, <2>2, Zenon DEF SlotsConserved
<1>7. HeardBound'
  BY <1>1, <1>2 DEF IInv, HeardBound
<1> QED
  BY <1>3, <1>5, <1>6, <1>7 DEF IInv

LEMMA RunStep == IInv /\ run => IInv'
<1> SUFFICES ASSUME IInv, run PROVE IInv'
  OBVIOUS
<1>1. CASE open_input_file \/ open_output_file \/ initAV \/ dump \/ init_filters
  <2>1. pc # "audio_pos" /\ pc' # "audio_pos"
    BY <1>1 DEF open_input_file, open_output_file, initAV, dump, init_filters, Opens
  <2>2. UNCHANGED <<file, shared, callback>>
    BY <1>1 DEF open_input_file, open_output_file, initAV, dump, init_filters, Opens
  <2> QED
    BY <2>1, <2>2, SilentSteps DEF shared, callback
<1>2. CASE Read \/ NoEvent \/ Quit \/ EndOfFile \/ End
  <2>1. pc # "audio_pos" /\ pc' # "audio_pos"
    BY <1>2 DEF Read, NoEvent, Quit, EndOfFile, End, Runs
  <2>2. UNCHANGED <<file, shared, callback>>
    BY <1>2 DEF Read, NoEvent, Quit, EndOfFile, End, Runs, setup
  <2> QED
    BY <2>1, <2>2, SilentSteps DEF shared, callback
<1>3. CASE Convert
  <2>1. /\ UNCHANGED <<file, handed, mixed, audio_len, audio_pos, raced, len, pos, heard, cb>>
        /\ pc # "audio_pos" /\ pc' # "audio_pos"
    BY <1>3 DEF Convert, Runs, callback, setup
  <2>2. out_buffer' \in Nat /\ out_buffer' <= handed + 1
    BY <1>3 DEF Convert, Filtered, IInv, Counters, NextFrame
  <2>3. Length' = Length
    BY <2>1 DEF Length
  <2>4. Counters' /\ LenIsFresh' /\ NextFrame'
    BY <2>1, <2>2, <2>3 DEF IInv, Counters, LenIsFresh, NextFrame
  <2>5. PosIsPlace'
    BY <2>1, <2>3 DEF IInv, PosIsPlace
  <2>6. SlotsConserved' /\ HeardBound'
    BY <2>1, <2>3 DEF IInv, SlotsConserved, HeardBound
  <2> QED
    BY <2>4, <2>5, <2>6 DEF IInv
<1> QED
  BY <1>1, <1>2, <1>3, SetAudioLenStep, SetAudioPosStep DEF run

LEMMA CallbackStep == IInv /\ fill_audio => IInv'
<1> SUFFICES ASSUME IInv, fill_audio PROVE IInv'
  OBVIOUS
<1> USE DEF CallbackPlaces
<1>0. UNCHANGED file
  BY DEF fill_audio, ReadLen, Mix, WriteLen, WritePos, Plays, setup
<1>L. PICK L \in Nat : L > 0 /\ L = Length /\ L = Length'
  BY <1>0, LengthStays
<1>1. CASE ReadLen
  <2>1. /\ cb = "idle" /\ cb' = "audio_pos" /\ audio_len > 0 /\ len' = audio_len
        /\ UNCHANGED <<pc, handed, mixed, audio_len, audio_pos, raced, pos, heard, out_buffer>>
    BY <1>1 DEF ReadLen, Plays
  <2>2. Counters' /\ LenIsFresh' /\ NextFrame'
    BY <1>0, <1>L, <2>1 DEF IInv, Counters, LenIsFresh, NextFrame
  <2>3. PosIsPlace'
    BY <1>L, <2>1 DEF IInv, PosIsPlace
  <2>4. SlotsConserved' /\ HeardBound'
    BY <1>L, <2>1 DEF IInv, SlotsConserved, HeardBound
  <2> QED
    BY <2>2, <2>3, <2>4 DEF IInv
<1>2. CASE Mix
  <2>1. /\ cb = "audio_pos" /\ cb' = "set_audio_len" /\ mixed' = mixed + 1
        /\ heard' \in {out_buffer, 0}
        /\ pos' = audio_pos /\ raced' = (raced \/ pc = "audio_pos")
        /\ UNCHANGED <<handed, audio_len, audio_pos, len, out_buffer>>
    BY <1>2 DEF Mix, Plays
  <2>2. /\ handed \in Nat /\ mixed \in Nat /\ audio_len \in Nat
        /\ audio_len <= L /\ heard' \in Nat /\ heard' <= handed + 1
    BY <1>L, <2>1 DEF IInv, Counters, NextFrame
  <2>3. handed * L = mixed + audio_len
    <3>1. Counted(L)
      BY <1>L, SlotsNext
    <3>2. handed * L = mixed + audio_len - 0
      BY <2>1, <3>1 DEF Counted
    <3> QED
      BY <2>2, <3>2
  <2>4. handed * L <= mixed + L
    BY <2>2, <2>3
  <2>5. PICK h \in Nat : h = heard'
    BY <2>2
  <2>6. (h - 2) * L <= mixed
    <3>1. h <= handed + 1
      BY <2>2, <2>5
    <3> QED
      BY <2>2, <2>4, <3>1, FrameBound
  <2>7. Counters' /\ LenIsFresh' /\ NextFrame'
    BY <1>0, <1>L, <2>1, <2>2 DEF IInv, Counters, LenIsFresh, NextFrame
  <2>8. HeardBound'
    <3>1. mixed = mixed' - 1 /\ handed' = handed /\ h <= handed + 1
      BY <2>1, <2>2, <2>5
    <3>2. heard' <= handed' + 1
      BY <2>5, <3>1
    <3>3. (heard' - 2) * Length' <= mixed' - 1
      BY <1>L, <2>5, <2>6, <3>1, Zenon
    <3> QED
      BY <3>2, <3>3, Zenon DEF HeardBound
  <2>9. ~raced' => ~raced /\ pc # "audio_pos" /\ pos' = L - len'
    BY <1>L, <2>1 DEF IInv, PosIsPlace
  <2>10. PosIsPlace'
    <3>1. pc' = pc \/ pc' = "crashed"
      BY <1>2 DEF Mix
    <3> QED
      BY <1>L, <2>1, <2>9, <3>1 DEF PosIsPlace
  <2>11. SlotsConserved'
    <3>1. Counted(L)'
      BY <2>1, <2>2, <2>3 DEF Counted
    <3>2. Placed(L)'
      BY <2>9 DEF Placed
    <3> QED
      BY <1>L, <3>1, <3>2, SlotsNext
  <2> QED
    BY <2>7, <2>8, <2>10, <2>11 DEF IInv
<1>3. CASE WriteLen
  <2>1. /\ cb = "set_audio_len" /\ cb' = "set_audio_pos" /\ audio_len' = len - 1
        /\ UNCHANGED <<pc, handed, mixed, audio_pos, raced, len, pos, heard, out_buffer>>
    BY <1>3 DEF WriteLen, StoreLen, Plays
  <2>2. len = audio_len /\ audio_len > 0
    BY <2>1 DEF IInv, LenIsFresh
  <2>3. Counters' /\ LenIsFresh' /\ NextFrame'
    <3>1. audio_len' \in Nat /\ audio_len' <= L
      BY <1>L, <2>1, <2>2 DEF IInv, Counters
    <3> QED
      BY <1>0, <1>L, <2>1, <3>1 DEF IInv, Counters, LenIsFresh, NextFrame
  <2>4. SlotsConserved'
    <3>1. handed' * L = mixed + audio_len - 1
      BY <1>L, <2>1, SlotsNext DEF Counted
    <3>2. Counted(L)' /\ Placed(L)'
      BY <2>1, <2>2, <3>1 DEF Counted, Placed
    <3> QED
      BY <1>L, <3>2, SlotsNext
  <2>5. HeardBound'
    BY <1>L, <2>1 DEF IInv, HeardBound
  <2>6. PosIsPlace'
    <3>1. ~raced => pc # "audio_pos" /\ pos = L - len
      BY <1>L, <2>1 DEF IInv, PosIsPlace
    <3>2. len \in Nat /\ pos \in Nat
      BY DEF IInv, Counters
    <3>3. ~raced => pos = L - audio_len' - 1
      BY <2>1, <3>1, <3>2
    <3> QED
      BY <1>L, <2>1, <3>1, <3>3 DEF PosIsPlace
  <2> QED
    BY <2>3, <2>4, <2>5, <2>6 DEF IInv
<1>4. CASE WritePos
  <2>1. /\ cb = "set_audio_pos" /\ cb' = "idle" /\ audio_pos' = pos + 1
        /\ UNCHANGED <<pc, handed, mixed, audio_len, raced, len, pos, heard, out_buffer>>
    BY <1>4 DEF WritePos, Plays
  <2>2. Counters' /\ LenIsFresh' /\ NextFrame'
    BY <1>0, <1>L, <2>1 DEF IInv, Counters, LenIsFresh, NextFrame
  <2>3. PosIsPlace'
    <3>1. audio_len \in Nat /\ pos \in Nat
      BY DEF IInv, Counters
    <3>2. ~raced /\ pc # "audio_pos" => pos = L - audio_len - 1
      BY <1>L, <2>1 DEF IInv, PosIsPlace
    <3>3. ~raced /\ pc # "audio_pos" => audio_pos' = L - audio_len'
      BY <2>1, <3>1, <3>2
    <3>4. ~raced /\ pc = "audio_pos" => audio_len = L
      BY <1>L DEF IInv, PosIsPlace
    <3> QED
      BY <1>L, <2>1, <3>3, <3>4 DEF PosIsPlace
  <2>4. SlotsConserved' /\ HeardBound'
    BY <1>L, <2>1 DEF IInv, SlotsConserved, HeardBound
  <2> QED
    BY <2>2, <2>3, <2>4 DEF IInv
<1> QED
  BY <1>1, <1>2, <1>3, <1>4 DEF fill_audio

LEMMA NextInv == IInv /\ [Next]_vars => IInv'
<1> SUFFICES ASSUME IInv, [Next]_vars PROVE IInv'
  OBVIOUS
<1>1. CASE Destroy \/ LateCallback
  <2>1. pc # "audio_pos" /\ pc' # "audio_pos"
    BY <1>1 DEF Destroy, LateCallback, Runs
  <2> QED
    BY <1>1, <2>1, SilentSteps DEF Destroy, LateCallback, Runs, setup, shared, callback
<1>2. CASE UNCHANGED vars
  <2>1. Length' = Length
    BY <1>2 DEF Length, vars, setup
  <2>2. Counters' /\ LenIsFresh' /\ NextFrame' /\ HeardBound' /\ SlotsConserved'
    BY <1>2, <2>1 DEF IInv, Counters, LenIsFresh, NextFrame, HeardBound, SlotsConserved,
                      vars, setup, shared, callback
  <2>3. PosIsPlace'
    BY <1>2, <2>1 DEF IInv, PosIsPlace, vars, shared, callback
  <2> QED
    BY <2>2, <2>3 DEF IInv
<1> QED
  BY <1>1, <1>2, RunStep, CallbackStep DEF Next

THEOREM Invariance == Spec => []IInv
BY InitInv, NextInv, PTL DEF Spec

-------------------------------------------------------------------------------
(* What a listener can rely on, without a lock.                            *)

\* decode_audio and fill_audio both write audio_len, and still every frame is given as
\* many calls as it is long: decode_audio writes it only while it is zero, and fill_audio
\* does not touch it then.  The calls mix the frame from its beginning to its end unless
\* one met decode_audio between its two lines.
THEOREM SoundConserved == Spec => []SlotsConserved
<1>1. IInv => SlotsConserved
  BY DEF IInv
<1> QED
  BY Invariance, <1>1, PTL

\* The buffer decode_audio converts into is never more than one frame ahead of what the
\* device plays, however long the file.
THEOREM HeardInTime == Spec => []OneAhead
<1>1. IInv => OneAhead
  <2> SUFFICES ASSUME IInv PROVE OneAhead
    OBVIOUS
  <2>0. PICK L \in Nat : L = Length /\ L > 0
    BY LengthType DEF IInv, Counters
  <2>1. /\ heard - 2 \in Int /\ mixed - 1 \in Int
        /\ (heard - 2) * L <= mixed - 1
    BY <2>0 DEF IInv, Counters, HeardBound
  <2>2. heard - 2 <= (mixed - 1) \div L
    BY <2>0, <2>1, DivLowerBound
  <2>3. (mixed - 1) \div L \in Int
    BY <2>0, <2>1
  <2> QED
    BY <2>0, <2>1, <2>2, <2>3 DEF OneAhead, IInv, Counters
<1> QED
  BY Invariance, <1>1, PTL

-------------------------------------------------------------------------------
(* The transcoder.                                                         *)

Working == {"read", "remux", "decode", "filter", "encode", "write", "flush", "trailer"}

\* How far the main thread has come, what it has made on the way, and what it leaves to
\* the thread.
FilmMain ==
  /\ main \in {"open_input", "open_decoders", "open_encoders", "write_header", "init_filters",
               "start_thread", "loop_event", "join", "destroy", "gone"}
  /\ thread \in Working \union {"none", "ended"}
  /\ stream_index \in Nat \ {0}
  /\ dec \subseteq Film!Streams /\ enc \subseteq Film!Coded /\ graph \subseteq Film!Coded
  /\ shown \in BOOLEAN /\ crashed \in BOOLEAN
  /\ container \in {"none", "header", "trailer"}
  /\ thread \in Working => main \in {"loop_event", "join"} /\ container = "header"
  /\ thread = "none" => main \notin {"loop_event", "join"}
  /\ thread = "ended" => main \in {"loop_event", "join", "destroy", "gone"}
  /\ container = "trailer" => thread = "ended"
  /\ main \in {"open_input", "open_decoders", "open_encoders", "write_header"} =>
       graph = {} /\ cleared = {}
  /\ main = "write_header" => stream_index = 1
  /\ main = "init_filters" =>
       /\ graph = {s \in Film!Coded : s < stream_index}
       /\ cleared = {s \in Film!Streams : s < stream_index}
  /\ main \in {"init_filters", "start_thread"} => container = "header"
  /\ main = "start_thread" \/ thread \in Working => graph = Film!Coded
  /\ main = "start_thread" \/ thread # "none" => cleared = Film!Streams
  /\ ~(lost \subseteq Film!Conversions) => thread = "none" /\ main \in {"destroy", "gone"}
  /\ crashed => \/ thread = "none" /\ main = "gone"
                \/ thread # "none" /\ shown /\ main \in {"join", "destroy", "gone"}
  /\ main = "gone" /\ thread = "ended" => dec \union enc \union graph = {}

\* What each step of the thread finds.
FilmThread ==
  /\ decDelay \in [Film!Streams -> Nat] /\ encDelay \in [Film!Streams -> Nat]
  /\ left \in [Film!Streams -> Nat]
  /\ decoder \in [Film!Streams -> Seq(Nat)] /\ encoder \in [Film!Streams -> Seq(Nat)]
  /\ written \in [Film!Streams -> Seq(Nat)]
  /\ cur \in Nat \ {0} /\ frame \in Nat
  /\ flushing \in BOOLEAN /\ failed \in BOOLEAN
  /\ thread = "none" => ~flushing /\ ~failed
  /\ thread \in {"decode", "filter", "encode", "write"} => cur \in Film!Coded
  /\ thread = "remux" => cur \in Film!Streams \ Film!Coded
  /\ thread = "encode" => (frame = 0 <=> flushing)
  /\ thread \in {"read", "remux", "decode", "filter"} => ~flushing
  /\ thread \in {"flush", "trailer"} => flushing
  /\ failed => flushing \/ thread = "ended"
  /\ ~failed /\ thread = "ended" => flushing
  /\ ~failed /\ thread \in {"trailer", "ended"} => cur \notin Film!Streams

\* How many packets, or frames, of a stream the thread has in its hands before the
\* decoder, between the codecs and behind the encoder.
ToDecode(s) == IF thread \in {"decode", "remux"} /\ cur = s THEN 1 ELSE 0
ToEncode(s) ==
  IF (thread = "filter" \/ (thread = "encode" /\ ~flushing)) /\ cur = s THEN 1 ELSE 0
ToWrite(s) == IF thread = "write" /\ cur = s THEN 1 ELSE 0

\* The number of the last frame of a stream that is out of the encoder, of the decoder.
Encoded(s) == Len(written[s]) + ToWrite(s)
Decoded(s) == Encoded(s) + Len(encoder[s]) + ToEncode(s)

\* The n numbers that follow a.
Numbers(a, n) == [i \in 1 .. n |-> a + i]

\* The frames of a stream are in the file, in the encoder and in the decoder in the order
\* of the file, and until something fails none is missing.
InOrderOf(s) ==
  /\ written[s] = Numbers(0, Len(written[s]))
  /\ ~(failed /\ thread \in {"trailer", "ended"}) =>
       encoder[s] = Numbers(Encoded(s), Len(encoder[s]))
  /\ ToWrite(s) = 1 => frame = Encoded(s)
  /\ ToEncode(s) = 1 => frame = Decoded(s)
  /\ ~failed => /\ decoder[s] = Numbers(Decoded(s), Len(decoder[s]))
                /\ Decoded(s) + Len(decoder[s]) + ToDecode(s) + left[s] = Packets[s]
  /\ Len(decoder[s]) <= decDelay[s] /\ Len(encoder[s]) <= encDelay[s]
  /\ s \notin Film!Coded => Len(decoder[s]) = 0 /\ Len(encoder[s]) = 0
  /\ ~failed /\ flushing => left[s] = 0 /\ (s < cur => Len(encoder[s]) = 0)

FilmInv == FilmMain /\ FilmThread /\ \A s \in Film!Streams : InOrderOf(s)

LEMMA FilmConstants ==
  /\ Kind \in Seq({"video", "audio", "data"}) /\ Packets \in [Film!Streams -> Nat]
  /\ MaxDelay \in Nat
  /\ Film!Streams = 1 .. Len(Kind) /\ Len(Kind) \in Nat
  /\ Film!Coded \subseteq Film!Streams
  /\ Film!Coded \subseteq 1 .. Len(Kind) /\ Film!Streams \subseteq 1 .. Len(Kind)
<1>1. Kind \in Seq({"video", "audio", "data"}) /\ Packets \in [Film!Streams -> Nat]
      /\ MaxDelay \in Nat
  BY FilesAssumption, Zenon DEF Film!TranscoderAssumption
<1>2. Film!Streams = 1 .. Len(Kind) /\ Len(Kind) \in Nat
  BY <1>1, LenProperties DEF Film!Streams
<1> QED
  BY <1>1, <1>2 DEF Film!Coded

\* The steps of the main thread, and what the thread leaves to it.
\* The members of a set of streams below the next one.
LEMMA UpToNext ==
  ASSUME NEW S, S \subseteq Nat, NEW n \in Nat, n \in S
  PROVE  {s \in S : s < n + 1} = {s \in S : s < n} \union {n}
<1>1. ASSUME NEW s \in S PROVE s < n + 1 <=> s < n \/ s = n
  <2>1. s \in Nat
    OBVIOUS
  <2> QED
    BY <2>1
<1> QED
  BY <1>1, Zenon

LEMMA UpToSame ==
  ASSUME NEW S, S \subseteq Nat, NEW n \in Nat, n \notin S
  PROVE  {s \in S : s < n + 1} = {s \in S : s < n}
<1>1. ASSUME NEW s \in S PROVE s < n + 1 <=> s < n
  <2>1. s \in Nat /\ s # n
    OBVIOUS
  <2> QED
    BY <2>1
<1> QED
  BY <1>1, Zenon

LEMMA UpToAll ==
  ASSUME NEW m \in Nat, NEW S, S \subseteq 1 .. m, NEW n \in Nat \ {0}, n \notin 1 .. m
  PROVE  {s \in S : s < n} = S
<1>1. n > m
  OBVIOUS
<1>2. ASSUME NEW s \in S PROVE s < n
  <2>1. s \in 1 .. m
    OBVIOUS
  <2> QED
    BY <1>1, <2>1
<1> QED
  BY <1>2, Zenon

LEMMA FilmOpens ==
  ASSUME FilmMain, Film!OpenDecoders \/ Film!OpenEncoders
  PROVE  FilmMain'
<1>1. CASE Film!OpenDecoders
  <2>1. /\ main = "open_decoders" /\ thread = "none"
        /\ UNCHANGED <<enc, graph, cleared, thread, container, shown, crashed>>
    BY <1>1 DEF Film!OpenDecoders, Film!Opens, FilmMain, Working
  <2>2. /\ dec' \subseteq Film!Streams /\ stream_index' \in Nat \ {0}
        /\ main' \in {"open_decoders", "open_encoders", "destroy"}
        /\ lost' # lost => main' = "destroy"
    <3>1. dec \subseteq Film!Streams /\ stream_index \in Nat \ {0}
      BY DEF FilmMain
    <3>2. CASE stream_index \in Film!Streams /\ dec' = (dec \union {stream_index})
               /\ stream_index' = stream_index + 1 /\ UNCHANGED <<main, lost>>
      BY <2>1, <3>1, <3>2
    <3>3. CASE main' = "destroy" /\ UNCHANGED <<dec, stream_index>>
      BY <3>1, <3>3
    <3>4. CASE main' = "open_encoders" /\ stream_index' = 1 /\ UNCHANGED <<dec, lost>>
      BY <3>1, <3>4
    <3> QED
      BY <1>1, <3>2, <3>3, <3>4 DEF Film!OpenDecoders, Film!Opens
  <2> QED
    BY <2>1, <2>2 DEF FilmMain, Working
<1>2. CASE Film!OpenEncoders
  <2>1. /\ main = "open_encoders" /\ thread = "none"
        /\ UNCHANGED <<dec, graph, cleared, thread, container, shown, crashed>>
    BY <1>2 DEF Film!OpenEncoders, Film!Opens, FilmMain, Working
  <2>2. /\ enc' \subseteq Film!Coded /\ stream_index' \in Nat \ {0}
        /\ main' \in {"open_encoders", "write_header", "destroy"}
        /\ main' = "write_header" => stream_index' = 1
        /\ lost' # lost => main' = "destroy"
    <3>1. enc \subseteq Film!Coded /\ stream_index \in Nat \ {0}
      BY DEF FilmMain
    <3>2. CASE enc' = (IF stream_index \in Film!Coded THEN enc \union {stream_index} ELSE enc)
               /\ stream_index' = stream_index + 1 /\ UNCHANGED <<main, lost>>
      BY <2>1, <3>1, <3>2
    <3>3. CASE main' = "destroy" /\ UNCHANGED <<enc, stream_index>>
      BY <3>1, <3>3
    <3>4. CASE main' = "write_header" /\ stream_index' = 1 /\ UNCHANGED <<enc, lost>>
      BY <3>1, <3>4
    <3> QED
      BY <1>2, <3>2, <3>3, <3>4 DEF Film!OpenEncoders, Film!Opens
  <2> QED
    BY <2>1, <2>2 DEF FilmMain, Working
<1> QED
  BY <1>1, <1>2

LEMMA FilmFilters ==
  ASSUME FilmMain, Film!InitFilters
  PROVE  FilmMain'
<1>1. /\ main = "init_filters" /\ thread = "none" /\ container = "header"
      /\ graph = {s \in Film!Coded : s < stream_index}
      /\ cleared = {s \in Film!Streams : s < stream_index}
      /\ cleared' = cleared \union ({stream_index} \intersect Film!Streams)
      /\ lost \subseteq Film!Conversions /\ stream_index \in Nat \ {0}
      /\ UNCHANGED <<dec, enc, thread, container, shown, crashed>>
  BY DEF Film!InitFilters, FilmMain, Working
<1>2. Film!Streams = 1 .. Len(Kind) /\ Len(Kind) \in Nat /\ Film!Coded \subseteq Film!Streams
  BY FilmConstants
<1>u. /\ stream_index \in Film!Coded =>
           {s \in Film!Coded : s < stream_index + 1}
             = {s \in Film!Coded : s < stream_index} \union {stream_index}
      /\ stream_index \notin Film!Coded =>
           {s \in Film!Coded : s < stream_index + 1} = {s \in Film!Coded : s < stream_index}
      /\ stream_index \in Film!Streams =>
           {s \in Film!Streams : s < stream_index + 1}
             = {s \in Film!Streams : s < stream_index} \union {stream_index}
  <2>1. stream_index \in Nat /\ Film!Coded \subseteq Nat /\ Film!Streams \subseteq Nat
    BY <1>1, <1>2
  <2>2. ASSUME stream_index \in Film!Coded
        PROVE  {s \in Film!Coded : s < stream_index + 1}
                 = {s \in Film!Coded : s < stream_index} \union {stream_index}
    BY <2>1, <2>2, UpToNext, Zenon
  <2>3. ASSUME stream_index \notin Film!Coded
        PROVE  {s \in Film!Coded : s < stream_index + 1} = {s \in Film!Coded : s < stream_index}
    BY <2>1, <2>3, UpToSame, Zenon
  <2>4. ASSUME stream_index \in Film!Streams
        PROVE  {s \in Film!Streams : s < stream_index + 1}
                 = {s \in Film!Streams : s < stream_index} \union {stream_index}
    BY <2>1, <2>4, UpToNext, Zenon
  <2> QED
    BY <2>2, <2>3, <2>4, Zenon
<1>3. CASE stream_index \in Film!Coded /\ Film!init_filter
  <2>1. CASE graph' = graph \union {stream_index} /\ stream_index' = stream_index + 1
             /\ UNCHANGED <<main, lost>>
    <3>1. /\ graph' = {s \in Film!Coded : s < stream_index'}
          /\ cleared' = {s \in Film!Streams : s < stream_index'}
      <4>1. stream_index \in Film!Coded /\ stream_index \in Film!Streams
        BY <1>2, <1>3
      <4>2. /\ {s \in Film!Coded : s < stream_index + 1} = graph \union {stream_index}
            /\ {s \in Film!Streams : s < stream_index + 1} = cleared \union {stream_index}
        BY <1>1, <1>u, <4>1, Zenon
      <4> QED
        BY <1>1, <2>1, <4>1, <4>2
    <3> QED
      BY <1>1, <2>1, <3>1 DEF FilmMain, Working
  <2>2. CASE main' = "destroy" /\ UNCHANGED <<graph, stream_index>>
    BY <1>1, <2>2 DEF FilmMain, Working
  <2> QED
    BY <1>3, <2>1, <2>2 DEF Film!init_filter
<1>4. CASE stream_index \in Film!Streams \ Film!Coded /\ stream_index' = stream_index + 1
           /\ UNCHANGED <<main, graph, lost>>
  <2>1. /\ graph' = {s \in Film!Coded : s < stream_index'}
        /\ cleared' = {s \in Film!Streams : s < stream_index'}
    <3>1. /\ {s \in Film!Coded : s < stream_index + 1} = graph
          /\ {s \in Film!Streams : s < stream_index + 1} = cleared \union {stream_index}
      BY <1>1, <1>u, <1>4, Zenon
    <3> QED
      BY <1>1, <1>4, <3>1
  <2> QED
    BY <1>1, <1>4, <2>1 DEF FilmMain, Working
<1>5. CASE stream_index \notin Film!Streams /\ main' = "start_thread"
           /\ UNCHANGED <<stream_index, graph, lost>>
  <2>1. graph' = Film!Coded /\ cleared' = Film!Streams
    <3>1. /\ {s \in Film!Coded : s < stream_index} = Film!Coded
          /\ {s \in Film!Streams : s < stream_index} = Film!Streams
      <4>1. /\ stream_index \in Nat \ {0} /\ Len(Kind) \in Nat
            /\ stream_index \notin 1 .. Len(Kind)
        BY <1>1, <1>2, <1>5, Zenon
      <4> QED
        BY <4>1, UpToAll, FilmConstants, Zenon
    <3>2. {stream_index} \intersect Film!Streams = {}
      BY <1>5
    <3> QED
      BY <1>1, <1>5, <3>1, <3>2
  <2> QED
    BY <1>1, <1>5, <2>1 DEF FilmMain, Working
<1> QED
  BY <1>3, <1>4, <1>5 DEF Film!InitFilters

LEMMA FilmMainNext ==
  ASSUME FilmMain, FilmThread, Film!Next
  PROVE  FilmMain'
<1>1. CASE Film!OpenInput
  <2>1. /\ main = "open_input" /\ thread = "none"
        /\ UNCHANGED <<stream_index, dec, enc, graph, cleared, lost, thread, container, shown>>
        /\ \/ main' = "open_decoders" /\ UNCHANGED crashed
           \/ main' = "gone" /\ crashed' = TRUE
    BY <1>1 DEF FilmMain, Working, Film!OpenInput, Film!setupVars
  <2>2. CASE main' = "open_decoders" /\ UNCHANGED crashed
    BY <2>1, <2>2 DEF FilmMain, Working
  <2>3. CASE main' = "gone" /\ crashed' = TRUE
    BY <2>1, <2>3 DEF FilmMain, Working
  <2> QED
    BY <2>1, <2>2, <2>3
<1>2. CASE Film!OpenDecoders \/ Film!OpenEncoders
  BY <1>2, FilmOpens
<1>3. CASE Film!WriteHeader
  <2>1. /\ main = "write_header" /\ thread = "none" /\ graph = {} /\ cleared = {}
        /\ stream_index = 1
        /\ UNCHANGED <<stream_index, dec, enc, graph, cleared, lost, thread, shown, crashed>>
        /\ \/ main' = "init_filters" /\ container' = "header"
           \/ main' = "destroy" /\ UNCHANGED container
    BY <1>3 DEF FilmMain, Working, Film!WriteHeader, Film!setupVars
  <2>2. {s \in Film!Coded : s < 1} = {} /\ {s \in Film!Streams : s < 1} = {}
    <3>1. ASSUME NEW s \in Film!Streams PROVE ~(s < 1)
      <4>1. s \in 1 .. Len(Kind)
        BY FilmConstants
      <4> QED
        BY <4>1, FilmConstants
    <3> QED
      BY <3>1, FilmConstants, Zenon
  <2>3. container' # "trailer"
    BY <2>1 DEF FilmMain
  <2> QED
    BY <2>1, <2>2, <2>3 DEF FilmMain, Working
<1>4. CASE Film!InitFilters
  BY <1>4, FilmFilters
<1>5. CASE Film!StartThread
  BY <1>5 DEF FilmMain, Working, Film!StartThread, Film!setupVars
<1>6. CASE Film!Join \/ Film!LoopEvent
  BY <1>6 DEF FilmMain, Working, Film!Join, Film!LoopEvent, Film!Joined, Film!setupVars
<1>7. CASE Film!Destroy
  <2>1. /\ main = "destroy" /\ main' = "gone" /\ thread \in {"none", "ended"}
        /\ dec' = {} /\ enc' = {} /\ graph' = {}
        /\ crashed' = (crashed \/ (cleared # {} /\ cleared # Film!Streams))
        /\ UNCHANGED <<stream_index, cleared, lost, thread, container, shown>>
    BY <1>7 DEF FilmMain, Working, Film!Destroy
  <2>2. crashed' => thread = "none" \/ (thread # "none" /\ shown)
    BY <2>1 DEF FilmMain
  <2>3. crashed' \in BOOLEAN
    BY <2>1 DEF FilmMain
  <2> QED
    BY <2>1, <2>2, <2>3 DEF FilmMain, Working
<1>8. CASE Film!decode_encode
  <2>1. /\ UNCHANGED <<main, dec, enc, graph, cleared>>
        /\ UNCHANGED stream_index
        /\ thread \in Working
        /\ thread' \in Working \union {"ended"}
    BY <1>8 DEF Film!decode_encode, Film!Read, Film!Remux, Film!Decode, Film!Filter, Film!Encode,
        Film!Write, Film!Flush, Film!WriteTrailer, Film!threadOnly, Film!Succeeds, Film!Fails,
        Film!NotWritten, Film!NotGiven, Film!Written, Film!pipeVars, Working
  <2>2. \/ UNCHANGED container
        \/ container' = "trailer" /\ thread' = "ended"
    BY <1>8 DEF Film!decode_encode, Film!Read, Film!Remux, Film!Decode, Film!Filter, Film!Encode,
        Film!Write, Film!Flush, Film!WriteTrailer
  <2>3. \/ UNCHANGED <<shown, crashed>>
        \/ /\ shown' \in BOOLEAN /\ crashed' \in BOOLEAN /\ (shown => shown')
           /\ crashed' => crashed \/ (shown /\ main = "join")
    <3>1. CASE Film!Filter
      BY <3>1 DEF Film!Filter, Film!cv_handle_frame, FilmMain
    <3>2. CASE ~Film!Filter
      BY <1>8, <3>2 DEF Film!decode_encode, Film!Read, Film!Remux, Film!Decode, Film!Encode,
        Film!Write, Film!Flush, Film!WriteTrailer
    <3> QED
      BY <3>1, <3>2
  <2>4. lost' \subseteq Film!Conversions
    <3>0. lost \subseteq Film!Conversions
      BY <2>1 DEF FilmMain, Working
    <3>1. CASE Film!Filter
      <4>1. cur \in Film!Coded
        BY <3>1 DEF Film!Filter, FilmThread
      <4>2. lost' \subseteq lost \union {<<"conversion", cur>>}
        BY <3>1 DEF Film!Filter, Film!cv_handle_frame
      <4>3. {<<"conversion", cur>>} \subseteq Film!Conversions
        BY <4>1 DEF Film!Conversions
      <4> QED
        BY <3>0, <4>2, <4>3
    <3>2. CASE ~Film!Filter
      <4>1. UNCHANGED lost
        BY <1>8, <3>2 DEF Film!decode_encode, Film!Read, Film!Remux, Film!Decode, Film!Encode,
          Film!Write, Film!Flush, Film!WriteTrailer, Film!threadOnly
      <4> QED
        BY <3>0, <4>1
    <3> QED
      BY <3>1, <3>2
  <2> QED
    BY <2>1, <2>2, <2>3, <2>4 DEF FilmMain, Working
<1> QED
  BY <1>1, <1>2, <1>3, <1>4, <1>5, <1>6, <1>7, <1>8 DEF Film!Next, Film!Setup

\* Consecutive numbers, one more behind them, and one less before them.
LEMMA NumbersType ==
  ASSUME NEW a \in Nat, NEW n \in Nat
  PROVE  Numbers(a, n) \in Seq(Nat) /\ Len(Numbers(a, n)) = n
<1>1. Numbers(a, n) \in [1 .. n -> Nat]
  BY DEF Numbers
<1>2. ASSUME NEW f \in [1 .. n -> Nat] PROVE f \in Seq(Nat) /\ Len(f) = n
  <2>1. f \in Seq(Nat)
    BY SeqDef
  <2>2. DOMAIN f = 1 .. n /\ DOMAIN f = 1 .. Len(f) /\ Len(f) \in Nat
    BY <2>1, LenProperties
  <2> QED
    BY <2>1, <2>2
<1> QED
  BY <1>1, <1>2, Zenon

LEMMA NumbersAppend ==
  ASSUME NEW a \in Nat, NEW n \in Nat
  PROVE  Append(Numbers(a, n), a + n + 1) = Numbers(a, n + 1)
<1>1. /\ Numbers(a, n) \in Seq(Nat) /\ Len(Numbers(a, n)) = n
      /\ Numbers(a, n + 1) \in Seq(Nat) /\ Len(Numbers(a, n + 1)) = n + 1
  <2>1. n + 1 \in Nat
    OBVIOUS
  <2> QED
    BY <2>1, NumbersType, Zenon
<1>2. /\ Append(Numbers(a, n), a + n + 1) \in Seq(Nat)
      /\ Len(Append(Numbers(a, n), a + n + 1)) = n + 1
  BY <1>1, AppendProperties
<1>3. ASSUME NEW i \in 1 .. n + 1
      PROVE  Append(Numbers(a, n), a + n + 1)[i] = Numbers(a, n + 1)[i]
  BY <1>1, AppendProperties DEF Numbers
<1> QED
  BY <1>1, <1>2, <1>3, SeqEqual

LEMMA NumbersTail ==
  ASSUME NEW a \in Nat, NEW n \in Nat, n > 0
  PROVE  Head(Numbers(a, n)) = a + 1 /\ Tail(Numbers(a, n)) = Numbers(a + 1, n - 1)
<1>1. /\ Numbers(a, n) \in Seq(Nat) /\ Len(Numbers(a, n)) = n
      /\ Numbers(a + 1, n - 1) \in Seq(Nat) /\ Len(Numbers(a + 1, n - 1)) = n - 1
  <2>1. n - 1 \in Nat /\ a + 1 \in Nat
    OBVIOUS
  <2> QED
    BY <2>1, NumbersType, Zenon
<1>2. Numbers(a, n) # <<>>
  BY <1>1
<1>3. /\ Tail(Numbers(a, n)) \in Seq(Nat) /\ Len(Tail(Numbers(a, n))) = n - 1
      /\ \A i \in 1 .. n - 1 : Tail(Numbers(a, n))[i] = Numbers(a, n)[i + 1]
      /\ Head(Numbers(a, n)) = Numbers(a, n)[1]
  BY <1>1, <1>2, HeadTailProperties
<1>4. ASSUME NEW i \in 1 .. n - 1
      PROVE  Tail(Numbers(a, n))[i] = Numbers(a + 1, n - 1)[i]
  BY <1>3 DEF Numbers
<1>5. Numbers(a, n)[1] = a + 1
  BY DEF Numbers
<1> QED
  BY <1>1, <1>3, <1>4, <1>5, SeqEqual

\* What lengths and numbers a stream has.
LEMMA TypesOfStream ==
  ASSUME FilmThread, NEW s \in Film!Streams
  PROVE  /\ s \in Nat \ {0} /\ Packets[s] \in Nat /\ left[s] \in Nat
         /\ decDelay[s] \in Nat /\ encDelay[s] \in Nat
         /\ Len(written[s]) \in Nat /\ Len(encoder[s]) \in Nat /\ Len(decoder[s]) \in Nat
         /\ ToDecode(s) \in 0 .. 1 /\ ToEncode(s) \in 0 .. 1 /\ ToWrite(s) \in 0 .. 1
         /\ Encoded(s) \in Nat /\ Decoded(s) \in Nat
<1>a. s \in 1 .. Len(Kind) /\ Len(Kind) \in Nat /\ Packets \in [Film!Streams -> Nat]
  BY FilmConstants, Zenon
<1>b. s \in Nat \ {0}
  BY <1>a
<1>c. Packets[s] \in Nat
  BY <1>a
<1>d. left[s] \in Nat /\ decDelay[s] \in Nat /\ encDelay[s] \in Nat
  BY DEF FilmThread
<1>2. written[s] \in Seq(Nat) /\ encoder[s] \in Seq(Nat) /\ decoder[s] \in Seq(Nat)
  BY DEF FilmThread
<1>3. Len(written[s]) \in Nat /\ Len(encoder[s]) \in Nat /\ Len(decoder[s]) \in Nat
  BY <1>2, LenProperties
<1>4. ToDecode(s) \in 0 .. 1 /\ ToEncode(s) \in 0 .. 1 /\ ToWrite(s) \in 0 .. 1
  BY DEF ToDecode, ToEncode, ToWrite
<1>5. Encoded(s) \in Nat /\ Decoded(s) \in Nat
  BY <1>3, <1>4 DEF Encoded, Decoded
<1> QED
  BY <1>b, <1>c, <1>d, <1>3, <1>4, <1>5

\* A step that leaves a stream alone.
LEMMA KeepsOrder ==
  ASSUME FilmThread, NEW s \in Film!Streams, InOrderOf(s),
         UNCHANGED <<decDelay, encDelay>>,
         written'[s] = written[s], encoder'[s] = encoder[s], decoder'[s] = decoder[s],
         left'[s] = left[s],
         ToWrite(s)' = ToWrite(s), ToEncode(s)' = ToEncode(s),
         ToDecode(s)' = ToDecode(s) \/ failed',
         frame' = frame \/ (ToWrite(s) = 0 /\ ToEncode(s) = 0),
         failed /\ thread \in {"trailer", "ended"} =>
           failed' /\ thread' \in {"trailer", "ended"},
         ~failed' => ~failed,
         ~failed' /\ flushing' => left[s] = 0 /\ (s < cur' => Len(encoder[s]) = 0)
  PROVE  InOrderOf(s)'
<1>1. Encoded(s)' = Encoded(s) /\ Decoded(s)' = Decoded(s)
  BY DEF Encoded, Decoded
<1> QED
  BY <1>1 DEF InOrderOf

\* A failure that ends the thread.
LEMMA GivesUp ==
  ASSUME FilmThread, NEW s \in Film!Streams, InOrderOf(s), failed', thread' \in {"trailer", "ended"},
         UNCHANGED <<decDelay, encDelay, written, encoder, decoder>>
  PROVE  InOrderOf(s)'
<1>1. ToWrite(s)' # 1 /\ ToEncode(s)' # 1
  BY DEF ToWrite, ToEncode
<1> QED
  BY <1>1 DEF InOrderOf

\* The steps of the main thread leave the frames alone.
LEMMA MainOrder ==
  ASSUME FilmInv, NEW s \in Film!Streams, Film!Setup \/ Film!LoopEvent
  PROVE  FilmThread' /\ InOrderOf(s)'
<1>0. FilmMain /\ FilmThread /\ InOrderOf(s)
  BY DEF FilmInv
<1> USE <1>0
<1>1. UNCHANGED <<decDelay, encDelay, cur, frame, flushing, left, decoder, encoder, written, failed>>
  BY DEF Film!Setup, Film!LoopEvent, Film!OpenInput, Film!OpenDecoders, Film!OpenEncoders,
         Film!WriteHeader, Film!InitFilters, Film!StartThread, Film!Join, Film!Destroy,
         Film!pipeVars
<1>2. UNCHANGED thread \/ (thread = "none" /\ thread' = "read")
  BY DEF Film!Setup, Film!LoopEvent, Film!OpenInput, Film!OpenDecoders, Film!OpenEncoders,
         Film!WriteHeader, Film!InitFilters, Film!StartThread, Film!Join, Film!Destroy,
         FilmMain, Working
<1>3. FilmThread'
  BY <1>1, <1>2 DEF FilmThread
<1>4. /\ ToWrite(s)' = ToWrite(s) /\ ToEncode(s)' = ToEncode(s) /\ ToDecode(s)' = ToDecode(s)
  BY <1>1, <1>2 DEF ToWrite, ToEncode, ToDecode
<1>5. ~failed' /\ flushing' => left[s] = 0 /\ (s < cur' => Len(encoder[s]) = 0)
  BY <1>1 DEF InOrderOf
<1>6. failed /\ thread \in {"trailer", "ended"} => failed' /\ thread' \in {"trailer", "ended"}
  BY <1>1, <1>2
<1> QED
  BY <1>1, <1>3, <1>4, <1>5, <1>6, KeepsOrder

LEMMA ReadOrder ==
  ASSUME FilmInv, NEW s \in Film!Streams, Film!Read
  PROVE  FilmThread' /\ InOrderOf(s)'
<1>0. FilmMain /\ FilmThread /\ InOrderOf(s)
  BY DEF FilmInv
<1> USE <1>0
<1>1. /\ thread = "read" /\ ~flushing /\ ~failed /\ graph = Film!Coded
      /\ UNCHANGED <<decDelay, encDelay, frame, decoder, encoder, written>>
  BY DEF Film!Read, Film!threadOnly, FilmThread, FilmMain, Working
<1>2. ToWrite(s) = 0 /\ ToEncode(s) = 0 /\ ToDecode(s) = 0
  BY <1>1 DEF ToWrite, ToEncode, ToDecode
<1>3. ASSUME NEW t \in Film!Streams, left[t] > 0,
             thread' = (IF t \in graph THEN "decode" ELSE "remux"), UNCHANGED <<failed, flushing>>,
             cur' = t, left' = [left EXCEPT ![t] = @ - 1]
      PROVE  FilmThread' /\ InOrderOf(s)'
  <2>1. t \in Nat \ {0} /\ left[t] \in Nat
    BY TypesOfStream, Zenon
  <2>2. left' \in [Film!Streams -> Nat]
    BY <1>3, <2>1, SMTT(30) DEF FilmThread
  <2>3. FilmThread'
    BY <1>1, <1>3, <2>1, <2>2 DEF FilmThread
  <2>4. CASE s = t
    <3>1. /\ ToDecode(s)' = 1 /\ ToWrite(s)' = 0 /\ ToEncode(s)' = 0
          /\ left'[s] = left[s] - 1 /\ ~failed' /\ ~flushing'
      BY <1>1, <1>3, <2>4 DEF ToWrite, ToEncode, ToDecode, FilmThread
    <3>2. Encoded(s)' = Encoded(s) /\ Decoded(s)' = Decoded(s)
      BY <1>1, <1>2, <3>1 DEF Encoded, Decoded
    <3>3. Decoded(s)' + Len(decoder[s]) + 1 + left'[s] = Packets[s]
      <4>1. Decoded(s) + Len(decoder[s]) + ToDecode(s) + left[s] = Packets[s]
        BY <1>1 DEF InOrderOf
      <4>2. Decoded(s) \in Nat /\ Len(decoder[s]) \in Nat /\ left[s] \in Nat
            /\ ToDecode(s) = 0
        BY <1>2, TypesOfStream
      <4> HIDE <1>0, <1>1, <1>2, <1>3, <2>1, <2>2, <2>3, <2>4
      <4>3. Decoded(s) + Len(decoder[s]) + 1 + (left[s] - 1) = Packets[s]
        BY <4>1, <4>2
      <4> QED
        BY <3>1, <3>2, <4>3
    <3> QED
      BY <1>1, <2>3, <3>1, <3>2, <3>3 DEF InOrderOf
  <2>5. CASE s # t
    <3>1. /\ ToDecode(s)' = 0 /\ ToWrite(s)' = 0 /\ ToEncode(s)' = 0
          /\ left'[s] = left[s] /\ ~failed' /\ ~flushing'
      BY <1>1, <1>3, <2>5 DEF ToWrite, ToEncode, ToDecode, FilmThread
    <3> QED
      BY <1>1, <1>2, <2>3, <3>1, KeepsOrder
  <2> QED
    BY <2>4, <2>5
<1>4. CASE /\ thread' = "flush" /\ flushing' = TRUE /\ cur' = 1 /\ UNCHANGED left
           /\ IF \A t \in Film!Streams : left[t] = 0 THEN UNCHANGED failed ELSE failed' = TRUE
  <2>0. failed' \in BOOLEAN
    <3>1. failed' = TRUE \/ failed' = failed
      BY <1>4, Zenon
    <3> QED
      BY <3>1 DEF FilmThread
  <2>1. FilmThread'
    BY <1>1, <1>4, <2>0 DEF FilmThread
  <2>2. ToWrite(s)' = 0 /\ ToEncode(s)' = 0 /\ ToDecode(s)' = 0
    BY <1>4 DEF ToWrite, ToEncode, ToDecode
  <2>3. s \in Nat \ {0}
    BY TypesOfStream
  <2>4. ~failed' => left[s] = 0
    BY <1>4
  <2>5. ~(s < 1)
    BY <2>3
  <2> QED
    BY <1>1, <1>2, <1>4, <2>1, <2>2, <2>4, <2>5, KeepsOrder
<1> QED
  BY <1>3, <1>4 DEF Film!Read, Film!Succeeds, Film!Fails

LEMMA RemuxOrder ==
  ASSUME FilmInv, NEW s \in Film!Streams, Film!Remux
  PROVE  FilmThread' /\ InOrderOf(s)'
<1>0. FilmMain /\ FilmThread /\ InOrderOf(s)
  BY DEF FilmInv
<1> USE <1>0
<1>1. /\ thread = "remux" /\ ~flushing /\ ~failed /\ cur \in Film!Streams \ Film!Coded
      /\ UNCHANGED <<decDelay, encDelay, cur, frame, flushing, left, decoder, encoder>>
  BY DEF Film!Remux, Film!threadOnly, FilmThread
<1>2. CASE thread' = "ended" /\ failed' = TRUE /\ UNCHANGED written
  <2>1. FilmThread'
    BY <1>1, <1>2 DEF FilmThread
  <2> QED
    BY <1>1, <1>2, <2>1, GivesUp
<1>3. CASE /\ thread' = "read" /\ UNCHANGED failed
           /\ written' = [written EXCEPT ![cur] = Append(@, Packets[cur] - left[cur])]
  <2>1. ToWrite(s) = 0 /\ ToEncode(s) = 0 /\ ToWrite(s)' = 0 /\ ToEncode(s)' = 0 /\ ToDecode(s)' = 0
    BY <1>1, <1>3 DEF ToWrite, ToEncode, ToDecode
  <2>2. CASE s = cur
    <3>1. ToDecode(s) = 1 /\ Len(encoder[s]) = 0 /\ Len(decoder[s]) = 0
      BY <1>1, <2>2 DEF ToDecode, InOrderOf
    <3>2. Packets[s] - left[s] = Len(written[s]) + 1
      BY <1>1, <2>1, <3>1, TypesOfStream DEF InOrderOf, Decoded, Encoded
    <3>3. written'[s] = Numbers(0, Len(written[s]) + 1)
      <4>1. written'[s] = Append(written[s], Len(written[s]) + 1)
        BY <1>3, <2>2, <3>2 DEF FilmThread
      <4>2. written[s] = Numbers(0, Len(written[s])) /\ Len(written[s]) \in Nat
        BY TypesOfStream DEF InOrderOf
      <4>3. Append(Numbers(0, Len(written[s])), 0 + Len(written[s]) + 1)
              = Numbers(0, Len(written[s]) + 1)
        BY <4>2, NumbersAppend, Zenon
      <4>4. 0 + Len(written[s]) + 1 = Len(written[s]) + 1
        BY <4>2
      <4> QED
        BY <4>1, <4>2, <4>3, <4>4, Zenon
    <3>4. Len(written[s]) + 1 \in Nat /\ 0 \in Nat
      BY TypesOfStream
    <3>5. written'[s] \in Seq(Nat) /\ Len(written'[s]) = Len(written[s]) + 1
      BY <3>3, <3>4, NumbersType, Zenon
    <3>6. FilmThread'
      BY <1>1, <1>3, <2>2, <3>5 DEF FilmThread
    <3>7. Encoded(s)' = Encoded(s) + 1 /\ Decoded(s)' = Decoded(s) + 1
      <4>1. Len(written[s]) \in Nat /\ Len(encoder[s]) = 0
        BY <3>1, TypesOfStream
      <4>2. Encoded(s) = Len(written[s]) /\ Encoded(s)' = Len(written[s]) + 1
        BY <2>1, <3>5, <4>1 DEF Encoded
      <4>3. Decoded(s) = Encoded(s) /\ Decoded(s)' = Encoded(s)'
        BY <1>1, <2>1, <4>1, <4>2 DEF Decoded
      <4> QED
        BY <4>2, <4>3
    <3>8. encoder[s] = Numbers(Encoded(s)', 0) /\ decoder[s] = Numbers(Decoded(s)', 0)
      BY <3>1, <1>1 DEF InOrderOf, Numbers
    <3>9. Decoded(s)' + Len(decoder[s]) + 0 + left[s] = Packets[s]
      BY <1>1, <3>1, <3>7, TypesOfStream DEF InOrderOf
    <3> QED
      BY <1>1, <1>3, <2>1, <3>1, <3>3, <3>5, <3>6, <3>8, <3>9 DEF InOrderOf
  <2>3. CASE s # cur
    <3>1. ToDecode(s) = 0 /\ written'[s] = written[s]
      BY <1>3, <2>3 DEF ToDecode, FilmThread
    <3>2. written' \in [Film!Streams -> Seq(Nat)]
      <4>1. Decoded(cur) + Len(decoder[cur]) + ToDecode(cur) + left[cur] = Packets[cur]
        BY <1>1 DEF FilmInv, InOrderOf
      <4>2. /\ Decoded(cur) \in Nat /\ Len(decoder[cur]) \in Nat /\ left[cur] \in Nat
            /\ ToDecode(cur) \in Nat /\ Packets[cur] \in Nat
        BY <1>1, TypesOfStream
      <4>3. Packets[cur] - left[cur] \in Nat
        BY <4>1, <4>2
      <4>4. written[cur] \in Seq(Nat)
        BY <1>1 DEF FilmThread
      <4> QED
        BY <1>1, <1>3, <4>3, <4>4, SMTT(30) DEF FilmThread
    <3>3. FilmThread'
      BY <1>1, <1>3, <3>2 DEF FilmThread
    <3> QED
      BY <1>1, <1>3, <2>1, <3>1, <3>3, KeepsOrder
  <2> QED
    BY <2>2, <2>3
<1> QED
  BY <1>2, <1>3 DEF Film!Remux, Film!Succeeds, Film!Fails

LEMMA DecodeOrder ==
  ASSUME FilmInv, NEW s \in Film!Streams, Film!Decode
  PROVE  FilmThread' /\ InOrderOf(s)'
<1>0. FilmMain /\ FilmThread /\ InOrderOf(s)
  BY DEF FilmInv
<1> USE <1>0
<1>1. /\ thread = "decode" /\ ~flushing /\ ~failed /\ cur \in Film!Coded /\ cur \in Film!Streams
      /\ UNCHANGED <<decDelay, encDelay, left, encoder, written>>
  BY FilmConstants DEF Film!Decode, Film!threadOnly, FilmThread
<1>2. ToWrite(s) = 0 /\ ToEncode(s) = 0
  BY <1>1 DEF ToWrite, ToEncode
<1>3. CASE thread' = "flush" /\ failed' = TRUE /\ flushing' = TRUE /\ cur' = 1
           /\ UNCHANGED <<frame, decoder>>
  <2>1. FilmThread'
    <3>1. cur' \in Nat \ {0} /\ flushing' \in BOOLEAN /\ failed' \in BOOLEAN
      BY <1>3
    <3> QED
      BY <1>1, <1>3, <3>1 DEF FilmThread
  <2>2. ToWrite(s)' = 0 /\ ToEncode(s)' = 0
    BY <1>3 DEF ToWrite, ToEncode
  <2> QED
    BY <1>1, <1>2, <1>3, <2>1, <2>2, KeepsOrder
<1> DEFINE D == Decoded(cur)
           n == Len(decoder[cur])
           fed == Append(decoder[cur], Packets[cur] - left[cur])
<1>4. D \in Nat /\ n \in Nat /\ fed = Numbers(D, n + 1) /\ n <= decDelay[cur]
  <2>1. D \in Nat /\ n \in Nat /\ left[cur] \in Nat /\ Packets[cur] \in Nat
    BY <1>1, TypesOfStream
  <2>2. /\ D + n + ToDecode(cur) + left[cur] = Packets[cur] /\ decoder[cur] = Numbers(D, n)
        /\ n <= decDelay[cur]
    BY <1>1 DEF FilmInv, InOrderOf
  <2>3. ToDecode(cur) = 1
    BY <1>1 DEF ToDecode
  <2> HIDE DEF D, n
  <2>4. Packets[cur] - left[cur] = D + n + 1
    <3> HIDE <1>0, <1>1, <1>2, <1>3
    <3> QED
      BY <2>1, <2>2, <2>3
  <2> QED
    BY <2>1, <2>2, <2>4, NumbersAppend, Zenon
<1> HIDE DEF D, n, fed
<1>5. Len(fed) = n + 1 /\ Head(fed) = D + 1 /\ Tail(fed) = Numbers(D + 1, n)
  <2>1. n + 1 \in Nat /\ n + 1 > 0 /\ (n + 1) - 1 = n
    BY <1>4
  <2> QED
    BY <1>4, <2>1, NumbersType, NumbersTail, Zenon
<1>6. CASE /\ Len(fed) > decDelay[cur] /\ thread' = "filter" /\ frame' = Head(fed)
           /\ decoder' = [decoder EXCEPT ![cur] = Tail(fed)]
           /\ UNCHANGED <<cur, flushing, failed>>
  <2>1. Tail(fed) \in Seq(Nat) /\ Len(Tail(fed)) = n /\ frame' \in Nat /\ frame' = D + 1
    <3>1. D + 1 \in Nat
      BY <1>4
    <3>2. Numbers(D + 1, n) \in Seq(Nat) /\ Len(Numbers(D + 1, n)) = n
      BY <1>4, <3>1, NumbersType, Zenon
    <3> QED
      BY <1>5, <1>6, <3>1, <3>2
  <2>2. FilmThread'
    BY <1>1, <1>6, <2>1 DEF FilmThread
  <2>3. ToWrite(s)' = 0 /\ (s # cur => ToEncode(s)' = 0 /\ ToDecode(s)' = 0 /\ ToDecode(s) = 0)
    BY <1>1, <1>6 DEF ToWrite, ToEncode, ToDecode
  <2>4. CASE s = cur
    <3>1. ToEncode(s)' = 1 /\ ToDecode(s)' = 0 /\ decoder'[s] = Tail(fed) /\ ToDecode(s) = 1
      BY <1>1, <1>6, <2>4 DEF ToEncode, ToDecode, FilmThread
    <3>2. Encoded(s)' = Encoded(s) /\ Decoded(s)' = D + 1
      BY <1>1, <1>2, <2>3, <2>4, <3>1, TypesOfStream DEF Encoded, Decoded, D
    <3>3. decoder'[s] = Numbers(Decoded(s)', Len(decoder'[s])) /\ Len(decoder'[s]) = n
      BY <1>5, <2>1, <3>1, <3>2
    <3>4. D + n + 1 + left[s] = Packets[s]
      BY <1>1, <2>4, <3>1 DEF InOrderOf, D, n
    <3>5. Decoded(s)' + Len(decoder'[s]) + 0 + left[s] = Packets[s]
      <4>1. D \in Nat /\ n \in Nat /\ left[s] \in Nat /\ Packets[s] \in Nat
        BY <1>4, TypesOfStream
      <4>2. (D + 1) + n + 0 + left[s] = Packets[s]
        <5> HIDE <1>0, <1>1, <1>2, <1>3, <1>4, <1>5, <1>6
        <5> QED
          BY <3>4, <4>1
      <4> QED
        BY <3>2, <3>3, <4>2
    <3>6. /\ written'[s] = written[s] /\ encoder'[s] = encoder[s] /\ left'[s] = left[s]
          /\ Len(decoder'[s]) <= decDelay'[s] /\ frame' = Decoded(s)' /\ s \in Film!Coded
          /\ ~failed' /\ ~flushing' /\ encDelay'[s] = encDelay[s]
          /\ ToWrite(s)' # 1
      BY <1>1, <1>4, <1>6, <2>1, <2>3, <2>4, <3>2, <3>3
    <3>7. Decoded(s)' + Len(decoder'[s]) + ToDecode(s)' + left'[s] = Packets[s]
      BY <3>1, <3>5, <3>6
    <3> QED
      BY <1>1, <2>2, <3>2, <3>3, <3>6, <3>7 DEF InOrderOf
  <2>5. CASE s # cur
    <3>1. decoder'[s] = decoder[s]
      BY <1>6, <2>5 DEF FilmThread
    <3> QED
      BY <1>1, <1>2, <1>6, <2>2, <2>3, <2>5, <3>1, KeepsOrder
  <2> QED
    BY <2>4, <2>5
<1>7. CASE /\ ~(Len(fed) > decDelay[cur]) /\ thread' = "read" /\ frame' = 0
           /\ decoder' = [decoder EXCEPT ![cur] = fed]
           /\ UNCHANGED <<cur, flushing, failed>>
  <2>1. fed \in Seq(Nat)
    <3>1. n + 1 \in Nat
      BY <1>4
    <3> QED
      BY <1>4, <3>1, NumbersType, Zenon
  <2>2. FilmThread'
    BY <1>1, <1>7, <2>1 DEF FilmThread
  <2>3. ToWrite(s)' = 0 /\ ToEncode(s)' = 0 /\ ToDecode(s)' = 0 /\ (s # cur => ToDecode(s) = 0)
    BY <1>1, <1>7 DEF ToWrite, ToEncode, ToDecode
  <2>4. CASE s = cur
    <3>1. decoder'[s] = fed /\ ToDecode(s) = 1
      BY <1>1, <1>7, <2>4 DEF ToDecode, FilmThread
    <3>2. Encoded(s)' = Encoded(s) /\ Decoded(s)' = D
      BY <1>1, <1>2, <2>3, <2>4 DEF Encoded, Decoded, D
    <3>3. decoder'[s] = Numbers(Decoded(s)', Len(decoder'[s])) /\ Len(decoder'[s]) = n + 1
      BY <1>4, <1>5, <3>1, <3>2
    <3>4. D + n + 1 + left[s] = Packets[s]
      BY <1>1, <2>4, <3>1 DEF InOrderOf, D, n
    <3>5. Decoded(s)' + Len(decoder'[s]) + 0 + left[s] = Packets[s]
      <4>1. D \in Nat /\ n \in Nat /\ left[s] \in Nat /\ Packets[s] \in Nat
        BY <1>4, TypesOfStream
      <4>2. D + (n + 1) + 0 + left[s] = Packets[s]
        <5> HIDE <1>0, <1>1, <1>2, <1>3, <1>4, <1>5, <1>7
        <5> QED
          BY <3>4, <4>1
      <4> QED
        BY <3>2, <3>3, <4>2
    <3>6. Len(decoder'[s]) <= decDelay[s]
      BY <1>4, <1>5, <1>7, <2>4, <3>1, TypesOfStream
    <3> QED
      BY <1>1, <1>2, <1>7, <2>2, <2>3, <2>4, <3>1, <3>2, <3>3, <3>5, <3>6 DEF InOrderOf
  <2>5. CASE s # cur
    <3>1. decoder'[s] = decoder[s]
      BY <1>7, <2>5 DEF FilmThread
    <3> QED
      BY <1>1, <1>2, <1>7, <2>2, <2>3, <2>5, <3>1, KeepsOrder
  <2> QED
    BY <2>4, <2>5
<1>8. \/ <1>3!1 \/ <1>6!1 \/ <1>7!1
  BY <1>1 DEF Film!Decode, Film!Succeeds, Film!Fails, fed
<1> QED
  BY <1>3, <1>6, <1>7, <1>8

LEMMA FilterOrder ==
  ASSUME FilmInv, NEW s \in Film!Streams, Film!Filter
  PROVE  FilmThread' /\ InOrderOf(s)'
<1>0. FilmMain /\ FilmThread /\ InOrderOf(s)
  BY DEF FilmInv
<1> USE <1>0
<1>1. /\ thread = "filter" /\ ~flushing /\ ~failed /\ cur \in Film!Coded /\ cur \in Film!Streams
      /\ UNCHANGED <<decDelay, encDelay, cur, frame, flushing, left, decoder, encoder, written>>
  BY FilmConstants DEF Film!Filter, Film!threadOnly, Film!pipeVars, FilmThread
<1>2. CASE thread' = "ended" /\ failed' = TRUE
  <2>1. FilmThread'
    BY <1>1, <1>2 DEF FilmThread
  <2> QED
    BY <1>1, <1>2, <2>1, GivesUp
<1>3. CASE thread' = "encode" /\ UNCHANGED failed
  <2>1. frame # 0
    <3>1. ToEncode(cur) = 1
      BY <1>1 DEF ToEncode
    <3>2. frame = Encoded(cur) + Len(encoder[cur]) + 1
      BY <1>1, <3>1 DEF FilmInv, InOrderOf, Decoded
    <3>3. Encoded(cur) \in Nat /\ Len(encoder[cur]) \in Nat
      BY <1>1, TypesOfStream
    <3> QED
      BY <3>2, <3>3
  <2>2. FilmThread'
    BY <1>1, <1>3, <2>1 DEF FilmThread
  <2>3. ToWrite(s)' = ToWrite(s) /\ ToEncode(s)' = ToEncode(s) /\ ToDecode(s)' = ToDecode(s)
    BY <1>1, <1>3 DEF ToWrite, ToEncode, ToDecode
  <2> QED
    BY <1>1, <1>3, <2>2, <2>3, KeepsOrder
<1> QED
  BY <1>2, <1>3 DEF Film!Filter, Film!Succeeds, Film!Fails

\* Writing: the frame in hand is the next one of its stream.
LEMMA WriteOrder ==
  ASSUME FilmInv, NEW s \in Film!Streams, Film!Write
  PROVE  FilmThread' /\ InOrderOf(s)'
<1>0. FilmMain /\ FilmThread /\ InOrderOf(s)
  BY DEF FilmInv
<1> USE <1>0
<1>1. /\ thread = "write" /\ cur \in Film!Coded /\ cur \in Film!Streams /\ frame' = 0
      /\ UNCHANGED <<decDelay, encDelay, cur, flushing, left, decoder, encoder>>
  BY FilmConstants DEF Film!Write, Film!threadOnly, FilmThread
<1>2. CASE thread' = (IF flushing THEN "trailer" ELSE "ended") /\ failed' = TRUE /\ UNCHANGED written
  <2>1. FilmThread'
    BY <1>1, <1>2 DEF FilmThread
  <2> QED
    BY <1>1, <1>2, <2>1, GivesUp
<1>3. CASE /\ thread' = (IF flushing THEN "encode" ELSE "read") /\ UNCHANGED failed
           /\ written' = [written EXCEPT ![cur] = Append(@, frame)]
  <2>1. written[cur] \in Seq(Nat) /\ frame \in Nat
    BY <1>1 DEF FilmThread
  <2>2. written' \in [Film!Streams -> Seq(Nat)]
    BY <1>1, <1>3, <2>1 DEF FilmThread
  <2>3. failed => flushing
    BY <1>1 DEF FilmThread
  <2>4. FilmThread'
    BY <1>1, <1>3, <2>2, <2>3 DEF FilmThread
  <2>5. /\ ToEncode(s) = 0 /\ ToDecode(s) = 0
        /\ ToWrite(s)' = 0 /\ ToEncode(s)' = 0 /\ ToDecode(s)' = 0
    BY <1>1, <1>3 DEF ToWrite, ToEncode, ToDecode
  <2>6. CASE s = cur
    <3>1. ToWrite(s) = 1 /\ Len(written[s]) \in Nat
      BY <1>1, <2>6, TypesOfStream DEF ToWrite
    <3>2. frame = Len(written[s]) + 1
      BY <3>1 DEF InOrderOf, Encoded
    <3>3. written'[s] = Append(written[s], frame)
      BY <1>3, <2>6 DEF FilmThread
    <3>4. written[s] = Numbers(0, Len(written[s]))
      BY DEF InOrderOf
    <3>5. 0 + Len(written[s]) + 1 = Len(written[s]) + 1 /\ Len(written[s]) + 1 \in Nat /\ 0 \in Nat
      BY <3>1
    <3>6. Append(Numbers(0, Len(written[s])), 0 + Len(written[s]) + 1)
            = Numbers(0, Len(written[s]) + 1)
      BY <3>1, <3>5, NumbersAppend, Zenon
    <3>7. written'[s] = Numbers(0, Len(written[s]) + 1)
      BY <3>2, <3>3, <3>4, <3>5, <3>6, Zenon
    <3>8. Len(written'[s]) = Len(written[s]) + 1
      BY <3>5, <3>7, NumbersType, Zenon
    <3>9. Encoded(s)' = Encoded(s)
      BY <2>5, <3>1, <3>8 DEF Encoded
    <3>10. Decoded(s)' = Decoded(s)
      BY <1>1, <2>5, <3>9 DEF Decoded
    <3>11. encoder[s] = Numbers(Encoded(s), Len(encoder[s]))
      BY <1>1 DEF InOrderOf
    <3>12. /\ ~failed => decoder[s] = Numbers(Decoded(s), Len(decoder[s]))
           /\ ~failed => Decoded(s) + Len(decoder[s]) + 0 + left[s] = Packets[s]
      BY <2>5 DEF InOrderOf
    <3>13. /\ Len(decoder[s]) <= decDelay[s] /\ Len(encoder[s]) <= encDelay[s]
           /\ s \notin Film!Coded => Len(decoder[s]) = 0 /\ Len(encoder[s]) = 0
           /\ ~failed /\ flushing => left[s] = 0 /\ (s < cur => Len(encoder[s]) = 0)
      BY DEF InOrderOf
    <3>14. /\ encoder'[s] = encoder[s] /\ decoder'[s] = decoder[s] /\ left'[s] = left[s]
           /\ decDelay'[s] = decDelay[s] /\ encDelay'[s] = encDelay[s]
           /\ failed' = failed /\ flushing' = flushing /\ cur' = cur
           /\ ToWrite(s)' # 1 /\ ToEncode(s)' # 1 /\ ToDecode(s)' = 0
           /\ written'[s] = Numbers(0, Len(written'[s]))
      BY <1>1, <1>3, <2>5, <3>7, <3>8
    <3>15. /\ encoder'[s] = Numbers(Encoded(s)', Len(encoder'[s]))
           /\ ~failed' => decoder'[s] = Numbers(Decoded(s)', Len(decoder'[s]))
           /\ ~failed' => Decoded(s)' + Len(decoder'[s]) + ToDecode(s)' + left'[s] = Packets[s]
      BY <3>9, <3>10, <3>11, <3>12, <3>14, Zenon
    <3>16. /\ Len(decoder'[s]) <= decDelay'[s] /\ Len(encoder'[s]) <= encDelay'[s]
           /\ s \notin Film!Coded => Len(decoder'[s]) = 0 /\ Len(encoder'[s]) = 0
           /\ ~failed' /\ flushing' => left'[s] = 0 /\ (s < cur' => Len(encoder'[s]) = 0)
      BY <3>13, <3>14, Zenon
    <3>17. InOrderOf(s)'
      BY <3>14, <3>15, <3>16, Zenon DEF InOrderOf
    <3> QED
      BY <2>4, <3>17
  <2>7. CASE s # cur
    <3>1. ToWrite(s) = 0 /\ written'[s] = written[s]
      BY <1>3, <2>7 DEF ToWrite, FilmThread
    <3>2. failed /\ thread \in {"trailer", "ended"} => failed' /\ thread' \in {"trailer", "ended"}
      BY <1>1
    <3>3. ~failed' /\ flushing' => left[s] = 0 /\ (s < cur' => Len(encoder[s]) = 0)
      BY <1>1, <1>3 DEF InOrderOf
    <3> QED
      BY <1>1, <1>3, <2>4, <2>5, <3>1, <3>2, <3>3, KeepsOrder
  <2> QED
    BY <2>6, <2>7
<1> QED
  BY <1>2, <1>3 DEF Film!Write, Film!Succeeds, Film!Fails, Film!NotWritten, Film!Written

\* The end: the encoders are emptied one after the other.
LEMMA FlushOrder ==
  ASSUME FilmInv, NEW s \in Film!Streams, Film!Flush \/ Film!WriteTrailer
  PROVE  FilmThread' /\ InOrderOf(s)'
<1>0. FilmMain /\ FilmThread /\ InOrderOf(s)
  BY DEF FilmInv
<1> USE <1>0
<1>1. /\ thread \in {"flush", "trailer"} /\ flushing
      /\ UNCHANGED <<decDelay, encDelay, flushing, left, decoder, encoder, written>>
  BY DEF Film!Flush, Film!WriteTrailer, Film!threadOnly, Film!pipeVars, FilmThread
<1>2. CASE Film!WriteTrailer
  <2>1. thread = "trailer" /\ thread' = "ended" /\ UNCHANGED <<cur, frame, failed>>
    BY <1>2 DEF Film!WriteTrailer, Film!pipeVars
  <2>2. FilmThread'
    BY <1>1, <2>1 DEF FilmThread
  <2>3. /\ ToWrite(s)' = ToWrite(s) /\ ToEncode(s)' = ToEncode(s) /\ ToDecode(s)' = ToDecode(s)
    BY <2>1 DEF ToWrite, ToEncode, ToDecode
  <2>4. ~failed' /\ flushing' => left[s] = 0 /\ (s < cur' => Len(encoder[s]) = 0)
    BY <1>1, <2>1 DEF InOrderOf
  <2> QED
    BY <1>1, <2>1, <2>2, <2>3, <2>4, KeepsOrder
<1>3. CASE Film!Flush
  <2>1. thread = "flush" /\ frame' = 0 /\ graph = Film!Coded /\ cur \in Nat \ {0}
    BY <1>3 DEF Film!Flush, FilmMain, Working, FilmThread
  <2>2. /\ ToWrite(s) = 0 /\ ToEncode(s) = 0 /\ ToDecode(s) = 0
    BY <2>1 DEF ToWrite, ToEncode, ToDecode
  <2>3. ASSUME thread' \in {"trailer", "encode", "flush"}
        PROVE  ToWrite(s)' = 0 /\ ToEncode(s)' = 0 /\ ToDecode(s)' = 0
    BY <1>1, <2>3 DEF ToWrite, ToEncode, ToDecode
  <2>4. ~failed /\ flushing => left[s] = 0 /\ (s < cur => Len(encoder[s]) = 0)
    BY DEF InOrderOf
  <2>5. CASE cur \notin Film!Streams /\ thread' = "trailer" /\ UNCHANGED <<cur, failed>>
    <3>1. FilmThread'
      BY <1>1, <2>1, <2>5 DEF FilmThread
    <3> QED
      BY <1>1, <2>1, <2>2, <2>3, <2>4, <2>5, <3>1, KeepsOrder
  <2>6. CASE cur \in graph /\ thread' = "encode" /\ UNCHANGED <<cur, failed>>
    <3>1. FilmThread'
      BY <1>1, <2>1, <2>6 DEF FilmThread
    <3> QED
      BY <1>1, <2>1, <2>2, <2>3, <2>4, <2>6, <3>1, KeepsOrder
  <2>7. CASE /\ cur \in Film!Streams /\ ~(cur \in graph /\ encDelay[cur] > 0)
             /\ thread' = "flush" /\ cur' = cur + 1 /\ UNCHANGED failed
    <3>1. FilmThread'
      BY <1>1, <2>1, <2>7, SMTT(30) DEF FilmThread
    <3>2. ASSUME s = cur PROVE Len(encoder[s]) = 0
      <4>1. Len(encoder[s]) <= encDelay[s] /\ (s \notin Film!Coded => Len(encoder[s]) = 0)
        BY DEF InOrderOf
      <4>2. Len(encoder[s]) \in Nat /\ encDelay[s] \in Nat
        BY TypesOfStream
      <4> QED
        BY <2>1, <2>7, <3>2, <4>1, <4>2
    <3>3. s < cur' => s < cur \/ s = cur
      <4>1. s \in Nat
        BY TypesOfStream
      <4> QED
        BY <2>1, <2>7, <4>1
    <3>4. ~failed' /\ flushing' => left[s] = 0 /\ (s < cur' => Len(encoder[s]) = 0)
      BY <1>1, <2>4, <2>7, <3>2, <3>3
    <3> QED
      BY <1>1, <2>1, <2>2, <2>3, <2>7, <3>1, <3>4, KeepsOrder
  <2>8. CASE thread' = "trailer" /\ failed' = TRUE /\ UNCHANGED cur
    <3>1. FilmThread'
      BY <1>1, <2>1, <2>8 DEF FilmThread
    <3> QED
      BY <1>1, <2>1, <2>2, <2>3, <2>8, <3>1, KeepsOrder
  <2> QED
    BY <1>3, <2>5, <2>6, <2>7, <2>8 DEF Film!Flush, Film!Succeeds, Film!Fails
<1> QED
  BY <1>2, <1>3

\* What the encoder gives, and keeps.
LEMMA EncodeOrder ==
  ASSUME FilmInv, NEW s \in Film!Streams, Film!Encode
  PROVE  FilmThread' /\ InOrderOf(s)'
<1>0. FilmMain /\ FilmThread /\ InOrderOf(s)
  BY DEF FilmInv
<1> USE <1>0
<1>1. /\ thread = "encode" /\ cur \in Film!Coded /\ cur \in Film!Streams /\ (frame = 0 <=> flushing)
      /\ UNCHANGED <<decDelay, encDelay, flushing, left, decoder, written>>
  BY FilmConstants DEF Film!Encode, Film!threadOnly, FilmThread
<1> DEFINE E == Encoded(cur)
           n == Len(encoder[cur])
           fed == IF frame = 0 THEN encoder[cur] ELSE Append(encoder[cur], frame)
           m == IF frame = 0 THEN n ELSE n + 1
<1>2. /\ E \in Nat /\ n \in Nat /\ m \in Nat /\ fed = Numbers(E, m)
      /\ n <= encDelay[cur] /\ encDelay[cur] \in Nat
  <2>1. E \in Nat /\ n \in Nat /\ encDelay[cur] \in Nat
    BY <1>1, TypesOfStream
  <2>2. encoder[cur] = Numbers(E, n) /\ n <= encDelay[cur]
    BY <1>1 DEF FilmInv, InOrderOf
  <2>3. frame # 0 => frame = E + n + 1
    <3>1. frame # 0 => ToEncode(cur) = 1
      BY <1>1 DEF ToEncode
    <3> QED
      BY <1>1, <3>1 DEF FilmInv, InOrderOf, Decoded
  <2> HIDE DEF E, n
  <2>4. frame # 0 => Append(encoder[cur], frame) = Numbers(E, n + 1)
    BY <2>1, <2>2, <2>3, NumbersAppend, Zenon
  <2>5. m \in Nat
    BY <2>1
  <2> QED
    BY <2>1, <2>2, <2>4, <2>5
<1>3. /\ Len(fed) = m /\ fed \in Seq(Nat)
      /\ m > 0 => /\ Head(fed) = E + 1 /\ Tail(fed) = Numbers(E + 1, m - 1)
                  /\ Tail(fed) \in Seq(Nat) /\ Len(Tail(fed)) = m - 1
  <2> HIDE DEF E, n, m, fed
  <2>1. E \in Nat /\ m \in Nat /\ fed = Numbers(E, m)
    BY <1>2, Zenon
  <2>2. Len(fed) = m /\ fed \in Seq(Nat)
    BY <2>1, NumbersType, Zenon
  <2>3. ASSUME m > 0
        PROVE  /\ Head(fed) = E + 1 /\ Tail(fed) = Numbers(E + 1, m - 1)
               /\ Tail(fed) \in Seq(Nat) /\ Len(Tail(fed)) = m - 1
    <3>1. m - 1 \in Nat /\ E + 1 \in Nat
      BY <2>1, <2>3
    <3>2. Head(fed) = E + 1 /\ Tail(fed) = Numbers(E + 1, m - 1)
      BY <2>1, <2>3, NumbersTail, Zenon
    <3>3. Numbers(E + 1, m - 1) \in Seq(Nat) /\ Len(Numbers(E + 1, m - 1)) = m - 1
      BY <3>1, NumbersType, Zenon
    <3> QED
      BY <3>2, <3>3
  <2> QED
    BY <2>2, <2>3
<1> HIDE DEF E, n, m, fed
<1>4. /\ ToWrite(s) = 0 /\ ToDecode(s) = 0 /\ (s # cur => ToEncode(s) = 0)
      /\ s = cur => ToEncode(s) = m - n /\ Decoded(s) = E + m
  <2>1. ToWrite(s) = 0 /\ ToDecode(s) = 0 /\ (s # cur => ToEncode(s) = 0)
    BY <1>1 DEF ToWrite, ToDecode, ToEncode
  <2>2. ASSUME s = cur PROVE ToEncode(s) = m - n
    BY <1>1, <1>2, <2>2 DEF ToEncode, m
  <2>3. ASSUME s = cur PROVE Decoded(s) = E + m
    BY <1>2, <2>2, <2>3 DEF Decoded, E, n
  <2> QED
    BY <2>1, <2>2, <2>3
<1>5. /\ ~failed => decoder[s] = Numbers(Decoded(s), Len(decoder[s]))
      /\ ~failed => Decoded(s) + Len(decoder[s]) + 0 + left[s] = Packets[s]
      /\ written[s] = Numbers(0, Len(written[s]))
      /\ Len(decoder[s]) <= decDelay[s]
      /\ ~failed /\ flushing => left[s] = 0 /\ (s < cur => Len(encoder[s]) = 0)
  BY <1>4 DEF InOrderOf
<1>6. CASE /\ thread' = (IF flushing THEN "trailer" ELSE "ended") /\ failed' = TRUE
           /\ UNCHANGED <<cur, frame, encoder>>
  <2>1. FilmThread'
    BY <1>1, <1>6 DEF FilmThread
  <2> QED
    BY <1>1, <1>6, <2>1, GivesUp
\* The encoder gives a packet.
<1>7. CASE /\ m > 0 /\ thread' = "write" /\ frame' = Head(fed) /\ UNCHANGED <<cur, failed>>
           /\ encoder' = [encoder EXCEPT ![cur] = Tail(fed)]
  <2>1. frame' = E + 1 /\ frame' \in Nat /\ Tail(fed) \in Seq(Nat)
    BY <1>2, <1>3, <1>7
  <2>2. FilmThread'
    BY <1>1, <1>7, <2>1 DEF FilmThread
  <2>3. ToEncode(s)' = 0 /\ ToDecode(s)' = 0 /\ (s # cur => ToWrite(s)' = 0)
    BY <1>7 DEF ToWrite, ToEncode, ToDecode
  <2>4. CASE s = cur
    <3>1. ToWrite(s)' = 1 /\ encoder'[s] = Tail(fed)
      BY <1>1, <1>7, <2>4 DEF ToWrite, FilmThread
    <3>2. Encoded(s)' = E + 1
      BY <1>1, <1>4, <2>4, <3>1, TypesOfStream DEF Encoded, E
    <3>3. encoder'[s] = Numbers(Encoded(s)', Len(encoder'[s])) /\ Len(encoder'[s]) = m - 1
      BY <1>3, <1>7, <3>1, <3>2
    <3>4. Decoded(s)' = E + m
      <4>1. Decoded(s)' = (E + 1) + (m - 1) + 0
        BY <2>3, <3>2, <3>3 DEF Decoded
      <4> QED
        BY <1>2, <4>1
    <3>5. Len(encoder'[s]) <= encDelay[s]
      BY <1>2, <2>4, <3>3 DEF m
    <3>6. ~failed /\ flushing /\ s < cur => Len(encoder'[s]) = 0
      <4>1. s \in Nat
        BY TypesOfStream
      <4> QED
        BY <2>4, <4>1
    <3> QED
      BY <1>1, <1>4, <1>5, <1>7, <2>1, <2>2, <2>3, <2>4, <3>1, <3>2, <3>3, <3>4, <3>5, <3>6
      DEF InOrderOf
  <2>5. CASE s # cur
    <3>1. encoder'[s] = encoder[s]
      BY <1>7, <2>5 DEF FilmThread
    <3> QED
      BY <1>1, <1>4, <1>5, <1>7, <2>2, <2>3, <2>5, <3>1, KeepsOrder
  <2> QED
    BY <2>4, <2>5
\* It waits for more, or has none left.
<1>8. CASE /\ m <= encDelay[cur] /\ (flushing => m = 0)
           /\ thread' = (IF flushing THEN "flush" ELSE "read")
           /\ cur' = (IF flushing THEN cur + 1 ELSE cur)
           /\ encoder' = [encoder EXCEPT ![cur] = fed]
           /\ UNCHANGED <<frame, failed>>
  <2>1. cur' \in Nat \ {0}
    BY <1>8 DEF FilmThread
  <2>2. failed => flushing
    BY <1>1 DEF FilmThread
  <2>3. FilmThread'
    BY <1>1, <1>3, <1>8, <2>1, <2>2 DEF FilmThread
  <2>4. ToEncode(s)' = 0 /\ ToDecode(s)' = 0 /\ ToWrite(s)' = 0
    BY <1>8 DEF ToWrite, ToEncode, ToDecode
  <2>5. CASE s = cur
    <3>1. encoder'[s] = fed
      BY <1>1, <1>8, <2>5 DEF FilmThread
    <3>2. Encoded(s)' = E
      BY <1>1, <1>4, <2>4, <2>5 DEF Encoded, E
    <3>3. encoder'[s] = Numbers(Encoded(s)', Len(encoder'[s])) /\ Len(encoder'[s]) = m
      BY <1>2, <1>3, <3>1, <3>2
    <3>4. Decoded(s)' = E + m
      <4>1. Decoded(s)' = E + m + 0
        BY <2>4, <3>2, <3>3 DEF Decoded
      <4> QED
        BY <1>2, <4>1
    <3>5. Len(encoder'[s]) <= encDelay[s] /\ (flushing => Len(encoder'[s]) = 0)
      BY <1>8, <2>5, <3>3
    <3> QED
      BY <1>1, <1>4, <1>5, <1>8, <2>3, <2>4, <2>5, <3>1, <3>2, <3>3, <3>4, <3>5
      DEF InOrderOf
  <2>6. CASE s # cur
    <3>1. encoder'[s] = encoder[s]
      BY <1>8, <2>6 DEF FilmThread
    <3>2. s < cur + 1 => s < cur
      <4>1. s \in Nat /\ cur \in Nat
        BY TypesOfStream DEF FilmThread
      <4> QED
        BY <2>6, <4>1
    <3>3. ~failed' /\ flushing' => left[s] = 0 /\ (s < cur' => Len(encoder[s]) = 0)
      BY <1>1, <1>5, <1>8, <3>2
    <3> QED
      BY <1>1, <1>4, <1>8, <2>3, <2>4, <2>6, <3>1, <3>3, KeepsOrder
  <2> QED
    BY <2>5, <2>6
<1>9. CASE /\ encoder' = [encoder EXCEPT
                            ![cur] = IF (IF frame = 0 THEN fed # <<>> ELSE Len(fed) > encDelay[cur])
                                       THEN Tail(fed) ELSE fed]
           /\ IF (IF frame = 0 THEN fed # <<>> ELSE Len(fed) > encDelay[cur])
                THEN thread' = "write" /\ UNCHANGED failed /\ frame' = Head(fed) /\ UNCHANGED cur
                ELSE /\ thread' = (IF flushing THEN "flush" ELSE "read") /\ UNCHANGED failed
                     /\ cur' = (IF flushing THEN cur + 1 ELSE cur)
                     /\ UNCHANGED frame
  <2>1. CASE IF frame = 0 THEN fed # <<>> ELSE Len(fed) > encDelay[cur]
    <3>1. m > 0
      <4>1. CASE frame = 0
        BY <1>2, <1>3, <2>1, <4>1, EmptySeq
      <4>2. CASE frame # 0
        BY <1>2, <1>3, <2>1, <4>2
      <4> QED
        BY <4>1, <4>2
    <3> QED
      BY <1>7, <1>9, <2>1, <3>1
  <2>2. CASE ~(IF frame = 0 THEN fed # <<>> ELSE Len(fed) > encDelay[cur])
    <3>1. m <= encDelay[cur] /\ (flushing => m = 0)
      <4>1. CASE frame = 0
        BY <1>2, <1>3, <2>2, <4>1, EmptySeq
      <4>2. CASE frame # 0
        BY <1>1, <1>2, <1>3, <2>2, <4>2
      <4> QED
        BY <4>1, <4>2
    <3> QED
      BY <1>8, <1>9, <2>2, <3>1
  <2> QED
    BY <2>1, <2>2
<1> QED
  <2>1. \/ Film!Fails(Film!NotWritten) /\ UNCHANGED <<cur, frame, encoder>>
        \/ /\ encoder' = [encoder EXCEPT
                            ![cur] = IF (IF frame = 0 THEN fed # <<>> ELSE Len(fed) > encDelay[cur])
                                       THEN Tail(fed) ELSE fed]
           /\ IF (IF frame = 0 THEN fed # <<>> ELSE Len(fed) > encDelay[cur])
                THEN Film!Succeeds("write") /\ frame' = Head(fed) /\ UNCHANGED cur
                ELSE /\ Film!Succeeds(Film!NotGiven)
                     /\ cur' = (IF Film!NotGiven = "flush" THEN cur + 1 ELSE cur)
                     /\ UNCHANGED frame
    BY Zenon DEF Film!Encode, Film!Gives, fed
  <2>2. /\ Film!NotWritten = (IF flushing THEN "trailer" ELSE "ended")
        /\ Film!NotGiven = (IF flushing THEN "flush" ELSE "read")
        /\ Film!NotGiven = "flush" <=> flushing
    BY DEF Film!NotWritten, Film!NotGiven
  <2>3. CASE Film!Fails(Film!NotWritten) /\ UNCHANGED <<cur, frame, encoder>>
    BY <1>6, <2>2, <2>3 DEF Film!Fails
  <2> QED
    BY <1>9, <2>1, <2>2, <2>3 DEF Film!Succeeds

LEMMA FilmInit ==
  ASSUME Film!Init
  PROVE  FilmInv
<1>1. FilmMain
  <2>1. /\ main = "open_input" /\ stream_index = 1 /\ dec = {} /\ enc = {} /\ graph = {}
        /\ cleared = {} /\ lost = {} /\ thread = "none" /\ container = "none"
        /\ ~shown /\ ~crashed /\ shown \in BOOLEAN /\ crashed \in BOOLEAN
    BY DEF Film!Init
  <2> QED
    BY <2>1 DEF FilmMain, Working
<1>2. FilmThread
  <2>1. decDelay \in [Film!Streams -> Nat] /\ encDelay \in [Film!Streams -> Nat]
    BY FilmConstants DEF Film!Init
  <2>2. Film!Empty \in [Film!Streams -> Seq(Nat)]
    BY DEF Film!Empty
  <2>3. /\ left = Packets /\ decoder = Film!Empty /\ encoder = Film!Empty
        /\ written = Film!Empty /\ cur = 1 /\ frame = 0 /\ thread = "none"
        /\ ~flushing /\ ~failed /\ flushing \in BOOLEAN /\ failed \in BOOLEAN
    BY DEF Film!Init
  <2> QED
    BY <2>1, <2>2, <2>3, FilmConstants DEF FilmThread
<1>3. ASSUME NEW s \in Film!Streams PROVE InOrderOf(s)
  <2>1. written[s] = <<>> /\ encoder[s] = <<>> /\ decoder[s] = <<>>
    BY DEF Film!Init, Film!Empty
  <2>2. Len(written[s]) = 0 /\ Len(encoder[s]) = 0 /\ Len(decoder[s]) = 0
    BY <2>1, EmptySeq
  <2>3. ToWrite(s) = 0 /\ ToEncode(s) = 0 /\ ToDecode(s) = 0
    BY DEF Film!Init, ToWrite, ToEncode, ToDecode
  <2>4. Encoded(s) = 0 /\ Decoded(s) = 0
    BY <2>2, <2>3 DEF Encoded, Decoded
  <2>5. Numbers(0, 0) = <<>>
    BY DEF Numbers
  <2>6. Packets[s] \in Nat /\ left[s] = Packets[s] /\ ~flushing /\ ~failed
    BY FilmConstants DEF Film!Init
  <2>7. decDelay[s] \in Nat /\ encDelay[s] \in Nat
    BY <1>2, TypesOfStream
  <2>8. 0 + 0 + 0 + left[s] = Packets[s]
    BY <2>6
  <2>9. Len(decoder[s]) <= decDelay[s] /\ Len(encoder[s]) <= encDelay[s]
    BY <2>2, <2>7
  <2> QED
    BY <2>1, <2>2, <2>3, <2>4, <2>5, <2>6, <2>8, <2>9 DEF InOrderOf
<1> QED
  BY <1>1, <1>2, <1>3 DEF FilmInv

LEMMA FilmNext ==
  ASSUME FilmInv, Film!Next
  PROVE  FilmInv' /\ (written' # written => container = "header" /\ container' = "header")
<1>0. FilmMain /\ FilmThread
  BY DEF FilmInv
<1>1. FilmMain'
  BY <1>0, FilmMainNext
<1>2. FilmThread'
  <2>1. CASE Film!Streams = {}
    <3>1. CASE Film!Setup \/ Film!LoopEvent
      <4>1. UNCHANGED <<decDelay, encDelay, cur, frame, flushing, left, decoder, encoder,
                        written, failed>>
        BY <3>1 DEF Film!Setup, Film!LoopEvent, Film!OpenInput, Film!OpenDecoders,
               Film!OpenEncoders, Film!WriteHeader, Film!InitFilters, Film!StartThread,
               Film!Join, Film!Destroy, Film!pipeVars
      <4>2. UNCHANGED thread \/ (thread = "none" /\ thread' = "read")
        BY <1>0, <3>1 DEF Film!Setup, Film!LoopEvent, Film!OpenInput, Film!OpenDecoders,
               Film!OpenEncoders, Film!WriteHeader, Film!InitFilters, Film!StartThread,
               Film!Join, Film!Destroy, FilmMain, Working
      <4> QED
        BY <1>0, <4>1, <4>2 DEF FilmThread
    <3>2. CASE Film!decode_encode
      <4>1. Film!Coded = {}
        BY <2>1, FilmConstants
      <4>2. graph = {}
        BY <1>0, <4>1 DEF FilmMain
      <4>3. Film!Read \/ Film!Flush \/ Film!WriteTrailer
        BY <1>0, <2>1, <3>2, <4>1 DEF Film!decode_encode, FilmThread, Film!Remux, Film!Decode,
               Film!Filter, Film!Encode, Film!Write
      <4>4. CASE Film!Read
        <5>1. /\ thread = "read" /\ thread' = "flush" /\ flushing' = TRUE /\ cur' = 1
              /\ UNCHANGED <<left, failed, decDelay, encDelay, frame, decoder, encoder, written>>
          BY <2>1, <4>4 DEF Film!Read, Film!Succeeds, Film!threadOnly
        <5> QED
          BY <1>0, <5>1 DEF FilmThread
      <4>5. CASE Film!Flush
        <5>1. /\ thread = "flush" /\ thread' = "trailer" /\ frame' = 0
              /\ UNCHANGED <<cur, left, flushing, failed, decDelay, encDelay, decoder, encoder,
                             written>>
          BY <2>1, <4>2, <4>5 DEF Film!Flush, Film!Succeeds, Film!threadOnly
        <5> QED
          BY <1>0, <2>1, <5>1 DEF FilmThread
      <4>6. CASE Film!WriteTrailer
        <5>1. /\ thread = "trailer" /\ thread' = "ended"
              /\ UNCHANGED <<frame, cur, left, flushing, failed, decDelay, encDelay, decoder,
                             encoder, written>>
          BY <4>6 DEF Film!WriteTrailer, Film!threadOnly, Film!pipeVars
        <5> QED
          BY <1>0, <2>1, <5>1 DEF FilmThread
      <4> QED
        BY <4>3, <4>4, <4>5, <4>6
    <3> QED
      BY <3>1, <3>2 DEF Film!Next
  <2>2. CASE \E s : s \in Film!Streams
    <3>1. PICK s : s \in Film!Streams
      BY <2>2
    <3> QED
      BY <3>1, MainOrder, ReadOrder, RemuxOrder, DecodeOrder, FilterOrder, EncodeOrder,
         WriteOrder, FlushOrder DEF Film!Next, Film!decode_encode
  <2> QED
    BY <2>1, <2>2
<1>3. ASSUME NEW s \in Film!Streams PROVE InOrderOf(s)'
  BY MainOrder, ReadOrder, RemuxOrder, DecodeOrder, FilterOrder, EncodeOrder,
     WriteOrder, FlushOrder DEF Film!Next, Film!decode_encode
<1>4. written' # written => container = "header" /\ container' = "header"
  <2>1. CASE Film!Remux \/ Film!Write
    BY <1>0, <2>1 DEF Film!Remux, Film!Write, FilmMain, Working
  <2>2. CASE ~(Film!Remux \/ Film!Write)
    <3>1. UNCHANGED written
      BY <2>2 DEF Film!Next, Film!Setup, Film!LoopEvent, Film!OpenInput, Film!OpenDecoders,
             Film!OpenEncoders, Film!WriteHeader, Film!InitFilters, Film!StartThread,
             Film!Join, Film!Destroy, Film!pipeVars, Film!decode_encode, Film!Read,
             Film!Decode, Film!Filter, Film!Encode, Film!Flush, Film!WriteTrailer
    <3> QED
      BY <3>1
  <2> QED
    BY <2>1, <2>2
<1>5. Film!Streams' = Film!Streams
  BY DEF Film!Streams
<1> QED
  BY <1>1, <1>2, <1>3, <1>4, <1>5 DEF FilmInv

\* What the invariant says of the file and of the end.
LEMMA FilmCorrect ==
  ASSUME FilmInv
  PROVE  /\ Film!TypeOK /\ Film!NoGaps /\ Film!OnlyDecodersKeepFrames
         /\ Film!SafeTeardown
<1>1. FilmMain /\ FilmThread /\ \A s \in Film!Streams : InOrderOf(s)
  BY DEF FilmInv
<1>2. Film!TypeOK
  BY <1>1 DEF FilmMain, FilmThread, InOrderOf, Film!TypeOK
<1>3. Film!NoGaps
  <2>1. ASSUME NEW s \in Film!Streams
        PROVE  written[s] = [i \in 1 .. Len(written[s]) |-> i]
    <3>1. written[s] = Numbers(0, Len(written[s])) /\ Len(written[s]) \in Nat
      BY <1>1, TypesOfStream DEF InOrderOf
    <3>2. ASSUME NEW i \in 1 .. Len(written[s]) PROVE 0 + i = i
      BY <3>1
    <3> QED
      BY <3>1, <3>2 DEF Numbers
  <2> QED
    BY <2>1 DEF Film!NoGaps
<1>4. Film!OnlyDecodersKeepFrames
  <2>1. ASSUME container = "trailer", ~failed, NEW s \in Film!Streams
        PROVE  Len(written[s]) + (IF s \in Film!Coded THEN Len(decoder[s]) ELSE 0) = Packets[s]
    <3>1. thread = "ended" /\ flushing /\ cur \notin Film!Streams /\ cur \in Nat \ {0}
      BY <1>1, <2>1 DEF FilmMain, FilmThread
    <3>2. s < cur
      <4>1. s \in 1 .. Len(Kind) /\ cur \notin 1 .. Len(Kind) /\ Len(Kind) \in Nat
        BY <3>1, FilmConstants, Zenon
      <4> QED
        BY <3>1, <4>1
    <3>3. /\ left[s] = 0 /\ Len(encoder[s]) = 0
          /\ Decoded(s) + Len(decoder[s]) + ToDecode(s) + left[s] = Packets[s]
          /\ s \notin Film!Coded => Len(decoder[s]) = 0
      BY <1>1, <2>1, <3>1, <3>2 DEF InOrderOf
    <3>4. ToWrite(s) = 0 /\ ToEncode(s) = 0 /\ ToDecode(s) = 0
      BY <3>1 DEF ToWrite, ToEncode, ToDecode
    <3>5. Len(written[s]) \in Nat /\ Len(decoder[s]) \in Nat
      BY <1>1, TypesOfStream
    <3>6. Decoded(s) = Len(written[s])
      BY <3>3, <3>4, <3>5 DEF Decoded, Encoded
    <3>7. Len(written[s]) + Len(decoder[s]) = Packets[s]
      <4>1. Len(written[s]) + Len(decoder[s]) + 0 + 0 = Packets[s]
        BY <3>3, <3>4, <3>6, Zenon
      <4>2. ASSUME NEW a \in Nat, NEW b \in Nat PROVE a + b + 0 + 0 = a + b
        OBVIOUS
      <4> QED
        BY <3>5, <4>1, <4>2, Zenon
    <3> QED
      BY <3>3, <3>5, <3>7
  <2> QED
    BY <2>1 DEF Film!OnlyDecodersKeepFrames
<1>5. Film!SafeTeardown
  BY <1>1 DEF FilmMain, Working, Film!SafeTeardown
<1> QED
  BY <1>2, <1>3, <1>4, <1>5

-------------------------------------------------------------------------------
(* What FFmpegUtil uses, and when.                                         *)

\* Until SDL is started nothing calls back, until the filters are made nothing says they
\* are, and once the user has ended run nothing calls back any more.
UtilInv ==
  /\ file \in Files
  /\ device \in BOOLEAN /\ quit \in BOOLEAN /\ next \in Nat \ {0}
  /\ pc \in {"open_input_file", "open_output_file", "initAV"} => ~device
  /\ pc \in {"open_input_file", "open_output_file", "initAV", "dump", "init_filters"} =>
       filters = -1
  /\ quit => ~device /\ pc \in {"end", "returned", "destroyed", "crashed"}
  /\ GoodFileRuns

LEMMA StreamsOfFile ==
  ASSUME NEW f \in Files
  PROVE  Len(f.streams) \in Nat /\ Len(f.packets) \in Nat
         /\ \A i \in 1 .. Len(f.packets) : f.packets[i] \in 1 .. Len(f.streams)
<1>1. f.streams \in Seq(StreamTypes) /\ f.packets \in Seq(DOMAIN f.streams)
  BY FFmpegUtilAssumption
<1>2. Len(f.streams) \in Nat /\ DOMAIN f.streams = 1 .. Len(f.streams)
  BY <1>1, LenProperties
<1>3. Len(f.packets) \in Nat /\ \A i \in 1 .. Len(f.packets) : f.packets[i] \in DOMAIN f.streams
  BY <1>1, LenProperties, ElementOfSeq
<1> QED
  BY <1>2, <1>3

LEMMA UtilOpening ==
  ASSUME UtilInv, open_input_file \/ open_output_file \/ initAV \/ dump \/ init_filters
  PROVE  UtilInv' /\ UNCHANGED callback /\ pc' # "late" /\ ~quit
<1>0. Len(file.streams) \in Nat
  BY StreamsOfFile DEF UtilInv
<1>1. /\ UNCHANGED <<file, quit, next, callback>>
      /\ pc \in {"open_input_file", "open_output_file", "initAV", "dump", "init_filters"}
  BY DEF open_input_file, open_output_file, initAV, dump, init_filters, Opens
<1>2. ~quit /\ filters = -1
  BY <1>1 DEF UtilInv
<1>3. CASE open_input_file \/ open_output_file \/ initAV \/ dump
  <2>1. /\ pc' \in {"open_output_file", "initAV", "dump", "init_filters", "crashed"}
        /\ pc' \in {"open_output_file", "initAV"} => pc \in {"open_input_file", "open_output_file"}
        /\ device' = device \/ (pc = "initAV" /\ pc' = "dump" /\ device' \in BOOLEAN)
        /\ UNCHANGED filters
    BY <1>3 DEF open_input_file, open_output_file, initAV, dump, Opens
  <2>2. filters' # Len(file'.streams)
    BY <1>0, <1>1, <1>2, <2>1
  <2> QED
    BY <1>1, <1>2, <2>1, <2>2 DEF UtilInv, GoodFileRuns
<1>4. CASE init_filters
  <2>1. /\ pc' \in {"returned", "av_read_frame", "crashed"} /\ UNCHANGED device
        /\ pc' = "crashed" => UNCHANGED filters
    BY <1>4 DEF init_filters, Opens
  <2>2. pc' = "crashed" => filters' # Len(file'.streams)
    BY <1>0, <1>1, <1>2, <2>1
  <2> QED
    BY <1>1, <1>2, <2>1, <2>2 DEF UtilInv, GoodFileRuns
<1> QED
  BY <1>1, <1>2, <1>3, <1>4

LEMMA UtilRunning ==
  ASSUME UtilInv, Read \/ Convert \/ SetAudioLen \/ SetAudioPos \/ NoEvent \/ Quit \/ EndOfFile
                  \/ End \/ Destroy
  PROVE  UtilInv' /\ UNCHANGED callback /\ pc' # "late"
<1>1. UNCHANGED <<file, opened, filters, callback>> /\ (UNCHANGED next \/ next' = next + 1)
  BY DEF Read, Convert, SetAudioLen, SetAudioPos, NoEvent, Quit, EndOfFile, End, Destroy, Runs, setup
<1>2. CASE Read
  <2>1. /\ pc = "av_read_frame" /\ next <= Len(file.packets) /\ UNCHANGED <<output, device, quit>>
        /\ pc' \in {"SDL_PollEvent", "swr_convert", "crashed"}
        /\ next' = next + 1
        /\ pc' = "crashed" => \/ file.packets[next] > opened
                              \/ file.streams[file.packets[next]] = "other"
    BY <1>2 DEF Read, Runs, setup
  <2>2. next \in 1 .. Len(file.packets)
    BY <2>1, StreamsOfFile DEF UtilInv
  <2>3. file.packets[next] \in 1 .. Len(file.streams) /\ Len(file.streams) \in Nat
    BY <2>2, StreamsOfFile DEF UtilInv
  <2>4. pc' = "crashed" => \/ opened # Len(file.streams)
                            \/ \E i \in DOMAIN file.packets :
                                 i < next' /\ file.streams[file.packets[i]] = "other"
    <3>1. next \in DOMAIN file.packets /\ next < next'
      BY <2>1, <2>2, FFmpegUtilAssumption, LenProperties DEF UtilInv
    <3> QED
      BY <2>1, <2>3, <3>1
  <2>5. GoodFileRuns'
    BY <1>1, <2>4 DEF GoodFileRuns
  <2> QED
    BY <1>1, <2>1, <2>5 DEF UtilInv
<1>3. CASE Convert
  BY <1>1, <1>3 DEF Convert, Runs, setup, UtilInv, GoodFileRuns
<1>4. CASE SetAudioLen \/ SetAudioPos \/ NoEvent
  BY <1>1, <1>4 DEF SetAudioLen, SetAudioPos, NoEvent, Runs, setup, UtilInv, GoodFileRuns
<1>5. CASE Quit
  BY <1>1, <1>5 DEF Quit, SDL_Quit, Runs, setup, UtilInv, GoodFileRuns
<1>6. CASE EndOfFile
  BY <1>1, <1>6 DEF EndOfFile, NoHeader, UtilInv, GoodFileRuns
<1>7. CASE End
  BY <1>1, <1>7 DEF End, Runs, setup, UtilInv, GoodFileRuns
<1>8. CASE Destroy
  <2>1. /\ pc = "returned" /\ pc' \in {"destroyed", "crashed"} /\ UNCHANGED <<output, device, quit>>
        /\ pc' = "crashed" => filters < Len(file.streams)
    BY <1>8 DEF Destroy, Runs, setup
  <2>2. pc' = "crashed" => filters # Len(file.streams)
    BY <2>1, StreamsOfFile DEF UtilInv
  <2> QED
    BY <1>1, <2>1, <2>2 DEF UtilInv, GoodFileRuns
<1> QED
  BY <1>1, <1>2, <1>3, <1>4, <1>5, <1>6, <1>7, <1>8

\* As long as the callback and decode_audio do not meet, it stays inside out_buffer.
LEMMA MixInside ==
  ASSUME IInv, Mix, pc' # pc, file.sized
  PROVE  raced'
<1>1. audio_pos >= Capacity /\ cb = "audio_pos" /\ raced' = (raced \/ pc = "audio_pos")
  BY DEF Mix, Plays
<1>2. /\ Chunks \in Nat /\ Capacity \in Nat /\ Chunks < Capacity /\ Length = Chunks
      /\ audio_pos \in Nat /\ len \in Nat
  BY FFmpegUtilAssumption DEF Length, IInv, Counters
<1>3. ~raced /\ pc # "audio_pos" => audio_pos = Chunks - len
  BY <1>1, <1>2 DEF IInv, PosIsPlace
<1>4. Chunks - len < Capacity
  BY <1>2
<1>5. raced \/ pc = "audio_pos"
  BY <1>1, <1>2, <1>3, <1>4
<1> QED
  BY <1>1, <1>5

LEMMA UtilNext ==
  ASSUME IInv, UtilInv, Next
  PROVE  UtilInv' /\ (quit => UNCHANGED callback /\ pc' # "late")
<1>1. CASE fill_audio
  <2>1. UNCHANGED <<file, opened, filters, output, device, quit, next>> /\ device
    BY <1>1 DEF fill_audio, ReadLen, Mix, WriteLen, WritePos, Plays, setup
  <2>2. CASE pc' = pc /\ raced' = raced
    BY <2>1, <2>2 DEF UtilInv, GoodFileRuns
  <2>3. CASE Mix
    <3>1. /\ pc' \in {pc, "crashed"} /\ pc # "crashed"
          /\ pc' # pc => pc # "open_input_file"
          /\ raced' = (raced \/ pc = "audio_pos")
      BY <2>3, <2>1 DEF Mix, Plays, UtilInv
    <3>2. GoodFileRuns'
      BY <2>1, <2>3, <3>1, MixInside DEF GoodFileRuns
    <3>3. ~quit
      BY <2>1 DEF UtilInv
    <3> QED
      BY <2>1, <3>1, <3>2, <3>3 DEF UtilInv
  <2> QED
    BY <1>1, <2>1, <2>2, <2>3 DEF fill_audio, ReadLen, WriteLen, WritePos, UtilInv
<1>2. CASE LateCallback
  <2>1. UNCHANGED <<file, opened, filters, output, device, quit, next>> /\ device /\ pc' = "late"
    BY <1>2 DEF LateCallback, setup
  <2> QED
    BY <2>1 DEF UtilInv, GoodFileRuns
<1> QED
  BY <1>1, <1>2, UtilOpening, UtilRunning DEF Next, run

LEMMA UtilInit ==
  ASSUME Init
  PROVE  UtilInv
<1>1. /\ file \in Files /\ pc = "open_input_file" /\ filters = -1 /\ device = FALSE
      /\ quit = FALSE /\ next = 1 /\ 1 \in Nat \ {0}
  BY DEF Init
<1>2. GoodFileRuns
  BY <1>1 DEF GoodFileRuns
<1> QED
  BY <1>1, <1>2, Zenon DEF UtilInv

LEMMA FilmStays == FilmInv /\ UNCHANGED filmVars => FilmInv'
<1> SUFFICES ASSUME FilmInv, UNCHANGED filmVars
             PROVE  FilmInv'
  OBVIOUS
<1>1. FilmMain'
  BY DEF FilmInv, filmVars, FilmMain
<1>2. FilmThread'
  BY DEF FilmInv, filmVars, FilmThread
<1>3. ASSUME NEW s \in Film!Streams PROVE InOrderOf(s)'
  BY DEF FilmInv, filmVars, InOrderOf, Encoded, Decoded, ToWrite, ToEncode, ToDecode
<1> QED
  BY <1>1, <1>2, <1>3 DEF FilmInv

\* The transcoder never uses what is not open and writes only inside its container, and
\* FFmpegUtil never misses what a good file gave it nor is called back when it was ended.
THEOREM NothingUsedTooLate == FilesSpec => SafeTeardown
<1>1. FilesInit => FilmInv /\ IInv /\ UtilInv
  BY FilmInit, InitInv, UtilInit DEF FilesInit
<1>2. (FilmInv /\ IInv /\ UtilInv) /\ [FilesNext]_allVars =>
        /\ (FilmInv /\ IInv /\ UtilInv)'
        /\ [written' # written => container = "header" /\ container' = "header"]_(Film!vars)
        /\ [quit => UNCHANGED callback /\ pc' # "late"]_vars
  <2> SUFFICES ASSUME FilmInv, IInv, UtilInv, [FilesNext]_allVars
               PROVE  /\ FilmInv' /\ IInv' /\ UtilInv'
                      /\ [written' # written => container = "header" /\ container' = "header"]_(Film!vars)
                      /\ [quit => UNCHANGED callback /\ pc' # "late"]_vars
    OBVIOUS
  <2>1. Film!Next \/ UNCHANGED filmVars
    BY DEF FilesNext, RunUtil, Transcode, SearchFrame, allVars
  <2>2. Next \/ UNCHANGED vars
    BY DEF FilesNext, RunUtil, Transcode, SearchFrame, allVars
  <2>3. FilmInv' /\ [written' # written => container = "header" /\ container' = "header"]_(Film!vars)
    <3>1. CASE UNCHANGED filmVars
      <4>1. UNCHANGED Film!vars
        BY <3>1 DEF filmVars, Film!vars, Film!setupVars, Film!pipeVars
      <4> QED
        BY <3>1, <4>1, FilmStays
    <3> QED
      BY <2>1, <3>1, FilmNext
  <2>4. UtilInv' /\ [quit => UNCHANGED callback /\ pc' # "late"]_vars
    <3>1. CASE UNCHANGED vars
      BY <3>1 DEF vars, setup, shared, UtilInv, GoodFileRuns
    <3> QED
      BY <2>2, <3>1, UtilNext
  <2>5. IInv'
    BY <2>2, NextInv
  <2> QED
    BY <2>3, <2>4, <2>5
<1>3. FilmInv /\ IInv /\ UtilInv => Film!SafeTeardown /\ GoodFileRuns
  BY FilmCorrect DEF UtilInv
<1> QED
  BY <1>1, <1>2, <1>3, PTL DEF FilesSpec, SafeTeardown, Film!PacketsInsideContainer, QuietAfterQuit

-------------------------------------------------------------------------------
(* The search for a frame.                                                 *)

\* Where a call is, and the numbers it counts.
SearchCall ==
  /\ video_stream \in 0 .. 1 /\ start_time \in 0 .. 1
  /\ seek_pc \in {"idle", "get", "position", "landed"} /\ reader \in {"idle", "position", "landed"}
  /\ count_errs \in 0 .. Attempts + 1
  /\ frame_number \in -Far - Search!Frames .. Far + 1
  /\ first_frame_number \in -1 .. Search!Frames - 1
  /\ target \in 0 .. Search!Frames /\ delta \in 0 .. 2 * MaxDelta
  /\ seek_pc = "get" => count_errs <= Attempts /\ frame_number <= Search!Frames /\ ~gave_up

\* Where the file stands, and what became of the frames that were read.
SearchOrder ==
  /\ seek_pos \in 0 .. Len(Items) /\ start \in 0 .. seek_pos
  /\ got \in [1 .. Search!Frames -> Nat]
  /\ seek_decoder \subseteq 1 .. Search!Frames /\ missed \subseteq 1 .. Search!Frames
  /\ Search!EachOnce
  /\ gave_up \in BOOLEAN
  /\ gave_up => seek_pos = Len(Items) /\ (video_stream = 0 => seek_decoder = {})

SearchInv == SearchCall /\ SearchOrder

LEMMA SearchConstants ==
  /\ Len(Items) \in Nat /\ DOMAIN Items = 1 .. Len(Items)
  /\ Search!Frames \in Nat \ {0}
  /\ \A i \in DOMAIN Items : Items[i] \in 0 .. Search!Frames
  /\ \A n \in 1 .. Search!Frames : \E i \in DOMAIN Items : Items[i] = n
  /\ \A i, j \in DOMAIN Items : Items[i] = Items[j] /\ Items[i] # 0 => i = j
  /\ Keys \subseteq 1 .. Search!Frames /\ 1 \in Keys
  /\ Delay \in Nat /\ Attempts \in Nat /\ Delta \in Nat /\ MaxDelta \in Nat /\ Far \in Nat
  /\ Delta > 1 /\ MaxDelta > Delta /\ Far > Search!Frames
<1>1. Search!VideoSeekAssumption
  BY FilesAssumption
<1>2. /\ Items \in Seq(Nat) /\ Search!Frames \in Nat
      /\ Search!Range(Items) \union {0} = 0 .. Search!Frames
      /\ \A i, j \in DOMAIN Items : Items[i] = Items[j] /\ Items[i] # 0 => i = j
      /\ Keys \subseteq 1 .. Search!Frames /\ 1 \in Keys
      /\ {Delay, Attempts, Delta, MaxDelta, Far, Calls} \subseteq Nat
      /\ Delta > 1 /\ MaxDelta > Delta /\ Far > Search!Frames
  BY <1>1, Zenon DEF Search!VideoSeekAssumption
<1>3. {Items[i] : i \in DOMAIN Items} \union {0} = 0 .. Search!Frames
  BY <1>2 DEF Search!Range
<1>4. Len(Items) \in Nat /\ DOMAIN Items = 1 .. Len(Items)
  BY <1>2, LenProperties
<1>5. Search!Frames # 0
  BY <1>2
<1>6. /\ \A i \in DOMAIN Items : Items[i] \in 0 .. Search!Frames
      /\ \A n \in 1 .. Search!Frames : \E i \in DOMAIN Items : Items[i] = n
  <2>1. \A n \in 1 .. Search!Frames : n \in 0 .. Search!Frames /\ n # 0
    BY <1>2
  <2> QED
    BY <1>3, <2>1, Zenon
<1>7. /\ Delay \in Nat /\ Attempts \in Nat /\ Delta \in Nat /\ MaxDelta \in Nat /\ Far \in Nat
  BY <1>2
<1> QED
  BY <1>2, <1>4, <1>5, <1>6, <1>7, Zenon

\* Where a file of n items may stand, one item further on.
LEMMA OneFurther ==
  ASSUME NEW n \in Nat, NEW p \in 0 .. n, NEW a \in 0 .. p
  PROVE  /\ p + 1 \in 1 .. n => p + 1 \in 0 .. n /\ a \in 0 .. p + 1 /\ p # n
         /\ a + 1 .. p + 1 = (a + 1 .. p) \union {p + 1}
OBVIOUS

LEMMA NoFurther ==
  ASSUME NEW p \in Nat
  PROVE  p + 1 .. p = {}
OBVIOUS

\* What a read hands to the decoder was not read since it was flushed, and is now.
LEMMA FeedsNew ==
  ASSUME SearchOrder, NEW frames \in Search!ForDecoder, NEW fed,
         Search!Feed(frames, fed), start' = start
  PROVE  /\ seek_pos' \in 0 .. Len(Items) /\ start' \in 0 .. seek_pos'
         /\ frames \subseteq 1 .. Search!Frames
         /\ frames \intersect Search!Read = {}
         /\ Search!Read' = Search!Read \union frames
         /\ frames = {} => video_stream = 0
         /\ frames # {} => seek_pos # Len(Items)
<1> DEFINE n == seek_pos + 1
<1>1. /\ seek_pos \in 0 .. Len(Items) /\ start \in 0 .. seek_pos
      /\ Len(Items) \in Nat /\ DOMAIN Items = 1 .. Len(Items)
  BY SearchConstants, Zenon DEF SearchOrder
<1>2. CASE frames = {}
  <2>1. seek_pos' = seek_pos
    BY <1>2 DEF Search!Feed
  <2>2. Search!Read' = Search!Read
    BY <2>1 DEF Search!Read
  <2>3. video_stream = 0
    BY <1>2 DEF Search!ForDecoder
  <2> QED
    BY <1>1, <1>2, <2>1, <2>2, <2>3
<1>3. CASE frames # {}
  <2>1. n \in DOMAIN Items /\ Items[n] # 0 /\ frames = {Items[n]}
    BY <1>3 DEF Search!ForDecoder
  <2>2. seek_pos' = n
    BY <1>3 DEF Search!Feed
  <2>3. Items[n] \in 0 .. Search!Frames /\ Search!Frames \in Nat
    BY <2>1, SearchConstants, Zenon
  <2>4. start + 1 .. n = (start + 1 .. seek_pos) \union {n}
    BY <1>1
  <2> HIDE DEF n
  <2>5. Search!Read' = {Items[i] : i \in start + 1 .. n} \ {0}
    BY <2>2 DEF Search!Read
  <2>6. Search!Read' = Search!Read \union frames
    BY <2>1, <2>4, <2>5, Zenon DEF Search!Read
  <2>7. Items[n] \notin Search!Read
    <3>1. ASSUME NEW i \in start + 1 .. seek_pos, Items[i] = Items[n]
          PROVE  FALSE
      <4>1. i \in DOMAIN Items /\ i # n
        BY <1>1 DEF n
      <4> QED
        BY <2>1, <3>1, <4>1, SearchConstants, Zenon
    <3> QED
      BY <3>1 DEF Search!Read
  <2>8. seek_pos' \in 0 .. Len(Items) /\ start' \in 0 .. seek_pos' /\ seek_pos # Len(Items)
    <3>1. n \in 1 .. Len(Items)
      BY <1>1, <2>1, Zenon
    <3> QED
      BY <1>1, <2>2, <3>1, OneFurther, Zenon DEF n
  <2>9. frames \subseteq 1 .. Search!Frames
    BY <2>1, <2>3
  <2> QED
    BY <1>3, <2>1, <2>6, <2>7, <2>8, <2>9
<1> QED
  BY <1>2, <1>3

\* One more frame of which nothing was known.
LEMMA NewFrame ==
  ASSUME SearchOrder, NEW f \in 1 .. Search!Frames
  PROVE  /\ got[f] \in Nat
         /\ got[f] + Search!In(f, seek_decoder) + Search!In(f, missed) = Search!In(f, Search!Read)
         /\ f \notin Search!Read => got[f] = 0 /\ f \notin seek_decoder /\ f \notin missed
<1>1. /\ got[f] \in Nat
      /\ got[f] + Search!In(f, seek_decoder) + Search!In(f, missed) = Search!In(f, Search!Read)
  BY DEF SearchOrder, Search!EachOnce
<1> QED
  BY <1>1 DEF Search!In

LEMMA PictureOrder ==
  ASSUME SearchInv, Search!Picture
  PROVE  /\ SearchOrder'
         /\ first_frame_number' \in -1 .. Search!Frames - 1
<1>1. SearchOrder /\ SearchCall
  BY DEF SearchInv
<1>2. PICK frames \in Search!ForDecoder : \E e \in {seek_decoder, seek_decoder \union frames} :
        \E g \in e :
          /\ Search!Feed(frames, e)
          /\ got' = [got EXCEPT ![g] = @ + 1]
          /\ seek_decoder' = e \ {g}
          /\ first_frame_number' \in
               IF first_frame_number < 0 THEN Search!FirstNumbers(g) ELSE {first_frame_number}
  BY DEF Search!Picture
<1>3. PICK fed \in {seek_decoder, seek_decoder \union frames} : \E g \in fed :
          /\ Search!Feed(frames, fed)
          /\ got' = [got EXCEPT ![g] = @ + 1]
          /\ seek_decoder' = fed \ {g}
          /\ first_frame_number' \in
               IF first_frame_number < 0 THEN Search!FirstNumbers(g) ELSE {first_frame_number}
  BY <1>2
<1>4. PICK f \in fed :
          /\ Search!Feed(frames, fed)
          /\ got' = [got EXCEPT ![f] = @ + 1]
          /\ seek_decoder' = fed \ {f}
          /\ first_frame_number' \in
               IF first_frame_number < 0 THEN Search!FirstNumbers(f) ELSE {first_frame_number}
  BY <1>3
<1>5. start' = start /\ gave_up' = gave_up /\ seek_pc = "get"
  BY DEF Search!Picture
<1>6. /\ seek_pos' \in 0 .. Len(Items) /\ start' \in 0 .. seek_pos'
      /\ frames \subseteq 1 .. Search!Frames
      /\ frames \intersect Search!Read = {}
      /\ Search!Read' = Search!Read \union frames
  BY <1>1, <1>4, <1>5, FeedsNew
<1>7. missed' = missed \union (frames \ fed)
  BY <1>4 DEF Search!Feed
<1>8. /\ seek_decoder \subseteq 1 .. Search!Frames /\ missed \subseteq 1 .. Search!Frames
      /\ got \in [1 .. Search!Frames -> Nat]
  BY <1>1 DEF SearchOrder
<1>9. /\ fed \subseteq 1 .. Search!Frames /\ f \in 1 .. Search!Frames
      /\ seek_decoder' \subseteq 1 .. Search!Frames /\ missed' \subseteq 1 .. Search!Frames
  BY <1>3, <1>4, <1>6, <1>7, <1>8
<1>10. got' \in [1 .. Search!Frames -> Nat]
  BY <1>4, <1>8, <1>9
<1>11. ASSUME NEW g \in 1 .. Search!Frames
       PROVE  got'[g] + Search!In(g, seek_decoder') + Search!In(g, missed')
                = Search!In(g, Search!Read')
  <2>1. /\ got[g] \in Nat
        /\ got[g] + Search!In(g, seek_decoder) + Search!In(g, missed) = Search!In(g, Search!Read)
        /\ g \notin Search!Read => got[g] = 0 /\ g \notin seek_decoder /\ g \notin missed
    BY <1>1, NewFrame
  <2>2. got'[g] = IF g = f THEN got[g] + 1 ELSE got[g]
    BY <1>4, <1>8
  <2>3. /\ g \in seek_decoder' <=> g \in fed /\ g # f
        /\ g \in missed' <=> g \in missed \/ (g \in frames /\ g \notin fed)
        /\ g \in Search!Read' <=> g \in Search!Read \/ g \in frames
    BY <1>4, <1>6, <1>7
  <2>4. CASE g \in frames
    <3>1. g \notin Search!Read
      BY <1>6, <2>4
    <3>2. f = g => g \in fed
      BY <1>4
    <3> QED
      BY <2>1, <2>2, <2>3, <2>4, <3>1, <3>2 DEF Search!In
  <2>5. CASE g \notin frames
    <3>1. g \in fed <=> g \in seek_decoder
      BY <1>3, <2>5
    <3>2. f = g => g \in fed
      BY <1>4
    <3> QED
      BY <2>1, <2>2, <2>3, <2>5, <3>1, <3>2 DEF Search!In
  <2> QED
    BY <2>4, <2>5
<1>12. Search!EachOnce'
  BY <1>11 DEF Search!EachOnce
<1>13. ~gave_up'
  BY <1>1, <1>5 DEF SearchCall
<1>14. SearchOrder'
  <2>1. gave_up' \in BOOLEAN
    BY <1>1, <1>5 DEF SearchOrder
  <2> QED
    BY <1>5, <1>6, <1>9, <1>10, <1>12, <1>13, <2>1 DEF SearchOrder
<1>15. first_frame_number' \in -1 .. Search!Frames - 1
  <2>1. first_frame_number \in -1 .. Search!Frames - 1
    BY <1>1 DEF SearchCall
  <2>2. Search!FirstNumbers(f) \subseteq -1 .. Search!Frames - 1
    BY <1>9, SearchConstants DEF Search!FirstNumbers
  <2> QED
    BY <1>4, <2>1, <2>2
<1> QED
  BY <1>14, <1>15

LEMMA NoPictureOrder ==
  ASSUME SearchInv, Search!NoPicture
  PROVE  SearchOrder'
<1>1. SearchOrder /\ SearchCall
  BY DEF SearchInv
<1>2. /\ UNCHANGED <<start, got, video_stream>>
      /\ gave_up' = (~Search!Tries /\ seek_pos = Len(Items))
  BY DEF Search!NoPicture, Search!input
<1>3. /\ seek_decoder \subseteq 1 .. Search!Frames /\ missed \subseteq 1 .. Search!Frames
      /\ got \in [1 .. Search!Frames -> Nat]
      /\ seek_pos \in 0 .. Len(Items) /\ start \in 0 .. seek_pos
      /\ Len(Items) \in Nat /\ DOMAIN Items = 1 .. Len(Items)
  BY <1>1, SearchConstants, Zenon DEF SearchOrder
<1>4. CASE Search!NotForDecoder
  <2>1. /\ seek_pos' = seek_pos \/ (seek_pos' = seek_pos + 1 /\ seek_pos' \in DOMAIN Items)
        /\ seek_pos' = seek_pos => video_stream # 0
        /\ seek_pos' # seek_pos => Items[seek_pos'] = 0
        /\ UNCHANGED <<seek_decoder, missed>>
    BY <1>4 DEF Search!NotForDecoder
  <2>0. seek_pos' = seek_pos \/ (seek_pos' = seek_pos + 1 /\ seek_pos' \in 1 .. Len(Items))
    BY <1>3, <2>1, Zenon
  <2>2. Search!Read' = Search!Read
    <3>1. CASE seek_pos' = seek_pos
      BY <1>2, <3>1 DEF Search!Read
    <3>2. CASE seek_pos' # seek_pos
      <4>1. start + 1 .. seek_pos' = (start + 1 .. seek_pos) \union {seek_pos'}
        BY <1>3, <2>1, <3>2
      <4>2. Items[seek_pos'] = 0
        BY <2>1, <3>2
      <4>3. Search!Read' = {Items[i] : i \in start + 1 .. seek_pos'} \ {0}
        BY <1>2 DEF Search!Read
      <4> QED
        BY <4>1, <4>2, <4>3, Zenon DEF Search!Read
    <3> QED
      BY <3>1, <3>2
  <2>3. Search!EachOnce'
    BY <1>1, <1>2, <2>1, <2>2 DEF SearchOrder, Search!EachOnce
  <2>4. seek_pos' \in 0 .. Len(Items) /\ start' \in 0 .. seek_pos'
    <3>1. CASE seek_pos' = seek_pos
      BY <1>2, <1>3, <3>1
    <3>2. CASE seek_pos' = seek_pos + 1 /\ seek_pos' \in 1 .. Len(Items)
      <4>1. seek_pos + 1 \in 0 .. Len(Items) /\ start \in 0 .. seek_pos + 1
        BY <1>3, <3>2, OneFurther, Zenon
      <4> QED
        BY <1>2, <3>2, <4>1
    <3> QED
      BY <2>0, <3>1, <3>2
  <2>5. gave_up' => seek_pos' = Len(Items) /\ video_stream # 0
    <3>1. gave_up' => seek_pos = Len(Items)
      BY <1>2
    <3>2. seek_pos + 1 \in 1 .. Len(Items) => seek_pos # Len(Items)
      BY <1>3, OneFurther, Zenon
    <3> QED
      BY <2>0, <2>1, <3>1, <3>2, Zenon
  <2>6. gave_up' \in BOOLEAN
    BY <1>2
  <2> QED
    BY <1>2, <1>3, <2>1, <2>3, <2>4, <2>5, <2>6 DEF SearchOrder
<1>5. CASE Search!Waits
  <2>1. PICK frames \in Search!ForDecoder : \E e \in {seek_decoder, seek_decoder \union frames} :
          /\ Search!Feed(frames, e)
          /\ frames = {} => e = {}
          /\ seek_decoder' = e
    BY <1>5, Zenon DEF Search!Waits
  <2>2. PICK fed \in {seek_decoder, seek_decoder \union frames} :
          /\ Search!Feed(frames, fed)
          /\ frames = {} => fed = {}
          /\ seek_decoder' = fed
    BY <2>1, Zenon
  <2>3. /\ seek_pos' \in 0 .. Len(Items) /\ start' \in 0 .. seek_pos'
        /\ frames \subseteq 1 .. Search!Frames
        /\ frames \intersect Search!Read = {}
        /\ Search!Read' = Search!Read \union frames
        /\ frames # {} => seek_pos # Len(Items)
    BY <1>1, <1>2, <2>2, FeedsNew
  <2>4. missed' = missed \union (frames \ fed) /\ (frames = {} => seek_pos' = seek_pos)
    BY <2>2 DEF Search!Feed
  <2>5. seek_decoder' \subseteq 1 .. Search!Frames /\ missed' \subseteq 1 .. Search!Frames
    BY <1>3, <2>2, <2>3, <2>4
  <2>6. ASSUME NEW g \in 1 .. Search!Frames
        PROVE  got'[g] + Search!In(g, seek_decoder') + Search!In(g, missed')
                 = Search!In(g, Search!Read')
    <3>1. /\ got[g] \in Nat
          /\ got[g] + Search!In(g, seek_decoder) + Search!In(g, missed) = Search!In(g, Search!Read)
          /\ g \notin Search!Read => got[g] = 0 /\ g \notin seek_decoder /\ g \notin missed
      BY <1>1, NewFrame
    <3>2. /\ g \in missed' <=> g \in missed \/ (g \in frames /\ g \notin fed)
          /\ g \in Search!Read' <=> g \in Search!Read \/ g \in frames
          /\ g \in frames => g \notin Search!Read
          /\ seek_decoder' = fed /\ got'[g] = got[g]
          /\ g \notin frames => (g \in fed <=> g \in seek_decoder)
      BY <1>2, <2>2, <2>3, <2>4
    <3> QED
      BY <3>1, <3>2 DEF Search!In
  <2>7. Search!EachOnce'
    BY <2>6 DEF Search!EachOnce
  <2>8. gave_up' => seek_pos' = Len(Items) /\ seek_decoder' = {}
    BY <1>2, <2>2, <2>3, <2>4
  <2>9. gave_up' \in BOOLEAN
    BY <1>2
  <2> QED
    BY <1>2, <1>3, <2>3, <2>5, <2>7, <2>8, <2>9 DEF SearchOrder
<1> QED
  BY <1>4, <1>5 DEF Search!NoPicture

\* The least bound of a set of numbers is one of them.
LEMMA Greatest ==
  ASSUME NEW n \in Nat, NEW S \in SUBSET (0 .. n), S # {}
  PROVE  Search!Max(S) \in S /\ \A y \in S : Search!Max(S) >= y
<1> DEFINE B == {m \in Nat : \A y \in S : y <= m}
<1>1. n \in B
  OBVIOUS
<1>2. PICK m \in B : \A k \in B : ~(<<k, m>> \in OpToRel(<, Nat))
  BY <1>1, WFMin, NatLessThanWellFounded
<1>3. \A k \in B : ~(k < m)
  BY <1>2 DEF OpToRel
<1>4. m \in Nat /\ \A y \in S : y \in Nat /\ y <= m
  <2>1. m \in B
    BY <1>2
  <2> QED
    BY <2>1
<1>5. ASSUME m \notin S
      PROVE  FALSE
  <2>1. \A y \in S : y < m
    BY <1>4, <1>5
  <2>2. m > 0
    <3>1. PICK y \in S : TRUE
      OBVIOUS
    <3> QED
      BY <1>4, <2>1, <3>1
  <2>3. m - 1 \in Nat /\ \A y \in S : y <= m - 1
    BY <1>4, <2>1, <2>2
  <2>4. m - 1 \in B
    BY <2>3
  <2> QED
    BY <1>3, <1>4, <2>4
<1>6. \E x \in S : \A y \in S : x >= y
  BY <1>4, <1>5
<1> QED
  BY <1>6 DEF Search!Max

LEMMA Goal ==
  ASSUME SearchCall
  PROVE  Search!goal \in Nat
<1>1. target \in Nat /\ delta \in Nat
  BY SearchConstants DEF SearchCall
<1>2. \E x \in {target - delta, 0} : \A y \in {target - delta, 0} : x >= y
  <2>1. CASE target - delta >= 0
    BY <1>1, <2>1
  <2>2. CASE ~(target - delta >= 0)
    BY <1>1, <2>2
  <2> QED
    BY <2>1, <2>2
<1>3. /\ Search!goal \in {target - delta, 0}
      /\ \A y \in {target - delta, 0} : Search!goal >= y
  BY <1>2 DEF Search!goal, Search!Max
<1>4. Search!goal >= 0
  BY <1>3
<1> QED
  BY <1>1, <1>3, <1>4

\* The demuxer goes to a key frame of the file, and there is one.
LEMMA LandsInFile ==
  ASSUME SearchCall
  PROVE  Search!Landing \in 1 .. Search!Frames
<1> DEFINE S == {k \in Keys : k <= Search!goal + 1}
<1>1. Search!goal \in Nat /\ Search!Frames \in Nat /\ Keys \subseteq 1 .. Search!Frames /\ 1 \in Keys
  BY Goal, SearchConstants
<1>2. S # {} /\ S \subseteq 1 .. Search!Frames /\ S \in SUBSET (0 .. Search!Frames)
  <2>1. 1 \in S
    BY <1>1
  <2>2. S \subseteq 1 .. Search!Frames
    BY <1>1
  <2> QED
    BY <1>1, <2>1, <2>2
<1> HIDE DEF S
<1>3. Search!Max(S) \in S
  BY <1>1, <1>2, Greatest
<1> QED
  BY <1>2, <1>3 DEF S, Search!Landing

\* After a seek, or one that failed, the decoder is empty and nothing was read.
LEMMA PositionOrder ==
  ASSUME SearchInv, Search!Position
  PROVE  SearchOrder'
<1>1. SearchOrder
  BY DEF SearchInv
<1>2. /\ start' = seek_pos' /\ seek_decoder' = {} /\ missed' = {} /\ ~gave_up'
      /\ got' = [f \in 1 .. Search!Frames |-> 0]
      /\ gave_up' \in BOOLEAN
  BY DEF Search!Position, Search!Flushed, Search!Get
<1>3. Len(Items) \in Nat /\ DOMAIN Items = 1 .. Len(Items)
  BY SearchConstants, Zenon
<1>4. seek_pos' \in 0 .. Len(Items)
  <2>1. CASE seek_pos' = seek_pos
    BY <1>1, <2>1 DEF SearchOrder
  <2>2. CASE seek_pos' = (CHOOSE n \in DOMAIN Items : Items[n] = Search!Landing) - 1
    <3>1. Search!Landing \in 1 .. Search!Frames
      BY LandsInFile DEF SearchInv
    <3>2. \E i \in DOMAIN Items : Items[i] = Search!Landing
      BY <3>1, SearchConstants, Zenon
    <3>3. (CHOOSE n \in DOMAIN Items : Items[n] = Search!Landing) \in DOMAIN Items
      BY <3>2
    <3> QED
      BY <1>3, <2>2, <3>3
  <2> QED
    BY <2>1, <2>2 DEF Search!Position
<1>5. Search!Read' = {}
  <2>1. start' + 1 .. seek_pos' = {}
    <3>1. PICK p \in 0 .. Len(Items) : p = seek_pos'
      BY <1>4
    <3>2. p + 1 .. p = {}
      <4>1. p \in Nat
        BY <1>3, <3>1
      <4> QED
        BY <4>1, NoFurther, Zenon
    <3> QED
      BY <1>2, <3>1, <3>2
  <2>2. Search!Read' = {Items[i] : i \in start' + 1 .. seek_pos'} \ {0}
    BY DEF Search!Read
  <2> QED
    BY <2>1, <2>2
<1>6. Search!EachOnce'
  <2>1. ASSUME NEW f \in 1 .. Search!Frames
        PROVE  got'[f] + Search!In(f, seek_decoder') + Search!In(f, missed')
                 = Search!In(f, Search!Read')
    BY <1>2, <1>5 DEF Search!In
  <2> QED
    BY <2>1 DEF Search!EachOnce
<1>7. got' \in [1 .. Search!Frames -> Nat] /\ start' \in 0 .. seek_pos'
  BY <1>2, <1>3, <1>4
<1> QED
  BY <1>2, <1>4, <1>6, <1>7 DEF SearchOrder

\* A call that reads nothing leaves what was read as it is.
LEMMA SameOrder ==
  ASSUME SearchOrder, UNCHANGED <<video_stream, seek_pos, seek_decoder, start, got, missed>>,
         gave_up' => gave_up, gave_up' \in BOOLEAN
  PROVE  SearchOrder'
<1>1. Search!Read' = Search!Read
  BY DEF Search!Read
<1>2. Search!EachOnce'
  BY <1>1 DEF SearchOrder, Search!EachOnce
<1> QED
  BY <1>2 DEF SearchOrder

\* A call counts again from nothing, and begins only while frames are missing.
LEMMA GetCall ==
  ASSUME SearchCall, NEW who \in {"idle", "position", "landed"}, Search!Get(who)
  PROVE  /\ reader' \in {"idle", "position", "landed"}
         /\ seek_pc' \in {"idle", "get", "position", "landed"}
         /\ count_errs' = 0 /\ ~gave_up' /\ gave_up' \in BOOLEAN
         /\ seek_pc' = "get" => frame_number <= Search!Frames
<1>1. frame_number \in Int /\ Search!Frames \in Int
  BY SearchConstants DEF SearchCall
<1>2. ~(frame_number > Search!Frames) => frame_number <= Search!Frames
  BY <1>1
<1> QED
  BY <1>2 DEF Search!Get

\* How far a seek goes back at most.
LEMMA WiderBound ==
  ASSUME NEW d \in Nat, NEW m \in Nat, d < m
  PROVE  Search!Wider(d) \in 0 .. 2 * m
<1>1. CASE d < 16
  BY <1>1 DEF Search!Wider
<1>2. CASE ~(d < 16)
  <2>1. (d * 3) \div 2 \in 0 .. 2 * m
    OBVIOUS
  <2> QED
    BY <1>2, <2>1 DEF Search!Wider
<1> QED
  BY <1>1, <1>2

LEMMA TargetType ==
  ASSUME NEW number \in 0 .. Search!Frames + 1
  PROVE  Search!Min({number, Search!Frames}) \in 0 .. Search!Frames
<1>1. Search!Frames \in Nat /\ number \in Nat
  BY SearchConstants
<1>2. \E x \in {number, Search!Frames} : \A y \in {number, Search!Frames} : x =< y
  <2>1. CASE number <= Search!Frames
    BY <1>1, <2>1
  <2>2. CASE ~(number <= Search!Frames)
    BY <1>1, <2>2
  <2> QED
    BY <2>1, <2>2
<1>3. /\ Search!Min({number, Search!Frames}) \in {number, Search!Frames}
      /\ \A y \in {number, Search!Frames} : Search!Min({number, Search!Frames}) =< y
  BY <1>2 DEF Search!Min
<1> QED
  BY <1>1, <1>3

LEMMA SearchInit ==
  ASSUME Search!Init
  PROVE  SearchInv
<1>1. /\ video_stream \in 0 .. 1 /\ start_time \in 0 .. 1
      /\ seek_pc = "idle" /\ reader = "idle" /\ seek_pos = 0 /\ seek_decoder = {}
      /\ count_errs = 0 /\ frame_number = 0 /\ first_frame_number = -1
      /\ target = 0 /\ delta = 0 /\ start = 0 /\ got = [f \in 1 .. Search!Frames |-> 0]
      /\ missed = {} /\ gave_up = FALSE
  BY DEF Search!Init
<1>2. /\ Search!Frames \in Nat \ {0} /\ Delay \in Nat /\ Attempts \in Nat /\ MaxDelta \in Nat
      /\ Far \in Nat /\ Len(Items) \in Nat
  BY SearchConstants, Zenon
<1>3. SearchCall
  <2>1. 0 \in -Far - Search!Frames .. Far + 1 /\ -1 \in -1 .. Search!Frames - 1
        /\ 0 \in 0 .. Attempts + 1 /\ 0 \in 0 .. Search!Frames /\ 0 \in 0 .. 2 * MaxDelta
    BY <1>2
  <2> QED
    BY <1>1, <2>1 DEF SearchCall
<1>4. SearchOrder
  <2>1. start + 1 .. seek_pos = {}
    BY <1>1
  <2>2. Search!Read = {}
    BY <2>1 DEF Search!Read
  <2>3. Search!EachOnce
    BY <1>1, <2>2 DEF Search!EachOnce, Search!In
  <2>4. seek_pos \in 0 .. Len(Items) /\ start \in 0 .. seek_pos
    BY <1>1, <1>2
  <2>5. got \in [1 .. Search!Frames -> Nat]
    BY <1>1
  <2> QED
    BY <1>1, <2>3, <2>4, <2>5 DEF SearchOrder
<1> QED
  BY <1>3, <1>4 DEF SearchInv

LEMMA SearchNext ==
  ASSUME SearchInv, Search!Next
  PROVE  SearchInv'
<1>0. SearchCall /\ SearchOrder
  BY DEF SearchInv
<1>1. /\ Search!Frames \in Nat \ {0} /\ Delay \in Nat /\ Attempts \in Nat /\ MaxDelta \in Nat
      /\ Delta \in Nat /\ MaxDelta > Delta /\ Far \in Nat /\ Far > Search!Frames
      /\ 0 \in 0 .. Attempts + 1 /\ Delta \in 0 .. 2 * MaxDelta
  <2>1. /\ Search!Frames \in Nat \ {0} /\ Delay \in Nat /\ Attempts \in Nat /\ MaxDelta \in Nat
        /\ Delta \in Nat /\ MaxDelta > Delta /\ Far \in Nat /\ Far > Search!Frames
    BY SearchConstants, Zenon
  <2> QED
    BY <2>1
<1>2. CASE Search!get_video_frame
  <2>1. /\ Search!Get("idle")
        /\ UNCHANGED <<video_stream, start_time, seek_pos, seek_decoder, frame_number,
                       first_frame_number, target, delta, start, got, missed>>
    BY <1>2 DEF Search!get_video_frame, Search!input, Search!seeking, Search!history
  <2>2. /\ reader' \in {"idle", "position", "landed"}
        /\ seek_pc' \in {"idle", "get", "position", "landed"}
        /\ count_errs' = 0 /\ ~gave_up' /\ gave_up' \in BOOLEAN
        /\ seek_pc' = "get" => frame_number <= Search!Frames
    BY <1>0, <2>1, GetCall
  <2>3. SearchOrder'
    BY <1>0, <2>1, <2>2, SameOrder
  <2>4. SearchCall'
    BY <1>0, <1>1, <2>1, <2>2 DEF SearchCall
  <2> QED
    BY <2>3, <2>4 DEF SearchInv
<1>3. CASE Search!Picture
  <2>1. SearchOrder' /\ first_frame_number' \in -1 .. Search!Frames - 1
    BY <1>3, PictureOrder
  <2>2. /\ seek_pc = "get" /\ seek_pc' = reader /\ frame_number' = frame_number + 1
        /\ UNCHANGED <<video_stream, start_time, reader, count_errs, target, delta, gave_up>>
    BY <1>3 DEF Search!Picture, Search!input, Search!seeking
  <2>3. frame_number' \in -Far - Search!Frames .. Far + 1
    BY <1>0, <1>1, <2>2 DEF SearchCall
  <2>5. SearchCall'
    BY <1>0, <2>1, <2>2, <2>3 DEF SearchCall
  <2> QED
    BY <2>1, <2>5 DEF SearchInv
<1>4. CASE Search!NoPicture
  <2>1. SearchOrder'
    BY <1>4, NoPictureOrder
  <2>2. /\ seek_pc = "get" /\ count_errs' = count_errs + 1
        /\ seek_pc' = IF count_errs < Attempts THEN "get" ELSE reader
        /\ gave_up' = (~(count_errs < Attempts) /\ seek_pos = Len(Items))
        /\ UNCHANGED <<video_stream, start_time, reader, frame_number, first_frame_number,
                       target, delta>>
    BY <1>4 DEF Search!NoPicture, Search!Tries, Search!input, Search!seeking
  <2>3. /\ count_errs' \in 0 .. Attempts + 1
        /\ count_errs < Attempts => count_errs' <= Attempts
    BY <1>0, <1>1, <2>2 DEF SearchCall
  <2>4. seek_pc' = "get" => count_errs < Attempts
    BY <1>0, <2>2 DEF SearchCall
  <2>5. gave_up' \in BOOLEAN /\ (count_errs < Attempts => ~gave_up')
    BY <2>2
  <2>6. SearchCall'
    BY <1>0, <2>2, <2>3, <2>4, <2>5 DEF SearchCall
  <2> QED
    BY <2>1, <2>6 DEF SearchInv
<1>5. CASE Search!seek_video_frame
  <2>1. /\ \E number \in 0 .. Search!Frames + 1 :
             target' = Search!Min({number, Search!Frames})
        /\ delta' = Delta
        /\ \/ Search!Get("position")
           \/ seek_pc' = "position" /\ UNCHANGED <<reader, count_errs, gave_up>>
        /\ UNCHANGED <<video_stream, start_time, seek_pos, seek_decoder, frame_number,
                       first_frame_number, start, got, missed>>
    BY <1>5 DEF Search!seek_video_frame, Search!input, Search!history
  <2>2. target' \in 0 .. Search!Frames
    BY <2>1, TargetType
  <2>3. CASE Search!Get("position")
    <3>1. /\ reader' \in {"idle", "position", "landed"}
          /\ seek_pc' \in {"idle", "get", "position", "landed"}
          /\ count_errs' = 0 /\ ~gave_up' /\ gave_up' \in BOOLEAN
          /\ seek_pc' = "get" => frame_number <= Search!Frames
      BY <1>0, <2>3, GetCall
    <3>2. SearchOrder'
      BY <1>0, <2>1, <3>1, SameOrder
    <3>3. SearchCall'
      BY <1>0, <1>1, <2>1, <2>2, <3>1 DEF SearchCall
    <3> QED
      BY <3>2, <3>3 DEF SearchInv
  <2>4. CASE seek_pc' = "position" /\ UNCHANGED <<reader, count_errs, gave_up>>
    <3>1. SearchOrder'
      <4>1. gave_up' \in BOOLEAN
        BY <1>0, <2>4 DEF SearchOrder
      <4> QED
        BY <1>0, <2>1, <2>4, <4>1, SameOrder
    <3>2. SearchCall'
      BY <1>0, <1>1, <2>1, <2>2, <2>4 DEF SearchCall
    <3> QED
      BY <3>1, <3>2 DEF SearchInv
  <2> QED
    BY <2>1, <2>3, <2>4
<1>6. CASE Search!Position
  <2>1. SearchOrder'
    BY <1>6, PositionOrder
  <2>2. /\ \/ Search!Get("landed") /\ UNCHANGED frame_number
           \/ /\ seek_pc' = "idle" /\ frame_number' = 0 /\ gave_up' = FALSE
              /\ UNCHANGED <<reader, count_errs>>
        /\ UNCHANGED <<video_stream, start_time, first_frame_number, target, delta>>
    BY <1>6 DEF Search!Position, Search!input, Search!seeking
  <2>3. CASE Search!Get("landed") /\ UNCHANGED frame_number
    <3>1. /\ reader' \in {"idle", "position", "landed"}
          /\ seek_pc' \in {"idle", "get", "position", "landed"}
          /\ count_errs' = 0 /\ ~gave_up' /\ gave_up' \in BOOLEAN
          /\ seek_pc' = "get" => frame_number <= Search!Frames
      BY <1>0, <2>3, GetCall
    <3>2. SearchCall'
      BY <1>0, <1>1, <2>2, <2>3, <3>1 DEF SearchCall
    <3> QED
      BY <2>1, <3>2 DEF SearchInv
  <2>4. CASE /\ seek_pc' = "idle" /\ frame_number' = 0 /\ gave_up' = FALSE
             /\ UNCHANGED <<reader, count_errs>>
    <3>1. 0 \in -Far - Search!Frames .. Far + 1
      BY <1>1
    <3>2. SearchCall'
      BY <1>0, <2>2, <2>4, <3>1 DEF SearchCall
    <3> QED
      BY <2>1, <3>2 DEF SearchInv
  <2> QED
    BY <2>2, <2>3, <2>4
<1>7. CASE Search!Landed
  <2>1. /\ \/ frame_number' = 1
           \/ \E stamp \in {-Far, Far} : frame_number' = stamp - first_frame_number
        /\ seek_pc' \in {"idle", "position"}
        /\ \/ UNCHANGED delta
           \/ ~(delta >= MaxDelta) /\ delta' = Search!Wider(delta)
        /\ UNCHANGED <<video_stream, start_time, reader, seek_pos, seek_decoder, count_errs,
                       first_frame_number, target, start, got, missed, gave_up>>
    BY <1>7 DEF Search!Landed, Search!Unstamped, Search!input, Search!history
  <2>2. frame_number' \in -Far - Search!Frames .. Far + 1
    <3>1. first_frame_number \in -1 .. Search!Frames - 1
      BY <1>0 DEF SearchCall
    <3>2. frame_number' = 1 \/ frame_number' = -Far - first_frame_number
            \/ frame_number' = Far - first_frame_number
      BY <2>1
    <3> QED
      BY <1>1, <3>1, <3>2
  <2>3. delta' \in 0 .. 2 * MaxDelta
    <3>1. delta \in 0 .. 2 * MaxDelta
      BY <1>0 DEF SearchCall
    <3>2. CASE ~(delta >= MaxDelta) /\ delta' = Search!Wider(delta)
      <4>1. delta \in Nat /\ delta < MaxDelta
        BY <1>1, <3>1, <3>2
      <4> QED
        BY <1>1, <3>2, <4>1, WiderBound
    <3> QED
      BY <2>1, <3>1, <3>2
  <2>4. SearchOrder'
    <3>1. gave_up' \in BOOLEAN
      BY <1>0, <2>1 DEF SearchOrder
    <3> QED
      BY <1>0, <2>1, <3>1, SameOrder
  <2>5. SearchCall'
    BY <1>0, <2>1, <2>2, <2>3 DEF SearchCall
  <2> QED
    BY <2>4, <2>5 DEF SearchInv
<1> QED
  BY <1>2, <1>3, <1>4, <1>5, <1>6, <1>7 DEF Search!Next

LEMMA SearchCorrect ==
  ASSUME SearchInv
  PROVE  Search!TypeOK /\ Search!EachOnce /\ Search!NothingLeftAtTheEnd
<1>1. SearchCall /\ SearchOrder
  BY DEF SearchInv
<1>2. Search!TypeOK
  BY <1>1 DEF SearchCall, SearchOrder, Search!TypeOK
<1>3. Search!NothingLeftAtTheEnd
  <2> SUFFICES ASSUME gave_up, video_stream = 0, NEW i \in start + 1 .. Len(Items), Items[i] # 0
               PROVE  got[Items[i]] = 1 \/ Items[i] \in missed
    BY DEF Search!NothingLeftAtTheEnd
  <2>1. seek_pos = Len(Items) /\ seek_decoder = {}
    BY <1>1 DEF SearchOrder
  <2>2. Items[i] \in Search!Read
    BY <2>1 DEF Search!Read
  <2>3. i \in DOMAIN Items
    BY <1>1, SearchConstants DEF SearchOrder
  <2>4. Items[i] \in 0 .. Search!Frames /\ Search!Frames \in Nat
    BY <2>3, SearchConstants, Zenon
  <2>5. PICK f \in 1 .. Search!Frames : f = Items[i]
    BY <2>4
  <2>6. got[f] \in Nat
        /\ got[f] + Search!In(f, seek_decoder) + Search!In(f, missed) = Search!In(f, Search!Read)
    BY <1>1, NewFrame
  <2> QED
    BY <2>1, <2>2, <2>5, <2>6 DEF Search!In
<1> QED
  BY <1>1, <1>2, <1>3 DEF SearchOrder

\* Whatever fails and whatever is searched for, what the codecs give the transcoder is
\* written in their order, without an error nothing but what a decoder is left with at the
\* end is missing, and a search finds every frame it reads once, but those that could not
\* be decoded.
THEOREM FramesInOrder == FilesSpec => []NoGaps
<1>1. FilesInit => FilmInv /\ SearchInv
  BY FilmInit, SearchInit DEF FilesInit
<1>2. (FilmInv /\ SearchInv) /\ [FilesNext]_allVars => (FilmInv /\ SearchInv)'
  <2> SUFFICES ASSUME FilmInv, SearchInv, [FilesNext]_allVars
               PROVE  FilmInv' /\ SearchInv'
    OBVIOUS
  <2>1. Film!Next \/ UNCHANGED filmVars
    BY DEF FilesNext, RunUtil, Transcode, SearchFrame, allVars
  <2>2. Search!Next \/ UNCHANGED searchVars
    BY DEF FilesNext, RunUtil, Transcode, SearchFrame, allVars
  <2>3. FilmInv'
    BY <2>1, FilmNext, FilmStays
  <2>4. SearchInv'
    <3>1. CASE UNCHANGED searchVars
      <4>1. SearchOrder'
        BY <3>1, SameOrder DEF SearchInv, SearchOrder, searchVars
      <4>2. SearchCall'
        BY <3>1 DEF SearchInv, SearchCall, searchVars
      <4> QED
        BY <4>1, <4>2 DEF SearchInv
    <3> QED
      BY <2>2, <3>1, SearchNext
  <2> QED
    BY <2>3, <2>4
<1>3. FilmInv /\ SearchInv => NoGaps
  BY FilmCorrect, SearchCorrect DEF NoGaps
<1> QED
  BY <1>1, <1>2, <1>3, PTL DEF FilesSpec
===============================================================================
