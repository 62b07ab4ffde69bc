----------------------------- MODULE Muxing_proofs -----------------------------
(***************************************************************************)
(* Theorems about the four writers of files, for any duration, any lengths *)
(* of the frames, encoders that hold back any number of them, and any      *)
(* number of images and rounds.                                            *)
(***************************************************************************)
EXTENDS MCWriters, FiniteSetTheorems, SequenceTheorems, TLAPS

-------------------------------------------------------------------------------
(* Arithmetic.                                                             *)

LEMMA Quotient ==
  ASSUME NEW t \in Nat \ {0}, NEW n \in Nat
  PROVE  (t * n) \div t = n
<1>1. t * n \in Nat /\ t * (n + 1) = t * n + t
  OBVIOUS
<1> QED
  BY <1>1

LEMMA RoundedUp ==
  ASSUME NEW t \in Nat \ {0}, NEW n \in Nat, NEW d \in Nat,
         t * n >= d, t * n < d + t
  PROVE  (d + t - 1) \div t = n
<1>1. t * n \in Nat /\ t * (n + 1) = t * n + t /\ t * n <= d + t - 1 /\ d + t - 1 < t * n + t
  OBVIOUS
<1> QED
  BY <1>1

LEMMA Product ==
  ASSUME NEW t \in Nat \ {0}, NEW n \in Nat
  PROVE  /\ t * (n + 1) = t * n + t
         /\ n = 0 => t * n = 0
         /\ n > 0 => t * n > 0
<1>1. n > 0 => \E m \in Nat : n = m + 1
  <2>1. n > 0 => n - 1 \in Nat /\ n = (n - 1) + 1
    OBVIOUS
  <2> QED
    BY <2>1
<1>2. \A m \in Nat : t * (m + 1) = t * m + t /\ t * m >= 0
  OBVIOUS
<1>3. n > 0 => t * n > 0
  BY <1>1, <1>2
<1> QED
  BY <1>2, <1>3

-------------------------------------------------------------------------------
(* One stream: what its encoder holds, its file, and what was lost.        *)

\* Frames that show themselves.
AsGiven == {Show(i, i) : i \in Nat}

\* The frames that are held, in the file or lost are the first n.
Whole(h, f, l, n) == Frames(h) \cup Frames(f) \cup l = 1 .. n

\* A stream whose frames last t and whose next one starts at p, when an encoder that keeps
\* d of them holds h, the file has f and l are lost, and none starts after D.
Stream(h, f, l, t, p, d, D) ==
  /\ h \subseteq AsGiven /\ f \subseteq AsGiven
  /\ IsFiniteSet(h) /\ Cardinality(h) <= d
  /\ Whole(h, f, l, p \div t)
  /\ p = t * (p \div t) /\ p \div t \in Nat
  /\ p > 0 => p < D + t

LEMMA FramesOf ==
  ASSUME NEW h, NEW q
  PROVE  /\ Frames(h \cup {q}) = Frames(h) \cup {q.frame}
         /\ q \in h => Frames(h) = Frames(h \ {q}) \cup {q.frame}
BY DEF Frames

LEMMA ShowsItself ==
  ASSUME NEW n \in Nat
  PROVE  Show(n, n) \in AsGiven /\ Show(n, n).frame = n /\ Show(n, n).shows = n
BY DEF AsGiven, Show

LEMMA NextFrame ==
  ASSUME NEW t \in Nat \ {0}, NEW p \in Nat, p = t * (p \div t), p \div t \in Nat
  PROVE  /\ p + t = t * (p \div t + 1) /\ (p + t) \div t = p \div t + 1
         /\ 1 .. p \div t + 1 = (1 .. p \div t) \cup {p \div t + 1}
<1> DEFINE n == p \div t
<1>1. n \in Nat /\ p = t * n
  OBVIOUS
<1> HIDE DEF n
<1>2. p + t = t * (n + 1) /\ n + 1 \in Nat
  BY <1>1, Product
<1>3. (t * (n + 1)) \div t = n + 1
  BY <1>2, Quotient
<1>4. 1 .. n + 1 = (1 .. n) \cup {n + 1}
  BY <1>1
<1> QED
  BY <1>2, <1>3, <1>4 DEF n

LEMMA Cardinalities ==
  ASSUME NEW h, NEW q, IsFiniteSet(h)
  PROVE  /\ IsFiniteSet(h \cup {q}) /\ IsFiniteSet(h \ {q})
         /\ Cardinality(h) \in Nat /\ Cardinality(h \cup {q}) \in Nat
         /\ Cardinality(h \cup {q}) <= Cardinality(h) + 1
         /\ q \in h => Cardinality(h \ {q}) = Cardinality(h) - 1
BY FS_AddElement, FS_RemoveElement, FS_CardinalityType

\* What the encoder has leaves it, for the file or for nothing.
LEMMA Leaves ==
  ASSUME NEW h, NEW f, NEW l, NEW t, NEW p, NEW d \in Nat, NEW D,
         Stream(h, f, l, t, p, d, D)
  PROVE  /\ \A q \in h : /\ Stream(h \ {q}, f \cup {q}, l, t, p, d, D)
                         /\ Stream(h \ {q}, f, l \cup {q.frame}, t, p, d, D)
         /\ Stream({}, f, l \cup Frames(h), t, p, d, D)
<1>1. ASSUME NEW q \in h
      PROVE  /\ Stream(h \ {q}, f \cup {q}, l, t, p, d, D)
             /\ Stream(h \ {q}, f, l \cup {q.frame}, t, p, d, D)
  <2>1. /\ IsFiniteSet(h \ {q}) /\ Cardinality(h \ {q}) <= d
    <3>1. IsFiniteSet(h) /\ Cardinality(h) <= d
      BY DEF Stream
    <3>2. IsFiniteSet(h \ {q}) /\ Cardinality(h \ {q}) = Cardinality(h) - 1 /\ Cardinality(h) \in Nat
      BY <3>1, Cardinalities
    <3> QED
      BY <3>1, <3>2
  <2>2. /\ Frames(h) = Frames(h \ {q}) \cup {q.frame}
        /\ Frames(f \cup {q}) = Frames(f) \cup {q.frame}
    BY FramesOf
  <2>3. /\ Whole(h \ {q}, f \cup {q}, l, p \div t)
        /\ Whole(h \ {q}, f, l \cup {q.frame}, p \div t)
    BY <2>2, Zenon DEF Stream, Whole
  <2> QED
    BY <2>1, <2>3, Zenon DEF Stream
<1>2. Stream({}, f, l \cup Frames(h), t, p, d, D)
  <2>1. IsFiniteSet({}) /\ Cardinality({}) <= d
    BY FS_EmptySet
  <2>2. Frames({}) = {}
    BY DEF Frames
  <2>3. Whole({}, f, l \cup Frames(h), p \div t)
    BY <2>2, Zenon DEF Stream, Whole
  <2> QED
    BY <2>1, <2>3, Zenon DEF Stream
<1> QED
  BY <1>1, <1>2

\* The encoder is given the next frame: it gives a packet if it has too many, and the
\* frame, or the packet, may be lost.
LEMMA Enters ==
  ASSUME NEW h, NEW f, NEW l, NEW t \in Nat \ {0}, NEW p \in Nat, NEW d \in Nat, NEW D \in Nat,
         Stream(h, f, l, t, p, d, D), p < D, NEW n, n = p \div t + 1, NEW g,
         g = h \cup {Show(n, n)}
  PROVE  /\ g \subseteq AsGiven /\ Cardinality(g) \in Nat
         /\ \A q \in g : /\ Stream(g \ {q}, f \cup {q}, l, t, p + t, d, D)
                         /\ Stream(g \ {q}, f, l \cup {q.frame}, t, p + t, d, D)
         /\ Cardinality(g) <= d => Stream(g, f, l, t, p + t, d, D)
         /\ Stream(h, f, l \cup {n}, t, p + t, d, D)
<1>1. /\ h \subseteq AsGiven /\ f \subseteq AsGiven /\ IsFiniteSet(h) /\ Cardinality(h) <= d
      /\ Frames(h) \cup Frames(f) \cup l = 1 .. p \div t
      /\ p \div t \in Nat /\ p = t * (p \div t)
  BY DEF Stream, Whole
<1>2. /\ p + t = t * n /\ (p + t) \div t = n /\ 1 .. n = (1 .. p \div t) \cup {n} /\ n \in Nat
      /\ p + t < D + t
  <2>1. /\ p + t = t * (p \div t + 1) /\ (p + t) \div t = p \div t + 1
        /\ 1 .. p \div t + 1 = (1 .. p \div t) \cup {p \div t + 1}
    BY <1>1, NextFrame
  <2>2. n \in Nat /\ p + t < D + t
    BY <1>1
  <2> QED
    BY <2>1, <2>2
<1>3. /\ IsFiniteSet(g) /\ Cardinality(g) \in Nat /\ Cardinality(g) <= Cardinality(h) + 1
      /\ Cardinality(h) \in Nat
  BY <1>1, Cardinalities
<1>4. /\ g \subseteq AsGiven /\ Frames(g) = Frames(h) \cup {n}
  <2>1. Show(n, n) \in AsGiven /\ Show(n, n).frame = n
    BY <1>2, ShowsItself
  <2>2. Frames(h \cup {Show(n, n)}) = Frames(h) \cup {Show(n, n).frame}
    BY FramesOf
  <2> QED
    BY <1>1, <2>1, <2>2, Zenon
<1>5. Cardinality(g) <= d + 1 /\ d + 1 \in Nat
  BY <1>1, <1>3
<1>6. ASSUME NEW k \in Nat, Cardinality(g) <= k PROVE Stream(g, f, l, t, p + t, k, D)
  BY <1>1, <1>2, <1>3, <1>4, <1>6 DEF Stream, Whole
<1>7. Stream(h, f, l \cup {n}, t, p + t, d, D)
  BY <1>1, <1>2, <1>3 DEF Stream, Whole
<1>8. ASSUME NEW q \in g
      PROVE  /\ Stream(g \ {q}, f \cup {q}, l, t, p + t, d, D)
             /\ Stream(g \ {q}, f, l \cup {q.frame}, t, p + t, d, D)
  <2>1. Stream(g, f, l, t, p + t, d + 1, D)
    BY <1>5, <1>6
  <2>2. /\ Stream(g \ {q}, f \cup {q}, l, t, p + t, d + 1, D)
        /\ Stream(g \ {q}, f, l \cup {q.frame}, t, p + t, d + 1, D)
    BY <1>5, <2>1, Leaves
  <2>3. Cardinality(g \ {q}) <= d
    <3>1. Cardinality(g \ {q}) = Cardinality(g) - 1
      BY <1>3, Cardinalities
    <3> QED
      BY <1>3, <1>5, <3>1
  <2> QED
    BY <2>2, <2>3 DEF Stream
<1> QED
  BY <1>3, <1>4, <1>6, <1>7, <1>8

\* Nothing was made.
LEMMA Fresh ==
  ASSUME NEW t \in Nat \ {0}, NEW d \in Nat, NEW D
  PROVE  Stream({}, {}, {}, t, 0, d, D)
<1>1. t * 0 = 0 /\ 0 \in Nat
  OBVIOUS
<1>2. 0 \div t = 0
  BY <1>1, Quotient
<1>3. IsFiniteSet({}) /\ Cardinality({}) = 0
  BY FS_EmptySet
<1>4. Frames({}) = {} /\ 1 .. 0 = {}
  BY DEF Frames
<1> QED
  BY <1>1, <1>2, <1>3, <1>4 DEF Stream, Whole

\* How many frames of length t start before D.
Starting(D, t) == (D + t - 1) \div t

\* When the stream is over its frames are those that start before D.
LEMMA Over ==
  ASSUME NEW h, NEW f, NEW l, NEW t \in Nat \ {0}, NEW p \in Nat, NEW d, NEW D \in Nat,
         Stream(h, f, l, t, p, d, D), p > 0, p >= D
  PROVE  Frames(h) \cup Frames(f) \cup l = 1 .. Starting(D, t)
<1> DEFINE n == p \div t
<1>1. n \in Nat /\ p = t * n /\ p < D + t /\ Frames(h) \cup Frames(f) \cup l = 1 .. n
  BY DEF Stream, Whole
<1> HIDE DEF n
<1>2. Starting(D, t) = n
  BY <1>1, RoundedUp DEF Starting
<1> QED
  BY <1>1, <1>2

\* What the variables hold.
Kinds(T) ==
  /\ frameTime \in [Streams -> 1 .. T] /\ delay \in [Streams -> 0 .. MaxDelay]
  /\ encode \subseteq Streams /\ next_pts \in [Streams -> Nat]
  /\ held \in [Streams -> SUBSET AsGiven] /\ file \in [Streams -> SUBSET AsGiven]

\* A frame that is filled after it was made writable overwrites none in the encoder.
LEMMA NotOverwritten ==
  ASSUME NEW s
  PROVE  Fed(s, make_writable(s)) = held[s] \cup {Show(Number(s), Number(s))}
<1>1. \A f \in held[s] : f.frame \notin make_writable(s)
  BY DEF make_writable
<1> QED
  BY <1>1 DEF Fed

\* The instances count a set as this module does.
LEMMA SameCount ==
  ASSUME NEW S
  PROVE  Images!Cardinality(S) = Cardinality(S) /\ AVMux!Cardinality(S) = Cardinality(S)
BY Zenon DEF Images!Cardinality, AVMux!Cardinality, Cardinality

-------------------------------------------------------------------------------
(* main_mux.                                                               *)

MuxStream(s) ==
  Stream(held[s], file[s], {}, frameTime[s], next_pts[s], delay[s], StreamDuration)

\* A stream that is not encoded has not begun, or its encoder was emptied at the end.
Finished(s) ==
  s \notin encode => next_pts[s] = 0 \/ (held[s] = {} /\ next_pts[s] >= StreamDuration)

IInv ==
  /\ Kinds(MaxFrameTime)
  /\ \A s \in Streams : MuxStream(s) /\ Finished(s)
  /\ stage = "streams" => \A s \in Streams : next_pts[s] = 0
  /\ stage \in {"trailer", "done"} => encode = {}

LEMMA MuxFacts ==
  ASSUME MuxerAssumption, Kinds(MaxFrameTime), NEW s \in Streams
  PROVE  /\ frameTime[s] \in Nat \ {0} /\ delay[s] \in Nat /\ next_pts[s] \in Nat
         /\ StreamDuration \in Nat
<1>1. frameTime[s] \in 1 .. MaxFrameTime /\ delay[s] \in 0 .. MaxDelay /\ next_pts[s] \in Nat
  BY DEF Kinds
<1> QED
  BY <1>1 DEF MuxerAssumption

LEMMA InitInv == MuxerAssumption /\ Init => IInv
<1> SUFFICES ASSUME MuxerAssumption, Init PROVE IInv
  OBVIOUS
<1>1. Kinds(MaxFrameTime)
  BY DEF Init, CoreInit, Kinds, MuxerAssumption
<1>2. ASSUME NEW s \in Streams PROVE MuxStream(s) /\ Finished(s) /\ next_pts[s] = 0
  <2>1. held[s] = {} /\ file[s] = {} /\ next_pts[s] = 0
    BY DEF Init, CoreInit
  <2> QED
    BY <1>1, <2>1, MuxFacts, Fresh DEF MuxStream, Finished
<1> QED
  BY <1>1, <1>2 DEF IInv, Init, CoreInit

\* The steps before and after the loop, and a failure.
LEMMA QuietStep ==
  ASSUME IInv, UNCHANGED <<codecVars, streamVars>>,
         encode' \subseteq Streams, stage' # "streams" \/ stage = "streams",
         stage = "streams" \/ encode' = encode,
         stage' \in {"trailer", "done"} => encode' = {}
  PROVE  IInv'
BY DEF IInv, Kinds, MuxStream, Finished, codecVars, streamVars

\* One turn of the loop.
LEMMA WriteStep ==
  ASSUME MuxerAssumption, IInv, stage = "encode", NEW s \in Streams, s \in encode, Write(s)
  PROVE  IInv'
<1>0. /\ frameTime' = frameTime /\ delay' = delay /\ stage' = stage /\ Kinds(MaxFrameTime)
      /\ MuxStream(s)
  BY DEF Write, codecVars, IInv
<1>1. /\ frameTime[s] \in Nat \ {0} /\ delay[s] \in Nat /\ next_pts[s] \in Nat
      /\ StreamDuration \in Nat /\ held[s] \subseteq AsGiven /\ file[s] \subseteq AsGiven
  BY <1>0, MuxFacts DEF Kinds
<1>2. ASSUME NEW t \in Streams, t # s PROVE MuxStream(t)' /\ Finished(t)'
  <2>1. /\ held'[t] = held[t] /\ file'[t] = file[t] /\ next_pts'[t] = next_pts[t]
        /\ t \in encode' <=> t \in encode
    BY <1>0, <1>2 DEF Write, EncodeAndWrite, FillFrame, NoMoreFrames, Kinds
  <2> QED
    BY <1>0, <2>1 DEF IInv, MuxStream, Finished
<1>3. ASSUME Kinds(MaxFrameTime)', MuxStream(s)', Finished(s)' PROVE IInv'
  BY <1>0, <1>2, <1>3 DEF IInv
<1>4. CASE MoreFrames(s)
  <2> DEFINE g == Fed(s, make_writable(s))
             n == Number(s)
  <2>1. /\ FillFrame(s, make_writable(s)) /\ EncodeAndWrite(s, g, delay[s]) /\ encode' = encode
        /\ next_pts[s] < StreamDuration
    BY <1>4 DEF Write, MoreFrames
  <2>2. g = held[s] \cup {Show(n, n)} /\ n = next_pts[s] \div frameTime[s] + 1
    BY NotOverwritten DEF Number
  <2> HIDE DEF g, n
  <2>3. next_pts'[s] = next_pts[s] + frameTime[s] /\ next_pts' \in [Streams -> Nat]
    BY <1>0, <1>1, <2>1 DEF FillFrame, Kinds
  <2>4. /\ g \subseteq AsGiven
        /\ \A q \in g : Stream(g \ {q}, file[s] \cup {q}, {}, frameTime[s], next_pts'[s],
                               delay[s], StreamDuration)
        /\ Cardinality(g) <= delay[s] =>
             Stream(g, file[s], {}, frameTime[s], next_pts'[s], delay[s], StreamDuration)
    <3>1. Stream(held[s], file[s], {}, frameTime[s], next_pts[s], delay[s], StreamDuration)
      BY <1>0 DEF MuxStream
    <3>2. /\ g \subseteq AsGiven
          /\ \A q \in g : Stream(g \ {q}, file[s] \cup {q}, {}, frameTime[s],
                                 next_pts[s] + frameTime[s], delay[s], StreamDuration)
          /\ Cardinality(g) <= delay[s] =>
               Stream(g, file[s], {}, frameTime[s], next_pts[s] + frameTime[s], delay[s],
                      StreamDuration)
      BY <1>1, <2>1, <2>2, <3>1, Enters
    <3> QED
      BY <2>3, <3>2
  <2>5. CASE \E f \in g : /\ held' = [held EXCEPT ![s] = g \ {f}]
                          /\ file' = [file EXCEPT ![s] = @ \cup {f}]
    <3>1. PICK f \in g : /\ held' = [held EXCEPT ![s] = g \ {f}]
                         /\ file' = [file EXCEPT ![s] = @ \cup {f}]
      BY <2>5
    <3>2. held'[s] = g \ {f} /\ file'[s] = file[s] \cup {f}
      BY <1>0, <3>1 DEF Kinds
    <3>3. held' \in [Streams -> SUBSET AsGiven] /\ file' \in [Streams -> SUBSET AsGiven]
      BY <1>0, <1>1, <2>4, <3>1 DEF Kinds
    <3>4. MuxStream(s)'
      BY <1>0, <2>4, <3>2 DEF MuxStream
    <3> QED
      BY <1>0, <1>3, <2>1, <2>3, <3>3, <3>4 DEF Kinds, Finished
  <2>6. CASE Cardinality(g) <= delay[s] /\ held' = [held EXCEPT ![s] = g] /\ file' = file
    <3>1. held'[s] = g /\ held' \in [Streams -> SUBSET AsGiven]
      BY <1>0, <2>4, <2>6 DEF Kinds
    <3>2. MuxStream(s)'
      BY <1>0, <2>4, <2>6, <3>1 DEF MuxStream
    <3> QED
      BY <1>0, <1>3, <2>1, <2>3, <2>6, <3>1, <3>2 DEF Kinds, Finished
  <2> QED
    BY <2>1, <2>5, <2>6 DEF EncodeAndWrite
<1>5. CASE ~MoreFrames(s)
  <2>1. /\ next_pts' = next_pts /\ EncodeAndWrite(s, held[s], 0)
        /\ encode' = IF held[s] = {} THEN encode \ {s} ELSE encode
        /\ next_pts[s] >= StreamDuration
    BY <1>1, <1>5 DEF Write, NoMoreFrames, MoreFrames
  <2>2. CASE \E f \in held[s] : /\ held' = [held EXCEPT ![s] = held[s] \ {f}]
                                /\ file' = [file EXCEPT ![s] = @ \cup {f}]
    <3>1. PICK f \in held[s] : /\ held' = [held EXCEPT ![s] = held[s] \ {f}]
                               /\ file' = [file EXCEPT ![s] = @ \cup {f}]
      BY <2>2
    <3>2. held'[s] = held[s] \ {f} /\ file'[s] = file[s] \cup {f}
      BY <1>0, <3>1 DEF Kinds
    <3>3. held' \in [Streams -> SUBSET AsGiven] /\ file' \in [Streams -> SUBSET AsGiven]
      BY <1>0, <1>1, <3>1 DEF Kinds
    <3>4. MuxStream(s)'
      <4>1. Stream(held[s], file[s], {}, frameTime[s], next_pts[s], delay[s], StreamDuration)
        BY <1>0 DEF MuxStream
      <4>2. Stream(held[s] \ {f}, file[s] \cup {f}, {}, frameTime[s], next_pts[s], delay[s],
                   StreamDuration)
        BY <1>1, <4>1, Leaves
      <4> QED
        BY <1>0, <2>1, <3>2, <4>2 DEF MuxStream
    <3>5. encode' = encode
      BY <2>1, <3>1
    <3> QED
      BY <1>0, <1>3, <2>1, <3>3, <3>4, <3>5 DEF Kinds, Finished
  <2>3. CASE Cardinality(held[s]) <= 0 /\ held' = [held EXCEPT ![s] = held[s]] /\ file' = file
    <3>1. held' = held
      BY <1>0, <2>3 DEF Kinds
    <3>2. held[s] = {}
      <4>1. IsFiniteSet(held[s]) /\ Cardinality(held[s]) \in Nat
        BY <1>0, FS_CardinalityType DEF MuxStream, Stream
      <4>2. Cardinality(held[s]) = 0
        BY <2>3, <4>1
      <4> QED
        BY <4>1, <4>2, FS_EmptySet
    <3> QED
      BY <1>0, <1>3, <2>1, <2>3, <3>1, <3>2 DEF Kinds, Finished, MuxStream
  <2> QED
    BY <2>1, <2>2, <2>3 DEF EncodeAndWrite
<1> QED
  BY <1>4, <1>5

LEMMA NextInv == MuxerAssumption /\ IInv /\ [Next]_vars => IInv'
<1> SUFFICES ASSUME MuxerAssumption, IInv, [Next]_vars PROVE IInv'
  OBVIOUS
<1>1. CASE AddStreams \/ OpenVideo \/ OpenAudio \/ WriteHeader
  BY <1>1, QuietStep
  DEF AddStreams, OpenVideo, OpenAudio, WriteHeader, IInv, Kinds
<1>2. CASE WriteTrailer \/ CloseStreams
  BY <1>2, QuietStep DEF WriteTrailer, CloseStreams, IInv, Kinds
<1>3. CASE Exit
  BY <1>3, QuietStep DEF Exit, IInv, Kinds
<1>4. CASE write_audio_frame
  <2>1. stage = "encode" /\ "audio" \in encode /\ "audio" \in Streams
    BY <1>4 DEF write_audio_frame, NextStream, IInv, Kinds, Streams
  <2> QED
    BY <1>3, <1>4, <2>1, WriteStep DEF write_audio_frame
<1>5. CASE write_video_frame
  <2>1. stage = "encode" /\ "video" \in encode /\ "video" \in Streams
    BY <1>5 DEF write_video_frame, NextStream, IInv, Kinds, Streams
  <2> QED
    BY <1>3, <1>5, <2>1, WriteStep DEF write_video_frame, LoadImageFails
<1>6. CASE UNCHANGED vars
  BY <1>6, QuietStep DEF vars, coreVars, IInv, Kinds
<1> QED
  BY <1>1, <1>2, <1>4, <1>5, <1>6 DEF Next

THEOREM Invariance == MuxerAssumption /\ Spec => []IInv
<1> SUFFICES ASSUME MuxerAssumption PROVE Spec => []IInv
  OBVIOUS
<1>1. Init => IInv
  BY InitInv
<1>2. IInv /\ [Next]_vars => IInv'
  BY NextInv
<1> QED
  BY <1>1, <1>2, PTL DEF Spec

LEMMA ShownAsGiven == IInv => EncodedAsGiven
<1> SUFFICES ASSUME IInv, NEW s \in Streams, NEW f \in file[s] PROVE f.shows = f.frame
  BY DEF EncodedAsGiven
<1>1. f \in AsGiven
  BY DEF IInv, Kinds
<1> QED
  BY <1>1 DEF AsGiven, Show

LEMMA AllWritten == MuxerAssumption /\ IInv => AllFramesWritten
<1> SUFFICES ASSUME MuxerAssumption, IInv, stage \in {"trailer", "done"}, NEW s \in Streams
             PROVE  Frames(file[s]) = IF next_pts[s] = 0 THEN {} ELSE 1 .. Total(s)
  BY DEF AllFramesWritten
<1>1. /\ next_pts[s] = 0 \/ (held[s] = {} /\ next_pts[s] >= StreamDuration)
      /\ MuxStream(s)
      /\ frameTime[s] \in Nat \ {0} /\ next_pts[s] \in Nat /\ StreamDuration \in Nat
  BY MuxFacts DEF IInv, Finished
<1>2. CASE next_pts[s] = 0
  <2>1. frameTime[s] * 0 = 0
    BY <1>1, Product
  <2>2. 0 \div frameTime[s] = 0
    BY <1>1, <2>1, Quotient
  <2>3. 1 .. 0 = {}
    OBVIOUS
  <2>4. Frames(file[s]) = {}
    BY <1>1, <1>2, <2>2, <2>3 DEF MuxStream, Stream, Whole
  <2> QED
    BY <1>2, <2>4
<1>3. CASE next_pts[s] # 0
  <2>1. Frames({}) = {}
    BY DEF Frames
  <2>2. next_pts[s] > 0 /\ held[s] = {} /\ next_pts[s] >= StreamDuration
    BY <1>1, <1>3
  <2>3. Frames(held[s]) \cup Frames(file[s]) \cup {}
          = 1 .. Starting(StreamDuration, frameTime[s])
    <3>1. PICK h, f, l, t, p, d, D :
            /\ h = held[s] /\ f = file[s] /\ l = {} /\ t = frameTime[s]
            /\ p = next_pts[s] /\ d = delay[s] /\ D = StreamDuration
      OBVIOUS
    <3>2. Stream(h, f, l, t, p, d, D)
      BY <1>1, <3>1, Zenon DEF MuxStream
    <3>3. t \in Nat \ {0} /\ p \in Nat /\ D \in Nat /\ p > 0 /\ p >= D
      BY <1>1, <2>2, <3>1
    <3>4. Frames(h) \cup Frames(f) \cup l = 1 .. Starting(D, t)
      BY <3>2, <3>3, Over
    <3> QED
      BY <3>1, <3>4
  <2> QED
    BY <1>3, <2>1, <2>2, <2>3, Zenon DEF Total, Starting
<1> QED
  BY <1>2, <1>3

LEMMA KeepStep ==
  MuxerAssumption /\ IInv /\ StreamsInterleaved /\ [Next]_vars => StreamsInterleaved'
<1> SUFFICES ASSUME MuxerAssumption, IInv, StreamsInterleaved, [Next]_vars, encode' = Streams
             PROVE  /\ next_pts'["video"] <= next_pts'["audio"] + frameTime'["video"]
                    /\ next_pts'["audio"] <= next_pts'["video"] + frameTime'["audio"]
  BY DEF StreamsInterleaved
<1>1. /\ "video" \in Streams /\ "audio" \in Streams
      /\ next_pts \in [Streams -> Nat]
      /\ next_pts["video"] \in Nat /\ next_pts["audio"] \in Nat
      /\ frameTime["video"] \in Nat \ {0} /\ frameTime["audio"] \in Nat \ {0}
  BY SMTT(30) DEF IInv, Kinds, Streams, MuxerAssumption
<1>2. CASE AddStreams
  <2>2. next_pts["video"] = 0 /\ next_pts["audio"] = 0
    BY <1>1, <1>2 DEF AddStreams, IInv
  <2>3. next_pts' = next_pts /\ frameTime' = frameTime
    BY <1>2 DEF AddStreams, codecVars, streamVars
  <2> QED
    BY <1>1, <2>2, <2>3
<1>3. CASE /\ stage = "encode" /\ frameTime' = frameTime
           /\ \E s \in Streams :
                /\ s = IF next_pts["video"] <= next_pts["audio"] THEN "video" ELSE "audio"
                /\ next_pts' \in {next_pts, [next_pts EXCEPT ![s] = @ + frameTime[s]]}
                /\ encode' = Streams => encode = Streams
  BY <1>1, <1>3 DEF StreamsInterleaved, Streams
<1>4. CASE next_pts' = next_pts /\ frameTime' = frameTime /\ encode' = encode
  BY <1>4 DEF StreamsInterleaved
<1>5. CASE write_audio_frame \/ write_video_frame
  <2>1. CASE Exit
    BY <1>4, <2>1 DEF Exit, codecVars, streamVars
  <2>2. ASSUME NEW s \in Streams, NextStream(s), Write(s)
        PROVE  /\ next_pts'["video"] <= next_pts'["audio"] + frameTime'["video"]
               /\ next_pts'["audio"] <= next_pts'["video"] + frameTime'["audio"]
    <3>1. encode = Streams
      BY <2>2 DEF Write, IInv, Kinds
    <3>2. s = IF next_pts["video"] <= next_pts["audio"] THEN "video" ELSE "audio"
      BY <1>1, <2>2, <3>1 DEF NextStream, Behind
    <3>3. next_pts' \in {next_pts, [next_pts EXCEPT ![s] = @ + frameTime[s]]}
      BY <2>2 DEF Write, FillFrame, NoMoreFrames
    <3>4. frameTime' = frameTime /\ stage = "encode"
      BY <2>2 DEF Write, codecVars, NextStream
    <3> QED
      BY <1>3, <3>1, <3>2, <3>3, <3>4
  <2> QED
    BY <1>1, <1>5, <2>1, <2>2
    DEF write_audio_frame, write_video_frame, LoadImageFails
<1> QED
  BY <1>2, <1>4, <1>5
  DEF Next, OpenVideo, OpenAudio, WriteHeader, WriteTrailer, CloseStreams, codecVars,
      streamVars, vars, coreVars

\* Every packet shows the frame the encoder was given with its time stamp, however long
\* the encoder keeps its references to the buffers, and in whatever order it encodes.
THEOREM FramesEncodedAsGiven == MuxerAssumption /\ Spec => []EncodedAsGiven
BY Invariance, ShownAsGiven, PTL

\* When the trailer is written the file has every frame that starts before the duration
\* is over, those the encoders held back included.
THEOREM EveryFrameWritten == MuxerAssumption /\ Spec => []AllFramesWritten
<1> SUFFICES ASSUME MuxerAssumption PROVE Spec => []AllFramesWritten
  OBVIOUS
<1>1. IInv => AllFramesWritten
  BY AllWritten
<1> QED
  BY Invariance, <1>1, PTL

\* Writing the stream that is behind keeps the two within a frame of each other,
\* whatever the frames of each last.
THEOREM NeitherRunsAhead == MuxerAssumption /\ Spec => []StreamsInterleaved
<1> SUFFICES ASSUME MuxerAssumption PROVE Spec => []StreamsInterleaved
  OBVIOUS
<1>1. Init => StreamsInterleaved
  BY DEF Init, CoreInit, StreamsInterleaved, Streams
<1>2. IInv /\ StreamsInterleaved /\ [Next]_vars => StreamsInterleaved'
  BY KeepStep
<1> QED
  BY Invariance, <1>1, <1>2, PTL DEF Spec

\* The types of main_mux.
Stages == {"streams", "open", "audio", "header", "encode", "trailer", "done", "exited"}

LEMMA StageStep == stage \in Stages /\ [Next]_vars => stage' \in Stages
BY DEF Stages, Next, vars, coreVars, AddStreams, OpenVideo, OpenAudio, WriteHeader,
       write_audio_frame, write_video_frame, LoadImageFails, Write, Exit, WriteTrailer,
       CloseStreams, streamVars, codecVars

LEMMA MuxTyped == MuxerAssumption /\ IInv /\ stage \in Stages => TypeOK
<1> SUFFICES ASSUME MuxerAssumption, IInv, stage \in Stages PROVE TypeOK
  OBVIOUS
<1>1. ASSUME NEW s \in Streams
      PROVE  /\ next_pts[s] \in 0 .. StreamDuration + MaxFrameTime
             /\ Cardinality(held[s]) <= delay[s]
  <2>1. /\ frameTime[s] \in 1 .. MaxFrameTime /\ MaxFrameTime \in Nat /\ StreamDuration \in Nat
        /\ next_pts[s] \in Nat /\ (next_pts[s] > 0 => next_pts[s] < StreamDuration + frameTime[s])
        /\ Cardinality(held[s]) <= delay[s]
    BY DEF IInv, Kinds, MuxerAssumption, MuxStream, Stream
  <2> QED
    BY <2>1
<1>2. next_pts \in [Streams -> 0 .. StreamDuration + MaxFrameTime]
  BY <1>1 DEF IInv, Kinds
<1> QED
  BY <1>1, <1>2 DEF TypeOK, CoreTypeOK, Stages, IInv, Kinds

-------------------------------------------------------------------------------
(* Packets in order: what a file has and what its encoder holds.           *)

\* The numbers of f ascend, those of h follow them, and all are below n.
InOrder(f, h, n) ==
  /\ f \in Seq(Nat) /\ h \in Seq(Nat)
  /\ \A i, j \in 1 .. Len(f) : i < j => f[i] < f[j]
  /\ \A i, j \in 1 .. Len(h) : i < j => h[i] < h[j]
  /\ \A i \in 1 .. Len(f), j \in 1 .. Len(h) : f[i] < h[j]
  /\ \A i \in 1 .. Len(f) : f[i] < n
  /\ \A j \in 1 .. Len(h) : h[j] < n

LEMMA OrderMore ==
  ASSUME NEW f, NEW h, NEW n \in Nat, NEW k \in Nat, InOrder(f, h, n), n <= k
  PROVE  InOrder(f, h, k)
<1>1. \A i \in 1 .. Len(f) : f[i] \in Nat /\ f[i] < n
  BY ElementOfSeq DEF InOrder
<1>2. \A i \in 1 .. Len(h) : h[i] \in Nat /\ h[i] < n
  BY ElementOfSeq DEF InOrder
<1>3. /\ \A i \in 1 .. Len(f) : f[i] < k
      /\ \A i \in 1 .. Len(h) : h[i] < k
  BY <1>1, <1>2
<1> QED
  BY <1>3 DEF InOrder

LEMMA OrderFeed ==
  ASSUME NEW f, NEW h, NEW n \in Nat, NEW m \in Nat, NEW k \in Nat,
         InOrder(f, h, n), n <= m, m < k
  PROVE  InOrder(f, Append(h, m), k)
<1> DEFINE g == Append(h, m)
<1>1. /\ f \in Seq(Nat) /\ h \in Seq(Nat) /\ Len(h) \in Nat /\ Len(f) \in Nat
      /\ \A i \in 1 .. Len(f) : f[i] \in Nat /\ f[i] < n
      /\ \A i \in 1 .. Len(h) : h[i] \in Nat /\ h[i] < n
  BY ElementOfSeq, LenProperties DEF InOrder
<1>2. /\ g \in Seq(Nat) /\ Len(g) = Len(h) + 1
      /\ \A i \in 1 .. Len(h) : g[i] = h[i]
      /\ g[Len(h) + 1] = m
  BY <1>1, AppendProperties
<1> HIDE DEF g
<1>3. \A i \in 1 .. Len(g) : i \in 1 .. Len(h) \/ i = Len(h) + 1
  BY <1>1, <1>2
<1>4. \A i, j \in 1 .. Len(g) : i < j => g[i] < g[j]
  <2> SUFFICES ASSUME NEW i \in 1 .. Len(g), NEW j \in 1 .. Len(g), i < j
               PROVE  g[i] < g[j]
    OBVIOUS
  <2>1. i \in 1 .. Len(h)
    BY <1>1, <1>2
  <2>2. CASE j \in 1 .. Len(h)
    BY <1>2, <2>1, <2>2 DEF InOrder
  <2>3. CASE j = Len(h) + 1
    <3>1. g[i] \in Nat /\ g[i] < n /\ g[j] = m
      BY <1>1, <1>2, <2>1, <2>3
    <3> QED
      BY <3>1
  <2> QED
    BY <1>3, <2>2, <2>3
<1>5. \A i \in 1 .. Len(f), j \in 1 .. Len(g) : f[i] < g[j]
  <2> SUFFICES ASSUME NEW i \in 1 .. Len(f), NEW j \in 1 .. Len(g)
               PROVE  f[i] < g[j]
    OBVIOUS
  <2>1. CASE j \in 1 .. Len(h)
    BY <1>2, <2>1 DEF InOrder
  <2>2. CASE j = Len(h) + 1
    BY <1>1, <1>2, <2>2
  <2> QED
    BY <1>3, <2>1, <2>2
<1>6. \A i \in 1 .. Len(f) : f[i] < k
  BY <1>1
<1>7. \A j \in 1 .. Len(g) : g[j] < k
  <2> SUFFICES ASSUME NEW j \in 1 .. Len(g) PROVE g[j] < k
    OBVIOUS
  <2>1. CASE j \in 1 .. Len(h)
    <3>1. h[j] \in Nat /\ h[j] < n /\ g[j] = h[j]
      BY <1>1, <1>2, <2>1
    <3> QED
      BY <3>1
  <2>2. CASE j = Len(h) + 1
    BY <1>2, <2>2
  <2> QED
    BY <1>3, <2>1, <2>2
<1>8. \A i, j \in 1 .. Len(f) : i < j => f[i] < f[j]
  BY DEF InOrder
<1>9. InOrder(f, g, k)
  BY <1>1, <1>2, <1>4, <1>5, <1>6, <1>7, <1>8 DEF InOrder
<1> QED
  BY <1>9 DEF g

\* The oldest that is held is written, or lost.
LEMMA OrderOut ==
  ASSUME NEW f, NEW h, NEW n \in Nat, InOrder(f, h, n), h # <<>>
  PROVE  /\ InOrder(Append(f, Head(h)), Tail(h), n) /\ InOrder(f, Tail(h), n)
         /\ Len(h) \in Nat \ {0} /\ Len(Tail(h)) = Len(h) - 1
         /\ Len(Append(f, Head(h))) = Len(f) + 1
<1> DEFINE x == Head(h)
           t == Tail(h)
           g == Append(f, x)
<1>1. /\ f \in Seq(Nat) /\ h \in Seq(Nat) /\ Len(h) \in Nat \ {0} /\ Len(f) \in Nat
      /\ \A i \in 1 .. Len(f) : f[i] \in Nat
      /\ \A i \in 1 .. Len(h) : h[i] \in Nat
  BY ElementOfSeq, LenProperties, EmptySeq DEF InOrder
<1>2. /\ t \in Seq(Nat) /\ Len(t) = Len(h) - 1 /\ x \in Nat /\ x = h[1]
      /\ \A i \in 1 .. Len(t) : t[i] = h[i + 1]
  BY <1>1, HeadTailProperties
<1> HIDE DEF x, t
<1>3. /\ g \in Seq(Nat) /\ Len(g) = Len(f) + 1
      /\ \A i \in 1 .. Len(f) : g[i] = f[i]
      /\ g[Len(f) + 1] = x
  BY <1>1, <1>2, AppendProperties
<1> HIDE DEF g
<1>4. /\ 1 \in 1 .. Len(h)
      /\ \A i \in 1 .. Len(t) : i \in Nat /\ i + 1 \in 1 .. Len(h) /\ 1 < i + 1
  BY <1>1, <1>2
<1>5. /\ x < n /\ \A i \in 1 .. Len(f) : f[i] < x
      /\ \A i \in 1 .. Len(t) : x < t[i] /\ t[i] < n
  BY <1>2, <1>4 DEF InOrder
<1>6. \A i, j \in 1 .. Len(t) : i < j => t[i] < t[j]
  <2> SUFFICES ASSUME NEW i \in 1 .. Len(t), NEW j \in 1 .. Len(t), i < j
               PROVE  t[i] < t[j]
    OBVIOUS
  <2>1. i \in Nat /\ j \in Nat
    BY <1>4
  <2>2. i + 1 < j + 1
    BY <2>1
  <2> QED
    BY <1>2, <1>4, <2>2 DEF InOrder
<1>7. \A i \in 1 .. Len(f), j \in 1 .. Len(t) : f[i] < t[j]
  BY <1>2, <1>4 DEF InOrder
<1>8. InOrder(f, t, n)
  BY <1>1, <1>2, <1>5, <1>6, <1>7 DEF InOrder
<1>9. \A i \in 1 .. Len(g) : i \in 1 .. Len(f) \/ i = Len(f) + 1
  BY <1>1, <1>3
<1>10. \A i, j \in 1 .. Len(g) : i < j => g[i] < g[j]
  <2> SUFFICES ASSUME NEW i \in 1 .. Len(g), NEW j \in 1 .. Len(g), i < j
               PROVE  g[i] < g[j]
    OBVIOUS
  <2>1. i \in 1 .. Len(f)
    BY <1>1, <1>3
  <2>2. CASE j \in 1 .. Len(f)
    BY <1>3, <2>1, <2>2 DEF InOrder
  <2>3. CASE j = Len(f) + 1
    BY <1>3, <1>5, <2>1, <2>3
  <2> QED
    BY <1>9, <2>2, <2>3
<1>11. \A i \in 1 .. Len(g), j \in 1 .. Len(t) : g[i] < t[j]
  BY <1>3, <1>5, <1>7, <1>9
<1>12. \A i \in 1 .. Len(g) : g[i] < n
  BY <1>3, <1>5, <1>8, <1>9 DEF InOrder
<1>13. InOrder(g, t, n)
  BY <1>2, <1>3, <1>5, <1>6, <1>10, <1>11, <1>12 DEF InOrder
<1> QED
  BY <1>1, <1>2, <1>3, <1>8, <1>13 DEF g, t, x

LEMMA OrderWhole ==
  ASSUME NEW f, NEW h, NEW n \in Nat, InOrder(f, h, n)
  PROVE  \A a, b \in 1 .. Len(f) + Len(h) : a < b => (f \o h)[a] < (f \o h)[b]
<1>1. /\ f \in Seq(Nat) /\ h \in Seq(Nat) /\ Len(h) \in Nat /\ Len(f) \in Nat
      /\ \A i \in 1 .. Len(f) : f[i] \in Nat
      /\ \A i \in 1 .. Len(h) : h[i] \in Nat
  BY ElementOfSeq, LenProperties DEF InOrder
<1>2. \A i \in 1 .. Len(f) + Len(h) :
        (f \o h)[i] = IF i <= Len(f) THEN f[i] ELSE h[i - Len(f)]
  BY <1>1, ConcatProperties
<1> SUFFICES ASSUME NEW a \in 1 .. Len(f) + Len(h), NEW b \in 1 .. Len(f) + Len(h), a < b
             PROVE  (f \o h)[a] < (f \o h)[b]
  OBVIOUS
<1>3. /\ a <= Len(f) => a \in 1 .. Len(f)
      /\ b <= Len(f) => b \in 1 .. Len(f) /\ a <= Len(f)
      /\ ~(a <= Len(f)) => a - Len(f) \in 1 .. Len(h)
      /\ ~(b <= Len(f)) => b - Len(f) \in 1 .. Len(h)
      /\ a - Len(f) < b - Len(f)
  BY <1>1
<1>4. CASE b <= Len(f)
  BY <1>2, <1>3, <1>4 DEF InOrder
<1>5. CASE ~(b <= Len(f)) /\ a <= Len(f)
  BY <1>2, <1>3, <1>5 DEF InOrder
<1>6. CASE ~(b <= Len(f)) /\ ~(a <= Len(f))
  BY <1>2, <1>3, <1>6 DEF InOrder
<1> QED
  BY <1>4, <1>5, <1>6

\* The numbers of a sequence.
Numbers(f) == {f[i] : i \in DOMAIN f}

LEMMA NumbersAppend ==
  ASSUME NEW f \in Seq(Nat), NEW x \in Nat
  PROVE  Numbers(Append(f, x)) = Numbers(f) \union {x}
<1> DEFINE g == Append(f, x)
<1>1. /\ Len(f) \in Nat /\ DOMAIN f = 1 .. Len(f)
      /\ g \in Seq(Nat) /\ Len(g) = Len(f) + 1 /\ DOMAIN g = 1 .. Len(g)
      /\ \A i \in 1 .. Len(f) : g[i] = f[i]
      /\ g[Len(f) + 1] = x
  BY AppendProperties, LenProperties
<1> HIDE DEF g
<1>2. DOMAIN g = DOMAIN f \union {Len(f) + 1}
  BY <1>1
<1>3. Numbers(g) = Numbers(f) \union {x}
  BY <1>1, <1>2 DEF Numbers
<1> QED
  BY <1>3 DEF g

LEMMA NumbersTail ==
  ASSUME NEW h \in Seq(Nat), h # <<>>
  PROVE  Numbers(h) = {Head(h)} \union Numbers(Tail(h))
<1> DEFINE t == Tail(h)
           x == Head(h)
<1>1. /\ Len(h) \in Nat \ {0} /\ DOMAIN h = 1 .. Len(h) /\ x = h[1]
      /\ t \in Seq(Nat) /\ Len(t) = Len(h) - 1 /\ DOMAIN t = 1 .. Len(t)
      /\ \A i \in 1 .. Len(t) : t[i] = h[i + 1]
  BY HeadTailProperties, LenProperties, EmptySeq
<1> HIDE DEF t, x
<1>2. \A y : y \in Numbers(h) => y \in {x} \union Numbers(t)
  <2> SUFFICES ASSUME NEW i \in DOMAIN h PROVE h[i] \in {x} \union Numbers(t)
    BY DEF Numbers
  <2>1. CASE i = 1
    BY <1>1, <2>1
  <2>2. CASE i # 1
    <3>1. i - 1 \in 1 .. Len(t) /\ (i - 1) + 1 = i
      BY <1>1, <2>2
    <3>2. t[i - 1] = h[i]
      BY <1>1, <3>1
    <3> QED
      BY <1>1, <3>1, <3>2 DEF Numbers
  <2> QED
    BY <2>1, <2>2
<1>3. \A i \in DOMAIN t : i + 1 \in DOMAIN h /\ h[i + 1] = t[i]
  <2>1. \A i \in 1 .. Len(h) - 1 : i + 1 \in 1 .. Len(h)
    BY <1>1
  <2> QED
    BY <1>1, <2>1, Zenon
<1>4. 1 \in DOMAIN h
  BY <1>1
<1>5. Numbers(h) = {x} \union Numbers(t)
  BY <1>1, <1>2, <1>3, <1>4 DEF Numbers
<1> QED
  BY <1>5 DEF t, x

\* A stamp is given to an encoder that keeps at most d of them: what it holds, what the
\* file has and what was lost change like this.
Puts(f, h, l, g, e, m, p, d) ==
  \/ e = Append(h, p) /\ Len(Append(h, p)) <= d /\ g = f /\ m = l
  \/ /\ Len(Append(h, p)) > d
     /\ e = Tail(Append(h, p))
     /\ \/ g = Append(f, Head(Append(h, p))) /\ m = l
        \/ m = l \union {Head(Append(h, p))} /\ g = f
  \/ m = l \union {p} /\ e = h /\ g = f

Covered(f, h, l) == Numbers(f) \union Numbers(h) \union l

\* Nothing but the stamp is added, and the order is kept.
LEMMA PutsStep ==
  ASSUME NEW f, NEW h, NEW l, NEW g, NEW e, NEW m, NEW p \in Nat, NEW k \in Nat, NEW d \in Nat,
         InOrder(f, h, p), p < k, Len(h) <= d, Puts(f, h, l, g, e, m, p, d)
  PROVE  /\ InOrder(g, e, k) /\ Len(e) <= d
         /\ Covered(g, e, m) = Covered(f, h, l) \union {p}
<1> DEFINE u == Append(h, p)
<1>1. /\ f \in Seq(Nat) /\ h \in Seq(Nat) /\ Len(h) \in Nat
      /\ u \in Seq(Nat) /\ Len(u) = Len(h) + 1 /\ u # <<>>
  BY LenProperties, AppendProperties DEF InOrder
<1>2. InOrder(f, u, k) /\ InOrder(f, h, k)
  BY OrderFeed, OrderMore
<1>3. Numbers(u) = Numbers(h) \union {p}
  BY <1>1, NumbersAppend
<1> HIDE DEF u
<1>4. /\ InOrder(Append(f, Head(u)), Tail(u), k) /\ InOrder(f, Tail(u), k)
      /\ Len(Tail(u)) = Len(u) - 1 /\ Head(u) \in Nat
  BY <1>1, <1>2, OrderOut, HeadTailProperties
<1>5. /\ Numbers(u) = {Head(u)} \union Numbers(Tail(u))
      /\ Numbers(Append(f, Head(u))) = Numbers(f) \union {Head(u)}
  BY <1>1, <1>4, NumbersTail, NumbersAppend
<1>6. CASE e = u /\ Len(u) <= d /\ g = f /\ m = l
  BY <1>2, <1>3, <1>6 DEF Covered
<1>7. CASE Len(u) > d /\ e = Tail(u) /\ g = Append(f, Head(u)) /\ m = l
  BY <1>1, <1>3, <1>4, <1>5, <1>7 DEF Covered
<1>8. CASE Len(u) > d /\ e = Tail(u) /\ m = l \union {Head(u)} /\ g = f
  BY <1>1, <1>3, <1>4, <1>5, <1>8 DEF Covered
<1>9. CASE m = l \union {p} /\ e = h /\ g = f
  BY <1>2, <1>9 DEF Covered
<1> QED
  BY <1>6, <1>7, <1>8, <1>9 DEF Puts, u

-------------------------------------------------------------------------------
(* The camera captured to a file.                                          *)

\* The frames of sound that were encoded: one for each picture but the one in hand.
Encoded ==
  IF camera_pc \in {"write", "exited", "crashed"} /\ pictures > 0 THEN pictures - 1 ELSE pictures

CameraPlaces ==
  {"output", "video", "audio", "header", "camera", "capture", "round", "write",
   "finish", "returned", "exited", "crashed"}

CameraKinds ==
  /\ camera_pc \in CameraPlaces /\ output \in {"none", "open", "header", "closed"}
  /\ {audio, tmp_frame, camera, capture} \subseteq BOOLEAN /\ (audio => tmp_frame)
  /\ camera_inx \in 0 .. CaptureRounds /\ pictures \in 0 .. CaptureRounds
  /\ samples_count \in Nat

\* The rounds and the pictures go together, and there is a round to write.
RoundsInv ==
  /\ camera_inx = Encoded
  /\ camera_pc \in {"output", "video", "audio", "header", "camera", "capture"} => pictures = 0
  /\ camera_pc \in {"round", "write"} => camera_inx < CaptureRounds
  /\ camera_pc = "write" => pictures > 0

\* Each of the samples is of its frame or a later one.
NotOlder(f, g) ==
  g \in Seq(Nat) /\ Len(g) = Len(f) /\ \A i \in 1 .. Len(f) : f[i] <= g[i]

\* How many frames of sound were encoded for n pictures.
Sounds(n) == IF audio THEN n ELSE 0

Stamps(k) == {Samples * n : n \in 0 .. k - 1}

SoundInv ==
  /\ samples_count = Samples * Sounds(Encoded)
  /\ InOrder(camera_file, camera_encoder, samples_count)
  /\ Len(camera_encoder) <= Delay
  /\ Covered(camera_file, camera_encoder, camera_lost) = Stamps(Sounds(Encoded))
  /\ NotOlder(camera_file, samples)

CamInv == CameraKinds /\ RoundsInv /\ SoundInv

LEMMA OrderStart == InOrder(<<>>, <<>>, 0) /\ Covered(<<>>, <<>>, {}) = {}
<1>1. <<>> \in Seq(Nat) /\ Len(<<>>) = 0 /\ DOMAIN <<>> = 1 .. Len(<<>>)
  BY EmptySeq, LenProperties
<1>2. \A i \in 1 .. Len(<<>>) : FALSE
  BY <1>1
<1>3. InOrder(<<>>, <<>>, 0)
  BY <1>1, <1>2 DEF InOrder
<1>4. Numbers(<<>>) = {}
  BY <1>1, <1>2 DEF Numbers
<1> QED
  BY <1>3, <1>4 DEF Covered

LEMMA CameraStart == Camera!CameraCaptureAssumption /\ Camera!Init => CamInv
<1> SUFFICES ASSUME Camera!CameraCaptureAssumption, Camera!Init PROVE CamInv
  OBVIOUS
<1> USE DEF Camera!CameraCaptureAssumption, Camera!Init
<1>1. Encoded = 0 /\ Samples * 0 = 0
  BY DEF Encoded
<1>2. Stamps(0) = {}
  BY DEF Stamps
<1>3. CameraKinds /\ RoundsInv
  <2>1. camera_pc = "output" /\ output = "none" /\ audio = FALSE /\ camera = FALSE
        /\ tmp_frame = FALSE
        /\ capture = FALSE /\ camera_inx = 0 /\ samples_count = 0 /\ pictures = 0
    OBVIOUS
  <2>2. 0 \in 0 .. CaptureRounds /\ 0 < CaptureRounds /\ CaptureRounds \in Nat
    OBVIOUS
  <2>3. {audio, tmp_frame, camera, capture} \subseteq BOOLEAN
    BY <2>1
  <2>4. CameraKinds
    BY <2>1, <2>2, <2>3 DEF CameraKinds, CameraPlaces
  <2>5. RoundsInv
    BY <1>1, <2>1, <2>2 DEF RoundsInv
  <2> QED
    BY <2>4, <2>5
<1>4. Len(camera_encoder) = 0
  BY EmptySeq
<1>5. SoundInv
  <2>1. Sounds(Encoded) = 0
    BY <1>1 DEF Sounds
  <2>2. NotOlder(camera_file, samples)
    BY EmptySeq DEF NotOlder
  <2>3. /\ camera_file = <<>> /\ camera_encoder = <<>> /\ camera_lost = {}
        /\ samples_count = 0 /\ Delay \in Nat
    OBVIOUS
  <2> HIDE DEF Camera!CameraCaptureAssumption, Camera!Init
  <2>4. /\ InOrder(camera_file, camera_encoder, samples_count)
        /\ Covered(camera_file, camera_encoder, camera_lost) = Stamps(Sounds(Encoded))
    BY <1>2, <2>1, <2>3, OrderStart, Zenon
  <2>5. samples_count = Samples * Sounds(Encoded) /\ Len(camera_encoder) <= Delay
    BY <1>1, <1>4, <2>1, <2>3
  <2> QED
    BY <2>2, <2>4, <2>5, Zenon DEF SoundInv
<1> QED
  BY <1>3, <1>5 DEF CamInv

\* Everything but the writing of a frame leaves the sound as it is.
LEMMA CameraQuiet ==
  ASSUME CamInv, Sounds(Encoded)' = Sounds(Encoded),
         UNCHANGED <<samples_count, camera_encoder, camera_file, samples, camera_lost>>
  PROVE  SoundInv'
BY DEF CamInv, SoundInv

LEMMA OldestFirst ==
  ASSUME NEW f, NEW h, NEW n \in Nat, InOrder(f, h, n)
  PROVE  Head(Append(h, n)) \in Nat /\ Head(Append(h, n)) <= n
<1>1. h \in Seq(Nat) /\ Len(h) \in Nat
  BY LenProperties DEF InOrder
<1>2. Append(h, n) \in Seq(Nat) /\ Len(Append(h, n)) = Len(h) + 1
      /\ \A i \in 1 .. Len(h) : Append(h, n)[i] = h[i]
      /\ Append(h, n)[Len(h) + 1] = n
  BY <1>1, AppendProperties
<1>3. Head(Append(h, n)) = Append(h, n)[1]
  BY <1>1, <1>2, EmptySeq, HeadTailProperties
<1>4. CASE Len(h) = 0
  BY <1>2, <1>3, <1>4
<1>5. CASE Len(h) # 0
  <2>1. 1 \in 1 .. Len(h)
    BY <1>1, <1>5
  <2>2. h[1] \in Nat /\ h[1] < n
    BY <1>1, <2>1, ElementOfSeq DEF InOrder
  <2>3. Append(h, n)[1] = h[1]
    BY <1>2, <2>1
  <2> QED
    BY <1>3, <2>2, <2>3
<1> QED
  BY <1>4, <1>5

LEMMA NotOlderStep ==
  ASSUME NEW f \in Seq(Nat), NEW g, NotOlder(f, g), NEW x \in Nat, NEW y \in Nat, x <= y
  PROVE  NotOlder(Append(f, x), Append(g, y))
<1>1. /\ g \in Seq(Nat) /\ Len(g) = Len(f) /\ \A i \in 1 .. Len(f) : f[i] <= g[i]
      /\ Len(f) \in Nat
  BY LenProperties DEF NotOlder
<1>2. /\ Len(Append(f, x)) = Len(f) + 1 /\ Append(f, x)[Len(f) + 1] = x
      /\ \A i \in 1 .. Len(f) : Append(f, x)[i] = f[i]
      /\ Append(g, y) \in Seq(Nat) /\ Len(Append(g, y)) = Len(f) + 1
      /\ Append(g, y)[Len(f) + 1] = y
      /\ \A i \in 1 .. Len(f) : Append(g, y)[i] = g[i]
  BY <1>1, AppendProperties
<1>3. ASSUME NEW i \in 1 .. Len(f) + 1 PROVE Append(f, x)[i] <= Append(g, y)[i]
  <2>1. CASE i \in 1 .. Len(f)
    BY <1>1, <1>2, <2>1
  <2>2. CASE i = Len(f) + 1
    BY <1>2, <2>2
  <2>3. i \in 1 .. Len(f) \/ i = Len(f) + 1
    BY <1>1
  <2> QED
    BY <2>1, <2>2, <2>3
<1> QED
  BY <1>2, <1>3 DEF NotOlder

LEMMA CameraWrite ==
  ASSUME Camera!CameraCaptureAssumption, CamInv, Camera!Write
  PROVE  CamInv'
<1> USE DEF Camera!CameraCaptureAssumption
<1>1. /\ camera_pc = "write" /\ pictures \in 1 .. CaptureRounds /\ pictures' = pictures
      /\ camera_inx = pictures - 1 /\ camera_inx < CaptureRounds /\ Encoded = pictures - 1
      /\ samples_count \in Nat /\ samples_count = Samples * Encoded /\ audio /\ tmp_frame
  BY DEF CamInv, RoundsInv, CameraKinds, SoundInv, Camera!Write, Encoded, Sounds
<1>2. /\ camera_inx' = camera_inx + 1
      /\ camera_pc' = IF camera_inx' >= CaptureRounds THEN "finish" ELSE "round"
      /\ audio' = audio /\ tmp_frame' = tmp_frame /\ output' = output
      /\ camera' = camera /\ capture' = capture
  BY DEF Camera!Write, Camera!NextRound, Camera!NextPlace, Camera!stream, Camera!devices
<1>3. samples_count' = samples_count + Samples
  BY DEF Camera!Write, Camera!write_audio_frame, Camera!Counted
<1>4. camera_pc' \in {"finish", "round"} /\ Encoded' = Encoded + 1 /\ Encoded \in Nat
  BY <1>1, <1>2 DEF Encoded
<1>5. Puts(camera_file, camera_encoder, camera_lost,
           camera_file', camera_encoder', camera_lost', samples_count, Delay)
  BY DEF Camera!Write, Camera!write_audio_frame, Camera!Encode, Puts
<1>6. /\ InOrder(camera_file', camera_encoder', samples_count + Samples)
      /\ Len(camera_encoder') <= Delay
      /\ Covered(camera_file', camera_encoder', camera_lost')
           = Covered(camera_file, camera_encoder, camera_lost) \union {samples_count}
  <2>1. /\ InOrder(camera_file, camera_encoder, samples_count)
        /\ Len(camera_encoder) <= Delay
        /\ samples_count + Samples \in Nat /\ samples_count < samples_count + Samples
        /\ Delay \in Nat
    BY <1>1 DEF CamInv, SoundInv
  <2> HIDE DEF Camera!CameraCaptureAssumption
  <2> QED
    BY <1>1, <1>5, <2>1, PutsStep
<1>7. Stamps(Encoded + 1) = Stamps(Encoded) \union {Samples * Encoded}
  <2>1. 0 .. (Encoded + 1) - 1 = (0 .. Encoded - 1) \union {Encoded}
    BY <1>4
  <2> QED
    BY <2>1, Zenon DEF Stamps
<1>8. Samples * (Encoded + 1) = Samples * Encoded + Samples
  BY <1>4, Product
<1>9. SoundInv'
  <2>0. Sounds(Encoded) = Encoded /\ Sounds(Encoded)' = Encoded'
    BY <1>1, <1>2 DEF Sounds
  <2>1. samples_count' = Samples * Encoded'
    BY <1>1, <1>3, <1>4, <1>8
  <2>3. NotOlder(camera_file', samples')
    <3>1. /\ InOrder(camera_file, camera_encoder, samples_count)
          /\ NotOlder(camera_file, samples) /\ samples_count \in Nat
      BY <1>1 DEF CamInv, SoundInv
    <3>2. CASE camera_file' = camera_file /\ samples' = samples
      BY <3>1, <3>2
    <3>3. CASE /\ camera_file' = Append(camera_file, Head(Append(camera_encoder, samples_count)))
               /\ samples' = Append(samples, samples_count)
      <4>1. /\ Head(Append(camera_encoder, samples_count)) \in Nat
            /\ Head(Append(camera_encoder, samples_count)) <= samples_count
        BY <3>1, OldestFirst
      <4>2. camera_file \in Seq(Nat)
        BY <3>1 DEF InOrder
      <4> QED
        BY <3>1, <3>3, <4>1, <4>2, NotOlderStep
    <3> QED
      BY <3>2, <3>3 DEF Camera!Write, Camera!write_audio_frame, Camera!Encode
  <2>2. Covered(camera_file', camera_encoder', camera_lost') = Stamps(Encoded')
    <3>1. Covered(camera_file, camera_encoder, camera_lost) = Stamps(Encoded)
      BY <2>0 DEF CamInv, SoundInv
    <3> QED
      BY <1>1, <1>4, <1>6, <1>7, <3>1
  <2> QED
    BY <1>3, <1>6, <2>0, <2>1, <2>2, <2>3 DEF SoundInv
<1>10. RoundsInv'
  BY <1>1, <1>2, <1>4 DEF RoundsInv
<1>11. CameraKinds'
  <2>1. samples_count' \in Nat
    BY <1>1, <1>3
  <2> QED
    BY <1>1, <1>2, <1>4, <2>1 DEF CamInv, CameraKinds, CameraPlaces
<1> QED
  BY <1>9, <1>10, <1>11 DEF CamInv

LEMMA CameraStep ==
  Camera!CameraCaptureAssumption /\ CamInv /\ [Camera!Next]_cameraVars => CamInv'
<1> SUFFICES ASSUME Camera!CameraCaptureAssumption, CamInv, [Camera!Next]_cameraVars
             PROVE  CamInv'
  OBVIOUS
<1> USE DEF Camera!CameraCaptureAssumption
<1>1. CASE Camera!Write
  BY <1>1, CameraWrite
<1>2. ASSUME UNCHANGED <<samples_count, camera_encoder, camera_file, samples, camera_lost>>,
             CameraKinds', RoundsInv', Sounds(Encoded)' = Sounds(Encoded)
      PROVE  CamInv'
  BY <1>2, CameraQuiet DEF CamInv
<1>3. CASE Camera!Output \/ Camera!AddVideo \/ Camera!OpenCamera \/ Camera!OpenCapture
           \/ Camera!Header \/ Camera!add_audio_stream
  <2> USE DEF Camera!Output, Camera!AddVideo, Camera!OpenCamera, Camera!OpenCapture,
              Camera!Header, Camera!add_audio_stream, Camera!At
  <2>1. /\ UNCHANGED <<samples_count, camera_encoder, camera_file, samples, camera_lost>>
        /\ UNCHANGED <<camera_inx, pictures>>
        /\ camera_pc \in {"output", "video", "audio", "header", "camera", "capture"}
        /\ camera_pc' \in {"video", "audio", "header", "camera", "capture", "round",
                           "returned", "exited"}
    BY <1>3 DEF Camera!sound, Camera!devices
  <2>2. pictures = 0 /\ Encoded = 0 /\ Encoded' = 0 /\ camera_inx = 0
    BY <2>1 DEF CamInv, RoundsInv, Encoded
  <2>7. Sounds(Encoded)' = Sounds(Encoded)
    BY <2>2 DEF Sounds
  <2>3. RoundsInv'
    BY <2>1, <2>2 DEF RoundsInv
  <2>4. output' \in {"none", "open", "header", "closed"}
    BY <1>3 DEF CamInv, CameraKinds
  <2>5. /\ audio' \in BOOLEAN /\ camera' \in BOOLEAN /\ capture' \in BOOLEAN
        /\ tmp_frame' \in BOOLEAN /\ (audio' => tmp_frame')
    <3>1. CASE Camera!add_audio_stream
      BY <3>1 DEF CamInv, CameraKinds, Camera!devices
    <3>2. CASE Camera!Output \/ Camera!AddVideo \/ Camera!OpenCamera \/ Camera!OpenCapture
               \/ Camera!Header
      <4>1. audio' = audio /\ tmp_frame' = tmp_frame
        BY <3>2 DEF Camera!stream
      <4>2. camera' \in BOOLEAN /\ capture' \in BOOLEAN
        BY <3>2 DEF CamInv, CameraKinds, Camera!devices
      <4> QED
        BY <4>1, <4>2 DEF CamInv, CameraKinds
    <3> QED
      BY <1>3, <3>1, <3>2
  <2>6. CameraKinds'
    BY <2>1, <2>4, <2>5 DEF CamInv, CameraKinds, CameraPlaces
  <2> QED
    BY <1>2, <2>1, <2>3, <2>6, <2>7
<1>4. CASE Camera!Picture \/ Camera!Finish \/ Camera!WriteFails
  <2> USE DEF Camera!Picture, Camera!Finish, Camera!WriteFails, Camera!At
  <2>1. UNCHANGED <<samples_count, camera_encoder, camera_file, samples, camera_lost,
                    camera_inx, audio, tmp_frame>>
    BY <1>4 DEF Camera!sound, Camera!devices, Camera!stream
  <2>2. Encoded' = Encoded /\ RoundsInv'
    BY <1>4 DEF CamInv, RoundsInv, CameraKinds, Encoded
  <2>6. Sounds(Encoded)' = Sounds(Encoded)
    BY <2>1, <2>2 DEF Sounds
  <2>3. /\ output' \in {"none", "open", "header", "closed"} /\ camera_pc' \in CameraPlaces
        /\ pictures' \in 0 .. CaptureRounds
    BY <1>4 DEF CamInv, CameraKinds, CameraPlaces, RoundsInv, Encoded
  <2>4. /\ audio' \in BOOLEAN /\ camera' \in BOOLEAN /\ capture' \in BOOLEAN
        /\ tmp_frame' \in BOOLEAN /\ (audio' => tmp_frame')
    <3>1. camera' \in BOOLEAN /\ capture' \in BOOLEAN
      BY <1>4 DEF CamInv, CameraKinds, Camera!devices
    <3> QED
      BY <2>1, <3>1 DEF CamInv, CameraKinds
  <2>5. CameraKinds'
    BY <2>1, <2>3, <2>4 DEF CamInv, CameraKinds
  <2> QED
    BY <1>2, <2>1, <2>2, <2>5, <2>6
<1>6. CASE Camera!WriteSkipped
  <2>1. /\ UNCHANGED <<samples_count, camera_encoder, camera_file, samples, camera_lost,
                       audio, tmp_frame, output, camera, capture, pictures>>
        /\ camera_inx' = camera_inx + 1 /\ camera_pc = "write" /\ ~tmp_frame
        /\ camera_pc' = IF camera_inx' >= CaptureRounds THEN "finish" ELSE "round"
    BY <1>6 DEF Camera!WriteSkipped, Camera!sound, Camera!stream, Camera!devices,
       Camera!NextRound, Camera!NextPlace
  <2>2. /\ ~audio /\ pictures \in 1 .. CaptureRounds /\ camera_inx = pictures - 1
        /\ camera_inx < CaptureRounds
    BY <2>1 DEF CamInv, RoundsInv, CameraKinds, Encoded
  <2>3. RoundsInv'
    BY <2>1, <2>2 DEF RoundsInv, Encoded
  <2>4. CameraKinds'
    BY <2>1, <2>2 DEF CamInv, CameraKinds, CameraPlaces
  <2>5. Sounds(Encoded)' = Sounds(Encoded)
    BY <2>1, <2>2 DEF Sounds
  <2> QED
    BY <1>2, <2>1, <2>3, <2>4, <2>5
<1>5. CASE UNCHANGED cameraVars
  BY <1>5 DEF cameraVars, CamInv, CameraKinds, RoundsInv, SoundInv, Encoded, Sounds
<1> QED
  BY <1>1, <1>3, <1>4, <1>5, <1>6 DEF Camera!Next

LEMMA CameraTrue ==
  ASSUME Camera!CameraCaptureAssumption, CamInv
  PROVE  Camera!TypeOK /\ Camera!SoundIsContinuous /\ Camera!InStep
<1>1. Sounds(Encoded) \in Nat /\ samples_count = Samples * Sounds(Encoded) /\ Samples \in Nat \ {0}
  BY DEF CamInv, CameraKinds, SoundInv, Encoded, Sounds, Camera!CameraCaptureAssumption
<1>2. samples_count \div Samples = Sounds(Encoded)
  BY <1>1, Quotient
<1>3. Camera!TypeOK
  BY DEF CamInv, CameraKinds, CameraPlaces, SoundInv, Camera!TypeOK
<1>4. Camera!InStep
  BY <1>2 DEF Camera!InStep, Encoded, Sounds
<1>5. Covered(camera_file, camera_encoder, camera_lost) = Stamps(samples_count \div Samples)
  BY <1>2 DEF CamInv, SoundInv
<1>6. \A a, b \in 1 .. Len(camera_file) + Len(camera_encoder) :
        a < b => (camera_file \o camera_encoder)[a] < (camera_file \o camera_encoder)[b]
  BY OrderWhole DEF CamInv, CameraKinds, SoundInv
<1>7. Len(samples) = Len(camera_file) /\ \A a \in 1 .. Len(camera_file) : camera_file[a] <= samples[a]
  BY DEF CamInv, SoundInv, NotOlder
<1>8. Camera!SoundIsContinuous
  BY <1>5, <1>6, <1>7 DEF Camera!SoundIsContinuous, Camera!Range, Covered, Numbers, Stamps
<1> QED
  BY <1>3, <1>4, <1>8

-------------------------------------------------------------------------------
(* The video made of images.                                               *)

LEMMA ModBound ==
  ASSUME NEW w \in Nat \ {0}, NEW a \in Int
  PROVE a % w \in 0 .. w - 1 /\ \E q \in Int : a = w * q + (a % w)
<1>1. a % w \in 0 .. w - 1
  OBVIOUS
<1>2. a \div w \in Int
  OBVIOUS
<1>3. a = w * (a \div w) + (a % w)
  OBVIOUS
<1> QED
  BY <1>1, <1>2, <1>3

LEMMA ModUnique ==
  ASSUME NEW w \in Nat \ {0}, NEW q \in Int, NEW r \in 0 .. w - 1
  PROVE (w * q + r) % w = r
<1> DEFINE a == w * q + r
<1>0. a \in Int
  OBVIOUS
<1>1. PICK p \in Int : a = w * p + (a % w)
  BY <1>0, ModBound
<1>2. a % w \in 0 .. w - 1
  BY <1>0, ModBound
<1>3. w * (p - q) = r - (a % w)
  BY <1>1, <1>2
<1>4. p - q = 0
  <2>1. CASE p - q >= 1
    <3>1. w * (p - q) >= w
      BY <2>1
    <3> QED
      BY <3>1, <1>3, <1>2
  <2>2. CASE p - q <= -1
    <3>1. w * (p - q) <= -w
      BY <2>2
    <3> QED
      BY <3>1, <1>3, <1>2
  <2> QED
    BY <2>1, <2>2
<1> QED
  BY <1>3, <1>4, <1>2

LEMMA ModSmall ==
  ASSUME NEW w \in Nat \ {0}, NEW r \in 0 .. w - 1
  PROVE  r % w = r /\ r \in Nat
<1>1. w * 0 + r = r /\ r \in Nat /\ 0 \in Int
  OBVIOUS
<1>2. (w * 0 + r) % w = r
  BY <1>1, ModUnique
<1> QED
  BY <1>1, <1>2

LEMMA ModNext ==
  ASSUME NEW w \in Nat \ {0}, NEW a \in Nat
  PROVE  (a + 1) % w = IF (a % w) + 1 >= w THEN 0 ELSE (a % w) + 1
<1>0. a \in Int
  OBVIOUS
<1>1. PICK q \in Int : a = w * q + (a % w)
  BY <1>0, ModBound
<1> DEFINE r == a % w
<1>2. r \in 0 .. w - 1 /\ a = w * q + r
  BY <1>0, <1>1, ModBound
<1> HIDE DEF r
<1>3. CASE r + 1 >= w
  <2>1. w * (q + 1) = w * q + w /\ w * q \in Int
    OBVIOUS
  <2>2. a + 1 = w * (q + 1) + 0 /\ q + 1 \in Int /\ 0 \in 0 .. w - 1
    BY <1>2, <1>3, <2>1
  <2>3. (w * (q + 1) + 0) % w = 0
    BY <2>2, ModUnique
  <2>4. (a + 1) % w = 0
    BY <2>2, <2>3
  <2> QED
    BY <1>3, <2>4 DEF r
<1>4. CASE ~(r + 1 >= w)
  <2>1. w * q \in Int
    OBVIOUS
  <2>2. a + 1 = w * q + (r + 1) /\ r + 1 \in 0 .. w - 1
    BY <1>2, <1>4, <2>1
  <2>3. (w * q + (r + 1)) % w = r + 1
    BY <2>2, ModUnique
  <2>4. (a + 1) % w = r + 1
    BY <2>2, <2>3
  <2> QED
    BY <1>4, <2>4 DEF r
<1> QED
  BY <1>3, <1>4

\* The frame that was made and is not yet with the encoder does not count.
Sent == IF image_pc = "write" THEN image_pts - 1 ELSE image_pts

ImagePlaces ==
  {"load", "output", "stream", "header", "frame", "write", "returned", "exited", "crashed"}

ImageKinds ==
  /\ image_pc \in ImagePlaces
  /\ image_frames \in Seq(0 .. ImageFiles) /\ num \in 0 .. ImageFiles - 1
  /\ shown \in Seq(0 .. ImageFiles) /\ image_pts \in Nat /\ trailer \in BOOLEAN
  /\ image_i \in Nat

\* The loops stay within their limits, and nothing is shown before the frames are made.
LoopInv ==
  /\ image_pc = "load" => image_i < ImageFiles /\ Len(image_frames) <= image_i
  /\ image_pc # "load" => image_i <= ImageRounds /\ Len(image_frames) <= ImageFiles
  /\ image_pc = "write" => image_i < ImageRounds /\ image_pts > 0
  /\ image_pc \in {"load", "output", "stream", "header"} => num = 0 /\ image_pts = 0
  /\ image_pts = Len(shown) /\ image_pts <= LastPts

PacketInv ==
  /\ IsFiniteSet(image_encoder) /\ Cardinality(image_encoder) <= Delay
  /\ image_pc # "exited" => image_file \union image_encoder \union image_lost = 0 .. Sent - 1

\* With every image loaded, the image whose turn it is follows from the frames made.
TurnInv ==
  image_frames = [n \in 1 .. ImageFiles |-> n] =>
    /\ image_pc # "crashed"
    /\ image_pc # "exited" /\ image_pts < LastPts => num = image_pts % ImageFiles
    /\ \A p \in 1 .. Len(shown) : shown[p] = ((p - 1) % ImageFiles) + 1

ImInv == ImageKinds /\ LoopInv /\ PacketInv /\ TurnInv

LEMMA ImagesStart == Images!ImageVideoAssumption /\ Images!Init => ImInv
<1> SUFFICES ASSUME Images!ImageVideoAssumption, Images!Init PROVE ImInv
  OBVIOUS
<1>1. /\ ImageFiles \in Nat \ {0} /\ ImageRounds \in Nat /\ LastPts \in Nat /\ Delay \in Nat
      /\ image_pc = "load" /\ image_i = 0 /\ image_frames = <<>> /\ num = 0 /\ image_pts = 0
      /\ image_encoder = {} /\ image_file = {} /\ trailer = FALSE
      /\ shown = <<>> /\ image_lost = {}
  BY DEF Images!ImageVideoAssumption, Images!Init
<1>2. <<>> \in Seq(0 .. ImageFiles) /\ Len(<<>>) = 0
  BY EmptySeq
<1>3. ImageKinds
  <2>1. num \in 0 .. ImageFiles - 1 /\ image_pts \in Nat /\ image_i \in Nat
    BY <1>1
  <2>2. image_frames \in Seq(0 .. ImageFiles) /\ shown \in Seq(0 .. ImageFiles)
    BY <1>1, <1>2
  <2> QED
    BY <1>1, <2>1, <2>2 DEF ImageKinds, ImagePlaces
<1>4. LoopInv
  BY <1>1, <1>2 DEF LoopInv
<1>5. Sent = 0
  BY <1>1 DEF Sent
<1>6. 0 .. 0 - 1 = {}
  OBVIOUS
<1>7. PacketInv
  BY <1>1, <1>5, <1>6, FS_EmptySet DEF PacketInv
<1>8. 0 % ImageFiles = 0
  <2>1. 0 \in 0 .. ImageFiles - 1
    BY <1>1
  <2> QED
    BY <1>1, <2>1, ModSmall
<1>9. TurnInv
  BY <1>1, <1>2, <1>8 DEF TurnInv
<1> QED
  BY <1>3, <1>4, <1>7, <1>9 DEF ImInv

LEMMA ImagesLoad ==
  ASSUME Images!ImageVideoAssumption, ImInv, Images!Load
  PROVE  ImInv'
<1>1. /\ ImageFiles \in Nat \ {0} /\ ImageRounds \in Nat
      /\ image_pc = "load" /\ image_i \in Nat /\ image_i < ImageFiles
      /\ num = 0 /\ image_pts = 0 /\ Len(image_frames) <= image_i
      /\ image_frames \in Seq(0 .. ImageFiles) /\ Len(image_frames) \in Nat
  BY LenProperties DEF Images!ImageVideoAssumption, Images!Load, ImInv, ImageKinds, LoopInv
<1>2. /\ UNCHANGED <<num, image_pts, image_encoder, image_file, trailer, shown, image_lost>>
      /\ image_i' = (image_i + 1) % ImageFiles
      /\ image_pc' = IF image_i + 1 = ImageFiles THEN "output" ELSE "load"
  BY DEF Images!Load
<1>3. image_frames' \in Seq(0 .. ImageFiles) /\ Len(image_frames') <= Len(image_frames) + 1
      /\ Len(image_frames') \in Nat
  <2>1. PICK f \in {<<>>, <<image_i + 1>>, <<0>>} : image_frames' = image_frames \o f
    BY DEF Images!Load, Images!load_frame_from_image
  <2>2. f \in Seq(0 .. ImageFiles) /\ Len(f) <= 1 /\ Len(f) \in Nat
    <3>1. image_i + 1 \in 0 .. ImageFiles /\ 0 \in 0 .. ImageFiles
      BY <1>1
    <3>2. \A x \in 0 .. ImageFiles : <<x>> \in Seq(0 .. ImageFiles) /\ Len(<<x>>) = 1
      OBVIOUS
    <3>3. <<>> \in Seq(0 .. ImageFiles) /\ Len(<<>>) = 0
      BY EmptySeq
    <3>4. CASE f = <<>>
      BY <3>3, <3>4
    <3>5. CASE f = <<image_i + 1>>
      BY <3>1, <3>2, <3>5
    <3>6. CASE f = <<0>>
      BY <3>1, <3>2, <3>6
    <3> QED
      BY <2>1, <3>4, <3>5, <3>6
  <2> QED
    BY <1>1, <2>1, <2>2, ConcatProperties, LenProperties
<1>4. CASE image_i + 1 = ImageFiles
  <2>1. 0 % ImageFiles = 0 /\ ImageFiles % ImageFiles = 0
    <3>1. 0 \in 0 .. ImageFiles - 1 /\ 1 \in Int /\ ImageFiles * 1 + 0 = ImageFiles
      BY <1>1
    <3>2. (ImageFiles * 1 + 0) % ImageFiles = 0
      BY <1>1, <3>1, ModUnique
    <3> QED
      BY <1>1, <3>1, <3>2, ModSmall
  <2>2. image_i' = 0 /\ image_pc' = "output"
    BY <1>2, <1>4, <2>1
  <2>3. ImageKinds' /\ LoopInv'
    <3>1. ImageKinds'
      BY <1>2, <1>3, <2>2 DEF ImInv, ImageKinds, ImagePlaces
    <3>2. Len(image_frames') <= ImageFiles
      BY <1>1, <1>3, <1>4
    <3>3. image_i' <= ImageRounds /\ image_pts' = 0 /\ num' = 0
      BY <1>1, <1>2, <2>2
    <3>4. image_pts' = Len(shown') /\ image_pts' <= LastPts
      BY <1>2 DEF ImInv, LoopInv
    <3>5. LoopInv'
      BY <2>2, <3>2, <3>3, <3>4 DEF LoopInv
    <3> QED
      BY <3>1, <3>5
  <2>4. PacketInv'
    BY <1>1, <1>2, <2>2 DEF ImInv, PacketInv, Sent
  <2>5. Len(shown) = 0
    BY <1>1 DEF ImInv, LoopInv
  <2>6. TurnInv'
    BY <1>1, <1>2, <2>1, <2>2, <2>5 DEF TurnInv
  <2> QED
    BY <2>3, <2>4, <2>6 DEF ImInv
<1>5. CASE image_i + 1 # ImageFiles
  <2>1. 0 % ImageFiles = 0 /\ (image_i + 1) % ImageFiles = image_i + 1
    <3>1. 0 \in 0 .. ImageFiles - 1 /\ image_i + 1 \in 0 .. ImageFiles - 1
      BY <1>1, <1>5
    <3> QED
      BY <1>1, <3>1, ModSmall
  <2>2. image_i' = image_i + 1 /\ image_pc' = "load" /\ image_i' \in Nat
        /\ image_i' < ImageFiles
    BY <1>1, <1>2, <1>5, <2>1
  <2>3. ImageKinds'
    BY <1>2, <1>3, <2>2 DEF ImInv, ImageKinds, ImagePlaces
  <2>4. Len(image_frames') <= image_i'
    BY <1>1, <1>3, <2>2
  <2>5. LoopInv'
    BY <1>1, <1>2, <2>2, <2>4 DEF ImInv, LoopInv
  <2>6. PacketInv'
    BY <1>1, <1>2, <2>2 DEF ImInv, PacketInv, Sent
  <2>7. Len(shown) = 0
    BY <1>1 DEF ImInv, LoopInv
  <2>8. TurnInv'
    BY <1>1, <1>2, <2>1, <2>2, <2>7 DEF TurnInv
  <2> QED
    BY <2>3, <2>5, <2>6, <2>8 DEF ImInv
<1> QED
  BY <1>4, <1>5

LEMMA ImagesConvert ==
  ASSUME Images!ImageVideoAssumption, ImInv, Images!Convert
  PROVE  ImInv'
<1>1. /\ ImageFiles \in Nat \ {0} /\ ImageRounds \in Nat /\ LastPts \in Nat
      /\ image_pc = "frame" /\ image_i \in Nat /\ image_i < ImageRounds
      /\ image_frames \in Seq(0 .. ImageFiles) /\ Len(image_frames) \in Nat
      /\ num \in 0 .. ImageFiles - 1 /\ image_pts \in Nat /\ image_pts <= LastPts
      /\ shown \in Seq(0 .. ImageFiles) /\ image_pts = Len(shown)
      /\ Len(image_frames) <= ImageFiles
  BY LenProperties DEF Images!ImageVideoAssumption, Images!Convert, ImInv, ImageKinds, LoopInv
<1>2. PICK image \in Images!Take :
        /\ image_pc' = Images!convert_image_frame(image)
        /\ image_pts' = IF image_pc' = "write" THEN image_pts + 1 ELSE image_pts
        /\ shown' = IF image_pc' = "write" THEN Append(shown, image) ELSE shown
  BY DEF Images!Convert
<1>3. num < Len(image_frames) /\ image = image_frames[num + 1] /\ image \in 0 .. ImageFiles
  <2>1. num < Len(image_frames) /\ image = image_frames[num + 1]
    BY <1>2 DEF Images!Take
  <2>2. num + 1 \in 1 .. Len(image_frames)
    BY <1>1, <2>1
  <2> QED
    BY <1>1, <2>1, <2>2, ElementOfSeq
<1>4. /\ num' = (IF num + 1 >= ImageFiles THEN 0 ELSE num + 1)
      /\ image_i' = (IF image_pc' = "frame" THEN image_i + 1 ELSE image_i)
      /\ UNCHANGED <<image_frames, image_encoder, image_file, trailer, image_lost>>
  BY DEF Images!Convert, Images!NextImage
<1>5. num' \in 0 .. ImageFiles - 1 /\ image_i' \in Nat /\ image_i' <= ImageRounds
  BY <1>1, <1>4
<1>6. CASE image_pc' = "write"
  <2>1. image_pts < LastPts
    BY <1>1, <1>2, <1>6 DEF Images!convert_image_frame
  <2>2. /\ image_pts' = image_pts + 1 /\ shown' = Append(shown, image) /\ image_i' = image_i
    BY <1>2, <1>4, <1>6
  <2>3. /\ shown' \in Seq(0 .. ImageFiles) /\ Len(shown') = image_pts + 1
        /\ \A p \in 1 .. image_pts : shown'[p] = shown[p]
        /\ shown'[image_pts + 1] = image
    BY <1>1, <1>3, <2>2, AppendProperties
  <2>4. ImageKinds'
    BY <1>1, <1>4, <1>5, <1>6, <2>2, <2>3 DEF ImInv, ImageKinds, ImagePlaces
  <2>5. LoopInv'
    BY <1>1, <1>4, <1>5, <1>6, <2>1, <2>2, <2>3 DEF LoopInv
  <2>6. Sent' = Sent
    BY <1>1, <1>6, <2>2 DEF Sent
  <2>7. PacketInv'
    BY <1>1, <1>4, <1>6, <2>6 DEF ImInv, PacketInv
  <2>8. TurnInv'
    <3> SUFFICES ASSUME image_frames = [n \in 1 .. ImageFiles |-> n]
                 PROVE  /\ num' = image_pts' % ImageFiles
                        /\ \A p \in 1 .. Len(shown') : shown'[p] = ((p - 1) % ImageFiles) + 1
      BY <1>4, <1>6 DEF TurnInv
    <3>1. /\ num = image_pts % ImageFiles
          /\ \A p \in 1 .. image_pts : shown[p] = ((p - 1) % ImageFiles) + 1
      BY <1>1, <2>1 DEF ImInv, TurnInv
    <3>2. image = num + 1
      <4>1. num + 1 \in 1 .. ImageFiles
        BY <1>1
      <4> QED
        BY <1>3, <4>1
    <3>3. num' = (image_pts + 1) % ImageFiles
      BY <1>1, <1>4, <3>1, ModNext
    <3>4. shown'[image_pts + 1] = (image_pts % ImageFiles) + 1
      BY <2>3, <3>1, <3>2
    <3>5. ASSUME NEW p \in 1 .. image_pts + 1
          PROVE  shown'[p] = ((p - 1) % ImageFiles) + 1
      <4>1. CASE p \in 1 .. image_pts
        BY <2>3, <3>1, <4>1
      <4>2. CASE p = image_pts + 1
        <5>1. p - 1 = image_pts
          BY <1>1, <4>2
        <5> QED
          BY <3>4, <4>2, <5>1
      <4>3. p \in 1 .. image_pts \/ p = image_pts + 1
        BY <1>1
      <4> QED
        BY <4>1, <4>2, <4>3
    <3> QED
      BY <2>2, <2>3, <3>3, <3>5
  <2> QED
    BY <2>4, <2>5, <2>7, <2>8 DEF ImInv
<1>7. CASE image_pc' = "frame"
  <2>1. image_pts >= LastPts
    <3>1. CASE image_pts < LastPts
      BY <1>2, <1>7, <3>1 DEF Images!convert_image_frame
    <3> QED
      BY <1>1, <3>1
  <2>2. image_pts' = image_pts /\ shown' = shown /\ image_i' = image_i + 1
    BY <1>2, <1>4, <1>7
  <2>3. ImageKinds' /\ LoopInv'
    BY <1>1, <1>4, <1>5, <1>7, <2>2 DEF ImInv, ImageKinds, ImagePlaces, LoopInv
  <2>4. PacketInv'
    BY <1>1, <1>4, <1>7, <2>2 DEF ImInv, PacketInv, Sent
  <2>5. TurnInv'
    BY <1>1, <1>4, <1>7, <2>1, <2>2 DEF ImInv, TurnInv
  <2> QED
    BY <2>3, <2>4, <2>5 DEF ImInv
<1>8. CASE image_pc' = "exited"
  <2>1. image_pts' = image_pts /\ shown' = shown /\ image_i' = image_i
    BY <1>2, <1>4, <1>8
  <2>2. ImageKinds' /\ LoopInv'
    BY <1>1, <1>4, <1>5, <1>8, <2>1 DEF ImInv, ImageKinds, ImagePlaces, LoopInv
  <2>3. PacketInv'
    BY <1>1, <1>4, <1>8, <2>1 DEF ImInv, PacketInv, Sent
  <2>4. TurnInv'
    BY <1>1, <1>4, <1>8, <2>1 DEF ImInv, TurnInv
  <2> QED
    BY <2>2, <2>3, <2>4 DEF ImInv
<1>9. image_pc' \in {"write", "frame", "exited"}
  <2>1. CASE image_pts >= LastPts
    BY <1>2, <2>1 DEF Images!convert_image_frame
  <2>2. CASE ~(image_pts >= LastPts)
    <3>1. image_pts < LastPts
      BY <1>1, <2>2
    <3> QED
      BY <1>2, <2>2, <3>1 DEF Images!convert_image_frame
  <2> QED
    BY <2>1, <2>2
<1> QED
  BY <1>6, <1>7, <1>8, <1>9

LEMMA ImagesWrite ==
  ASSUME Images!ImageVideoAssumption, ImInv, Images!Write
  PROVE  ImInv'
<1>1. /\ image_pc = "write" /\ image_pc' = "frame" /\ image_i' = image_i + 1
      /\ UNCHANGED <<image_frames, num, image_pts, trailer, shown>>
      /\ image_i \in Nat /\ image_i < ImageRounds /\ ImageRounds \in Nat
      /\ image_pts \in Nat /\ image_pts > 0 /\ Delay \in Nat
  BY DEF Images!ImageVideoAssumption, Images!Write, ImInv, ImageKinds, LoopInv
<1>2. image_pts - 1 \in Nat /\ Sent = image_pts - 1 /\ Sent' = image_pts
  BY <1>1 DEF Sent
<1>3. /\ IsFiniteSet(image_encoder') /\ Cardinality(image_encoder') <= Delay
      /\ image_file' \union image_encoder' \union image_lost'
           = (image_file \union image_encoder \union image_lost) \union {image_pts - 1}
  <2> DEFINE g == image_encoder \union {image_pts - 1}
  <2>1. IsFiniteSet(image_encoder) /\ Cardinality(image_encoder) <= Delay
    BY DEF ImInv, PacketInv
  <2>2. /\ IsFiniteSet(g) /\ Cardinality(g) \in Nat
        /\ Cardinality(g) <= Cardinality(image_encoder) + 1
        /\ Cardinality(image_encoder) \in Nat
    BY <2>1, Cardinalities
  <2>3. CASE image_encoder' = g /\ Cardinality(g) <= Delay /\ UNCHANGED <<image_file, image_lost>>
    BY <2>2, <2>3
  <2>4. CASE \E q \in g :
               /\ image_encoder' = g \ {q}
               /\ \/ image_file' = image_file \union {q} /\ UNCHANGED image_lost
                  \/ image_lost' = image_lost \union {q} /\ UNCHANGED image_file
    <3>1. PICK q \in g :
               /\ image_encoder' = g \ {q}
               /\ \/ image_file' = image_file \union {q} /\ UNCHANGED image_lost
                  \/ image_lost' = image_lost \union {q} /\ UNCHANGED image_file
      BY <2>4
    <3> HIDE DEF g
    <3>2. IsFiniteSet(g \ {q}) /\ Cardinality(g \ {q}) = Cardinality(g) - 1
      BY <2>2, Cardinalities
    <3>3. IsFiniteSet(image_encoder') /\ Cardinality(image_encoder') <= Delay
      BY <1>1, <2>1, <2>2, <3>1, <3>2
    <3>4. image_file' \union image_encoder' \union image_lost'
            = image_file \union g \union image_lost
      BY <3>1
    <3> QED
      BY <3>3, <3>4 DEF g
  <2>5. CASE /\ image_lost' = image_lost \union {image_pts - 1}
             /\ UNCHANGED <<image_encoder, image_file>>
    BY <2>1, <2>5
  <2> QED
    <3> HIDE DEF g
    <3>1. Images!write_video_frame(image_pts - 1)
      BY DEF Images!Write
    <3>2. g = image_encoder \union {image_pts - 1}
      BY DEF g
    <3> QED
      BY <2>3, <2>4, <2>5, <3>1, <3>2, SameCount, Zenon DEF Images!write_video_frame
<1>5. PacketInv'
  <2>1. image_file \union image_encoder \union image_lost = 0 .. (image_pts - 1) - 1
    BY <1>1, <1>2 DEF ImInv, PacketInv
  <2>2. 0 .. image_pts - 1 = (0 .. (image_pts - 1) - 1) \union {image_pts - 1}
    BY <1>1
  <2> QED
    BY <1>2, <1>3, <2>1, <2>2 DEF PacketInv
<1>6. ImageKinds' /\ LoopInv'
  BY <1>1 DEF ImInv, ImageKinds, ImagePlaces, LoopInv
<1>7. TurnInv'
  BY <1>1 DEF ImInv, TurnInv
<1> QED
  BY <1>5, <1>6, <1>7 DEF ImInv

LEMMA ImagesStep ==
  Images!ImageVideoAssumption /\ ImInv /\ [Images!Next]_imageVars => ImInv'
<1> SUFFICES ASSUME Images!ImageVideoAssumption, ImInv, [Images!Next]_imageVars
             PROVE  ImInv'
  OBVIOUS
<1>1. CASE Images!Load
  BY <1>1, ImagesLoad
<1>2. CASE Images!Convert
  BY <1>2, ImagesConvert
<1>3. CASE Images!Write
  BY <1>3, ImagesWrite
<1>4. ASSUME UNCHANGED <<image_i, image_frames, num, image_pts, image_encoder, image_file,
                         shown, image_lost>>,
             trailer' \in BOOLEAN, image_pc' \in ImagePlaces \ {"load", "write"},
             image_pc # "load",
             image_pc' \in {"output", "stream", "header"} =>
               image_pc \in {"output", "stream", "header"},
             image_pc = "write" => image_pc' = "exited",
             image_pc = "exited" => image_pc' = "exited",
             image_frames = [n \in 1 .. ImageFiles |-> n] => image_pc' # "crashed"
      PROVE  ImInv'
  <2>1. ImageKinds' /\ LoopInv'
    BY <1>4 DEF ImInv, ImageKinds, ImagePlaces, LoopInv
  <2>2. TurnInv'
    BY <1>4 DEF ImInv, TurnInv
  <2>3. PacketInv'
    <3>1. CASE image_pc = "write"
      BY <1>4, <3>1 DEF ImInv, PacketInv
    <3>2. CASE image_pc # "write"
      BY <1>4, <3>2 DEF ImInv, PacketInv, Sent
    <3> QED
      BY <3>1, <3>2
  <2> QED
    BY <2>1, <2>2, <2>3 DEF ImInv
<1>5. CASE Images!Output \/ Images!add_video_stream \/ Images!Header
           \/ Images!EncoderFails \/ Images!Finish
  BY <1>4, <1>5 DEF Images!Output, Images!add_video_stream, Images!Header,
     Images!EncoderFails, Images!Finish, ImInv, ImageKinds, ImagePlaces
<1>6. CASE Images!OutOfRange
  <2>1. /\ ImageFiles \in Nat \ {0} /\ num \in 0 .. ImageFiles - 1 /\ ~(num < Len(image_frames))
    BY <1>6 DEF Images!ImageVideoAssumption, Images!OutOfRange, Images!Take, ImInv, ImageKinds
  <2>2. image_frames # [n \in 1 .. ImageFiles |-> n]
    <3> SUFFICES ASSUME image_frames = [n \in 1 .. ImageFiles |-> n] PROVE FALSE
      OBVIOUS
    <3>1. DOMAIN image_frames = 1 .. ImageFiles /\ DOMAIN image_frames = 1 .. Len(image_frames)
          /\ Len(image_frames) \in Nat
      BY LenProperties DEF ImInv, ImageKinds
    <3>2. Len(image_frames) = ImageFiles
      BY <2>1, <3>1
    <3> QED
      BY <2>1, <3>2
  <2> QED
    BY <1>4, <1>6, <2>2 DEF Images!OutOfRange, ImInv, ImageKinds, ImagePlaces
<1>7. CASE UNCHANGED imageVars
  BY <1>7 DEF imageVars, ImInv, ImageKinds, LoopInv, PacketInv, Sent, TurnInv
<1> QED
  BY <1>1, <1>2, <1>3, <1>5, <1>6, <1>7 DEF Images!Next

LEMMA ImagesTrue ==
  ASSUME Images!ImageVideoAssumption, ImInv
  PROVE  Images!TypeOK /\ Images!OnlyTheTailIsMissing /\ Images!ImagesInTurn
<1>1. Images!TypeOK
  <2>1. image_i \in 0 .. ImageRounds \union 0 .. ImageFiles
    BY DEF ImInv, ImageKinds, LoopInv, Images!ImageVideoAssumption
  <2>2. Images!Range(image_frames) \subseteq 0 .. ImageFiles /\ Len(image_frames) <= ImageFiles
    <3>1. /\ \A n \in DOMAIN image_frames : image_frames[n] \in 0 .. ImageFiles
          /\ Len(image_frames) \in Nat
      BY LenProperties DEF ImInv, ImageKinds
    <3> QED
      BY <3>1 DEF Images!Range, ImInv, ImageKinds, LoopInv, Images!ImageVideoAssumption
  <2> QED
    <3>1. Cardinality(image_encoder) <= Delay
      BY DEF ImInv, PacketInv
    <3>2. trailer \in BOOLEAN /\ image_pc \in ImagePlaces /\ num \in 0 .. ImageFiles - 1
      BY DEF ImInv, ImageKinds
    <3>3. image_pts = Len(shown) /\ image_pts <= LastPts
      BY DEF ImInv, LoopInv
    <3> QED
      BY <2>1, <2>2, <3>1, <3>2, <3>3, SameCount, Zenon DEF Images!TypeOK, ImagePlaces
<1>2. Images!OnlyTheTailIsMissing
  <2>1. Sent \in Nat /\ image_pts \in Nat
    BY DEF Sent, ImInv, ImageKinds, LoopInv
  <2>2. 0 .. Sent - 1
          = {p \in 0 .. image_pts - 1 : image_pc = "write" => p # image_pts - 1}
    BY <2>1 DEF Sent
  <2> QED
    BY <2>2 DEF Images!OnlyTheTailIsMissing, ImInv, PacketInv
<1>3. Images!ImagesInTurn
  <2>1. DOMAIN shown = 1 .. Len(shown)
    BY LenProperties DEF ImInv, ImageKinds
  <2> QED
    BY <2>1 DEF Images!ImagesInTurn, ImInv, TurnInv
<1> QED
  BY <1>1, <1>2, <1>3

-------------------------------------------------------------------------------
(* The muxer of a camera.                                                  *)

LostOf(s) == IF s = "audio" THEN lost ELSE {}

AvStream(s) ==
  Stream(held[s], file[s], LostOf(s), frameTime[s], next_pts[s], delay[s], CameraDuration)

\* A stream that is not encoded has not begun, or it is over, and then the encoder of the
\* sound was emptied.
AvFinished(s) ==
  s \notin encode =>
    next_pts[s] = 0 \/ (next_pts[s] >= CameraDuration /\ (s = "audio" => held[s] = {}))

AvInv ==
  /\ Kinds(CameraFrameTime) /\ lost \subseteq Nat /\ stage \in Stages
  /\ inx \in 0 .. InxLimit + 2 /\ failures \in 0 .. MaxFailures
  /\ \A s \in Streams : AvStream(s) /\ AvFinished(s)
  /\ stage = "streams" => \A s \in Streams : next_pts[s] = 0
  /\ stage \in {"trailer", "done"} => encode = {}

LEMMA AvFacts ==
  ASSUME WritersAssumption, Kinds(CameraFrameTime), NEW s \in Streams
  PROVE  /\ frameTime[s] \in Nat \ {0} /\ delay[s] \in Nat /\ next_pts[s] \in Nat
         /\ frameTime[s] <= CameraFrameTime /\ CameraFrameTime \in Nat /\ CameraDuration \in Nat
<1>1. CameraDuration \in Nat /\ MaxDelay \in Nat /\ CameraFrameTime \in Nat
  BY DEF WritersAssumption, AVMux!AVMuxerAssumption, AVMux!MuxerAssumption
<1>2. frameTime[s] \in 1 .. CameraFrameTime /\ delay[s] \in 0 .. MaxDelay /\ next_pts[s] \in Nat
  BY DEF Kinds
<1> QED
  BY <1>1, <1>2

\* The instance has the same streams, frames and buffers.
LEMMA AvSame ==
  ASSUME NEW s
  PROVE  /\ AVMux!Streams = Streams /\ AVMux!Frames(s) = Frames(s)
         /\ AVMux!Fed(s, AVMux!make_writable(s)) = held[s] \cup {Show(Number(s), Number(s))}
         /\ AVMux!Number(s) = Number(s)
<1>1. AVMux!make_writable(s) = make_writable(s)
  BY DEF AVMux!make_writable, make_writable
<1>2. AVMux!Fed(s, make_writable(s)) = Fed(s, make_writable(s))
  BY Zenon DEF AVMux!Fed, Fed, AVMux!Show, Show, AVMux!Number, Number
<1>3. AVMux!Streams = Streams /\ AVMux!Frames(s) = Frames(s) /\ AVMux!Number(s) = Number(s)
  BY Zenon DEF AVMux!Streams, Streams, AVMux!Frames, Frames, AVMux!Number, Number
<1> QED
  BY <1>1, <1>2, <1>3, NotOverwritten

LEMMA AvStart == WritersAssumption /\ AVMux!Init => AvInv
<1> SUFFICES ASSUME WritersAssumption, AVMux!Init PROVE AvInv
  OBVIOUS
<1>1. /\ frameTime \in [Streams -> 1 .. CameraFrameTime] /\ delay \in [Streams -> 0 .. MaxDelay]
      /\ stage = "streams" /\ encode = {} /\ lost = {} /\ inx = 0 /\ failures = 0
      /\ \A s \in Streams : next_pts[s] = 0 /\ held[s] = {} /\ file[s] = {}
      /\ next_pts = [s \in Streams |-> 0] /\ held = [s \in Streams |-> {}]
      /\ file = [s \in Streams |-> {}]
  BY AvSame DEF AVMux!Init, AVMux!CoreInit
<1>2. Kinds(CameraFrameTime)
  BY <1>1 DEF Kinds
<1>3. ASSUME NEW s \in Streams PROVE AvStream(s) /\ AvFinished(s)
  <2>1. LostOf(s) = {} /\ held[s] = {} /\ file[s] = {} /\ next_pts[s] = 0
    BY <1>1 DEF LostOf
  <2>2. Stream({}, {}, {}, frameTime[s], 0, delay[s], CameraDuration)
    BY <1>2, AvFacts, Fresh
  <2> QED
    BY <2>1, <2>2 DEF AvStream, AvFinished
<1>4. 0 \in 0 .. InxLimit + 2 /\ 0 \in 0 .. MaxFailures
  BY DEF WritersAssumption, AVMux!AVMuxerAssumption
<1> QED
  BY <1>1, <1>2, <1>3, <1>4 DEF AvInv, Stages

\* The steps before and after the loop, a failure, and the end of the pictures.
LEMMA AvQuiet ==
  ASSUME WritersAssumption, AvInv,
         UNCHANGED <<frameTime, delay, next_pts, held, file>>,
         UNCHANGED <<inx, lost, failures>>,
         stage' \in Stages, stage' # "streams" \/ stage = "streams",
         encode' \subseteq Streams,
         \/ stage = "streams" \/ encode' = encode
         \/ encode' = encode \ {"video"} /\ ~AVMux!MoreFrames("video"),
         stage' \in {"trailer", "done"} => encode' = {}
  PROVE  AvInv'
<1>1. Kinds(CameraFrameTime)'
  BY DEF AvInv, Kinds
<1>2. ASSUME NEW s \in Streams PROVE AvStream(s)' /\ AvFinished(s)'
  <2>1. AvStream(s)'
    BY DEF AvInv, AvStream, LostOf
  <2>2. AvFinished(s)'
    <3>1. CASE stage = "streams" \/ encode' = encode
      BY <3>1 DEF AvInv, AvFinished
    <3>2. CASE encode' = encode \ {"video"} /\ ~AVMux!MoreFrames("video")
      <4>1. next_pts[s] \in Nat /\ CameraDuration \in Nat
        BY AvFacts DEF AvInv
      <4>2. s = "video" => next_pts[s] >= CameraDuration
        BY <3>2, <4>1 DEF AVMux!MoreFrames
      <4> QED
        BY <3>2, <4>2 DEF AvInv, AvFinished
    <3> QED
      BY <3>1, <3>2
  <2> QED
    BY <2>1, <2>2
<1> QED
  BY <1>1, <1>2 DEF AvInv

\* One stream is written, the other stays as it was.
LEMMA AvTurn ==
  ASSUME AvInv, NEW s \in Streams, stage = "encode", stage' = stage,
         frameTime' = frameTime, delay' = delay, encode' \in {encode, encode \ {s}},
         next_pts' \in [Streams -> Nat],
         held' \in [Streams -> SUBSET AsGiven], file' \in [Streams -> SUBSET AsGiven],
         lost' \subseteq Nat, inx' \in 0 .. InxLimit + 2, failures' \in 0 .. MaxFailures,
         \A t \in Streams \ {s} :
           /\ held'[t] = held[t] /\ file'[t] = file[t] /\ next_pts'[t] = next_pts[t]
           /\ t = "audio" => lost' = lost,
         AvStream(s)', AvFinished(s)'
  PROVE  AvInv'
<1>1. ASSUME NEW t \in Streams, t # s PROVE AvStream(t)' /\ AvFinished(t)'
  <2>1. /\ t \in encode' <=> t \in encode
        /\ held'[t] = held[t] /\ file'[t] = file[t] /\ next_pts'[t] = next_pts[t]
        /\ LostOf(t)' = LostOf(t)
    BY <1>1 DEF LostOf
  <2>2. AvStream(t)'
    BY <2>1 DEF AvInv, AvStream
  <2>3. AvFinished(t)'
    BY <2>1 DEF AvInv, AvFinished
  <2> QED
    BY <2>2, <2>3
<1>2. Kinds(CameraFrameTime)'
  BY DEF AvInv, Kinds
<1> QED
  BY <1>1, <1>2 DEF AvInv

\* What the encoder does with g.
LEMMA AvEncodes ==
  ASSUME Kinds(CameraFrameTime), NEW s \in Streams, NEW g, g \subseteq AsGiven, NEW k,
         AVMux!EncodeAndWrite(s, g, k)
  PROVE  /\ held' \in [Streams -> SUBSET AsGiven] /\ file' \in [Streams -> SUBSET AsGiven]
         /\ \A t \in Streams \ {s} : held'[t] = held[t] /\ file'[t] = file[t]
         /\ \/ \E q \in g : held'[s] = g \ {q} /\ file'[s] = file[s] \cup {q}
            \/ Cardinality(g) <= k /\ held'[s] = g /\ file'[s] = file[s]
<1>0. held \in [Streams -> SUBSET AsGiven] /\ file \in [Streams -> SUBSET AsGiven]
  BY DEF Kinds
<1>1. CASE \E f \in g : /\ held' = [held EXCEPT ![s] = g \ {f}]
                        /\ file' = [file EXCEPT ![s] = @ \cup {f}]
  <2>1. PICK f \in g : /\ held' = [held EXCEPT ![s] = g \ {f}]
                       /\ file' = [file EXCEPT ![s] = @ \cup {f}]
    BY <1>1
  <2>2. held' \in [Streams -> SUBSET AsGiven] /\ file' \in [Streams -> SUBSET AsGiven]
    BY <1>0, <2>1
  <2>3. /\ \A t \in Streams \ {s} : held'[t] = held[t] /\ file'[t] = file[t]
        /\ held'[s] = g \ {f} /\ file'[s] = file[s] \cup {f}
    BY <1>0, <2>1
  <2> QED
    BY <2>2, <2>3
<1>2. CASE Cardinality(g) <= k /\ held' = [held EXCEPT ![s] = g] /\ file' = file
  BY <1>0, <1>2
<1> QED
  BY <1>1, <1>2, SameCount DEF AVMux!EncodeAndWrite

\* What becomes of the sound when a packet cannot be written.
LEMMA AvDrops ==
  ASSUME Kinds(CameraFrameTime), NEW g, g \subseteq AsGiven, NEW k, AVMux!AudioDropped(g, k)
  PROVE  /\ held' \in [Streams -> SUBSET AsGiven]
         /\ \A t \in Streams \ {"audio"} : held'[t] = held[t]
         /\ \E q \in g : held'["audio"] = g \ {q} /\ lost' = lost \cup {q.frame} /\ q.frame \in Nat
<1>0. held \in [Streams -> SUBSET AsGiven] /\ "audio" \in Streams
  BY DEF Kinds, Streams
<1>1. PICK q \in g : /\ held' = [held EXCEPT !["audio"] = g \ {q}]
                     /\ lost' = lost \cup {q.frame}
  BY DEF AVMux!AudioDropped
<1>2. held' \in [Streams -> SUBSET AsGiven]
  BY <1>0, <1>1
<1>3. /\ \A t \in Streams \ {"audio"} : held'[t] = held[t]
      /\ held'["audio"] = g \ {q}
  BY <1>0, <1>1
<1>4. q.frame \in Nat
  BY DEF AsGiven, Show
<1> QED
  BY <1>1, <1>2, <1>3, <1>4

\* What the frame that is made next does to a stream, wherever it ends.
LEMMA AvMakes ==
  ASSUME WritersAssumption, AvInv, NEW s \in Streams, NEW sharers,
         AVMux!MoreFrames(s), AVMux!FillFrame(s, sharers), NEW g,
         g = held[s] \cup {Show(Number(s), Number(s))}
  PROVE  /\ next_pts' \in [Streams -> Nat]
         /\ \A t \in Streams \ {s} : next_pts'[t] = next_pts[t]
         /\ g \subseteq AsGiven /\ Number(s) \in Nat
         /\ \A q \in g :
              /\ Stream(g \ {q}, file[s] \cup {q}, LostOf(s), frameTime[s], next_pts'[s],
                        delay[s], CameraDuration)
              /\ Stream(g \ {q}, file[s], LostOf(s) \cup {q.frame}, frameTime[s],
                        next_pts'[s], delay[s], CameraDuration)
         /\ Cardinality(g) <= delay[s] =>
              Stream(g, file[s], LostOf(s), frameTime[s], next_pts'[s], delay[s],
                     CameraDuration)
         /\ Stream(held[s], file[s], LostOf(s) \cup {Number(s)}, frameTime[s], next_pts'[s],
                   delay[s], CameraDuration)
<1>1. /\ frameTime[s] \in Nat \ {0} /\ delay[s] \in Nat /\ next_pts[s] \in Nat
      /\ CameraDuration \in Nat /\ next_pts \in [Streams -> Nat]
  BY AvFacts DEF AvInv, Kinds
<1>2. next_pts[s] < CameraDuration /\ next_pts' = [next_pts EXCEPT ![s] = @ + frameTime[s]]
  BY DEF AVMux!MoreFrames, AVMux!FillFrame
<1>3. /\ next_pts' \in [Streams -> Nat] /\ next_pts'[s] = next_pts[s] + frameTime[s]
      /\ \A t \in Streams \ {s} : next_pts'[t] = next_pts[t]
  BY <1>1, <1>2
<1>4. PICK n : n = Number(s)
  OBVIOUS
<1>5. n = next_pts[s] \div frameTime[s] + 1
  BY <1>4 DEF Number
<1>6. Stream(held[s], file[s], LostOf(s), frameTime[s], next_pts[s], delay[s], CameraDuration)
  BY DEF AvInv, AvStream
<1>7. n \in Nat
  BY <1>5, <1>6 DEF Stream
<1>8. g = held[s] \cup {Show(n, n)}
  BY <1>4
<1>9. /\ g \subseteq AsGiven
      /\ \A q \in g :
           /\ Stream(g \ {q}, file[s] \cup {q}, LostOf(s), frameTime[s],
                     next_pts[s] + frameTime[s], delay[s], CameraDuration)
           /\ Stream(g \ {q}, file[s], LostOf(s) \cup {q.frame}, frameTime[s],
                     next_pts[s] + frameTime[s], delay[s], CameraDuration)
      /\ Cardinality(g) <= delay[s] =>
           Stream(g, file[s], LostOf(s), frameTime[s], next_pts[s] + frameTime[s], delay[s],
                  CameraDuration)
      /\ Stream(held[s], file[s], LostOf(s) \cup {n}, frameTime[s],
                next_pts[s] + frameTime[s], delay[s], CameraDuration)
  <2>1. PICK h, f, l, t, p, d, D :
          /\ h = held[s] /\ f = file[s] /\ l = LostOf(s) /\ t = frameTime[s]
          /\ p = next_pts[s] /\ d = delay[s] /\ D = CameraDuration
    OBVIOUS
  <2>2. Stream(h, f, l, t, p, d, D) /\ g = h \cup {Show(n, n)}
    BY <1>6, <1>8, <2>1, Zenon
  <2>3. /\ t \in Nat \ {0} /\ p \in Nat /\ d \in Nat /\ D \in Nat /\ p < D
        /\ n = p \div t + 1
    BY <1>1, <1>2, <1>5, <2>1
  <2>4. /\ g \subseteq AsGiven
        /\ \A q \in g : /\ Stream(g \ {q}, f \cup {q}, l, t, p + t, d, D)
                        /\ Stream(g \ {q}, f, l \cup {q.frame}, t, p + t, d, D)
        /\ Cardinality(g) <= d => Stream(g, f, l, t, p + t, d, D)
        /\ Stream(h, f, l \cup {n}, t, p + t, d, D)
    BY <2>2, <2>3, Enters
  <2> QED
    BY <2>1, <2>4, Zenon
<1> QED
  BY <1>3, <1>4, <1>7, <1>9

\* A frame was made and encoded.
LEMMA AvGiven ==
  ASSUME WritersAssumption, AvInv, NEW s \in Streams, s \in encode,
         stage = "encode", stage' = stage, encode' = encode,
         frameTime' = frameTime, delay' = delay, lost' = lost,
         inx' \in 0 .. InxLimit + 2, failures' \in 0 .. MaxFailures,
         AVMux!MoreFrames(s), AVMux!FillFrame(s, AVMux!make_writable(s)),
         AVMux!EncodeAndWrite(s, AVMux!Fed(s, AVMux!make_writable(s)), delay[s])
  PROVE  AvInv'
<1> DEFINE g == held[s] \cup {Show(Number(s), Number(s))}
<1>1. AVMux!EncodeAndWrite(s, g, delay[s])
  BY AvSame
<1>2. g = held[s] \cup {Show(Number(s), Number(s))}
  OBVIOUS
<1> HIDE DEF g
<1>3. /\ next_pts' \in [Streams -> Nat]
      /\ \A t \in Streams \ {s} : next_pts'[t] = next_pts[t]
      /\ g \subseteq AsGiven
      /\ \A q \in g : Stream(g \ {q}, file[s] \cup {q}, LostOf(s), frameTime[s], next_pts'[s],
                             delay[s], CameraDuration)
      /\ Cardinality(g) <= delay[s] =>
           Stream(g, file[s], LostOf(s), frameTime[s], next_pts'[s], delay[s], CameraDuration)
  BY <1>2, AvMakes
<1>4. /\ held' \in [Streams -> SUBSET AsGiven] /\ file' \in [Streams -> SUBSET AsGiven]
      /\ \A t \in Streams \ {s} : held'[t] = held[t] /\ file'[t] = file[t]
      /\ \/ \E q \in g : held'[s] = g \ {q} /\ file'[s] = file[s] \cup {q}
         \/ Cardinality(g) <= delay[s] /\ held'[s] = g /\ file'[s] = file[s]
  BY <1>1, <1>3, AvEncodes DEF AvInv
<1>5. LostOf(s)' = LostOf(s)
  BY DEF LostOf
<1>6. AvStream(s)'
  BY <1>3, <1>4, <1>5 DEF AvStream
<1>7. AvFinished(s)' /\ lost' \subseteq Nat
  BY DEF AvFinished, AvInv
<1> QED
  BY <1>3, <1>4, <1>6, <1>7, AvTurn

\* The counter of the calls stays within its values.
LEMMA AvCounted ==
  ASSUME WritersAssumption, AvInv, NEW finished, AVMux!ReturnAudio(finished)
  PROVE  /\ inx' \in 0 .. InxLimit + 2
         /\ encode' \in {encode, encode \ {"audio"}}
         /\ ~finished => encode' = encode
<1>1. inx \in 0 .. InxLimit + 2 /\ InxLimit \in Nat
  BY DEF AvInv, WritersAssumption, AVMux!AVMuxerAssumption
<1>2. inx' = IF inx <= InxLimit + 1 THEN inx + 1 ELSE InxLimit + 1
  BY DEF AVMux!ReturnAudio
<1>3. inx' \in 0 .. InxLimit + 2
  BY <1>1, <1>2
<1> QED
  BY <1>3 DEF AVMux!ReturnAudio

\* There is a frame of sound, and it, or a packet, is lost.
LEMMA AvLost ==
  ASSUME WritersAssumption, AvInv, stage = "encode", stage' = stage, "audio" \in encode,
         frameTime' = frameTime, delay' = delay, encode' = encode, file' = file,
         inx' \in 0 .. InxLimit + 2, failures' \in 0 .. MaxFailures,
         AVMux!MoreFrames("audio"), AVMux!FillFrame("audio", AVMux!make_writable("audio")),
         \/ held' = held /\ lost' = lost \cup {AVMux!Number("audio")}
         \/ AVMux!AudioDropped(AVMux!Fed("audio", AVMux!make_writable("audio")), delay["audio"])
  PROVE  AvInv'
<1> DEFINE s == "audio"
           g == held[s] \cup {Show(Number(s), Number(s))}
<1>1. s \in Streams /\ s = "audio"
  BY DEF Streams
<1>2. /\ \/ held' = held /\ lost' = lost \cup {Number(s)}
         \/ AVMux!AudioDropped(g, delay[s])
      /\ AVMux!MoreFrames(s) /\ AVMux!FillFrame(s, AVMux!make_writable(s))
      /\ s \in encode
  BY AvSame
<1>3. g = held[s] \cup {Show(Number(s), Number(s))}
  OBVIOUS
<1> HIDE DEF g, s
<1>4. /\ next_pts' \in [Streams -> Nat]
      /\ \A t \in Streams \ {s} : next_pts'[t] = next_pts[t]
      /\ g \subseteq AsGiven /\ Number(s) \in Nat
      /\ \A q \in g : Stream(g \ {q}, file[s], LostOf(s) \cup {q.frame}, frameTime[s],
                             next_pts'[s], delay[s], CameraDuration)
      /\ Stream(held[s], file[s], LostOf(s) \cup {Number(s)}, frameTime[s], next_pts'[s],
                delay[s], CameraDuration)
  BY <1>1, <1>2, <1>3, AvMakes
<1>5. /\ held \in [Streams -> SUBSET AsGiven] /\ file \in [Streams -> SUBSET AsGiven]
      /\ lost \subseteq Nat
  BY DEF AvInv, Kinds
<1>6. LostOf(s) = lost /\ LostOf(s)' = lost'
  BY <1>1 DEF LostOf
<1>7. /\ held' \in [Streams -> SUBSET AsGiven] /\ lost' \subseteq Nat
      /\ \A t \in Streams \ {s} : held'[t] = held[t] /\ file'[t] = file[t]
      /\ Stream(held'[s], file'[s], LostOf(s)', frameTime'[s], next_pts'[s], delay'[s],
                CameraDuration)
  <2>1. CASE held' = held /\ lost' = lost \cup {Number(s)}
    BY <1>4, <1>5, <1>6, <2>1
  <2>2. CASE AVMux!AudioDropped(g, delay[s])
    <3>1. /\ held' \in [Streams -> SUBSET AsGiven]
          /\ \A t \in Streams \ {s} : held'[t] = held[t]
          /\ \E q \in g : held'[s] = g \ {q} /\ lost' = lost \cup {q.frame} /\ q.frame \in Nat
      BY <1>1, <1>4, <2>2, AvDrops DEF AvInv
    <3>2. PICK q \in g : held'[s] = g \ {q} /\ lost' = lost \cup {q.frame} /\ q.frame \in Nat
      BY <3>1
    <3>3. lost' \subseteq Nat
      BY <1>5, <3>2
    <3> QED
      BY <1>4, <1>6, <3>1, <3>2, <3>3
  <2> QED
    BY <1>2, <2>1, <2>2
<1>8. AvStream(s)' /\ AvFinished(s)'
  BY <1>2, <1>7 DEF AvStream, AvFinished
<1> QED
  BY <1>1, <1>4, <1>5, <1>7, <1>8, AvTurn

\* There is no frame: what the encoder holds is written or lost.
LEMMA AvEmptied ==
  ASSUME WritersAssumption, AvInv, stage = "encode", stage' = stage, "audio" \in encode,
         frameTime' = frameTime, delay' = delay, ~AVMux!MoreFrames("audio"),
         next_pts' = next_pts, inx' \in 0 .. InxLimit + 2, failures' \in 0 .. MaxFailures,
         encode' \in {encode, encode \ {"audio"}},
         "audio" \notin encode' => held'["audio"] = {},
         held' \in [Streams -> SUBSET AsGiven], file' \in [Streams -> SUBSET AsGiven],
         \A t \in Streams \ {"audio"} : held'[t] = held[t] /\ file'[t] = file[t],
         lost' \subseteq Nat,
         \/ \E q \in held["audio"] :
              /\ held'["audio"] = held["audio"] \ {q}
              /\ \/ file'["audio"] = file["audio"] \cup {q} /\ lost' = lost
                 \/ file'["audio"] = file["audio"] /\ lost' = lost \cup {q.frame}
         \/ held'["audio"] = {} /\ file' = file /\ lost' = lost \cup Frames(held["audio"])
  PROVE  AvInv'
<1> DEFINE s == "audio"
<1>1. s \in Streams /\ s = "audio"
  BY DEF Streams
<1> HIDE DEF s
<1>2. /\ frameTime[s] \in Nat \ {0} /\ delay[s] \in Nat /\ next_pts[s] \in Nat
      /\ CameraDuration \in Nat
  BY <1>1, AvFacts DEF AvInv
<1>3. LostOf(s) = lost /\ LostOf(s)' = lost'
  BY <1>1 DEF LostOf
<1>4. Stream(held[s], file[s], lost, frameTime[s], next_pts[s], delay[s], CameraDuration)
  BY <1>1, <1>3 DEF AvInv, AvStream
<1>5. /\ \A q \in held[s] :
           /\ Stream(held[s] \ {q}, file[s] \cup {q}, lost, frameTime[s], next_pts[s],
                     delay[s], CameraDuration)
           /\ Stream(held[s] \ {q}, file[s], lost \cup {q.frame}, frameTime[s], next_pts[s],
                     delay[s], CameraDuration)
      /\ Stream({}, file[s], lost \cup Frames(held[s]), frameTime[s], next_pts[s], delay[s],
                CameraDuration)
  BY <1>2, <1>4, Leaves
<1>6. AvStream(s)'
  <2>1. /\ frameTime'[s] = frameTime[s] /\ next_pts'[s] = next_pts[s] /\ delay'[s] = delay[s]
    OBVIOUS
  <2>2. Stream(held'[s], file'[s], lost', frameTime[s], next_pts[s], delay[s], CameraDuration)
    <3>1. ASSUME NEW q \in held[s], held'[s] = held[s] \ {q},
                 \/ file'[s] = file[s] \cup {q} /\ lost' = lost
                 \/ file'[s] = file[s] /\ lost' = lost \cup {q.frame}
          PROVE  Stream(held'[s], file'[s], lost', frameTime[s], next_pts[s], delay[s],
                        CameraDuration)
      BY <1>5, <3>1
    <3>2. CASE held'[s] = {} /\ file' = file /\ lost' = lost \cup Frames(held[s])
      BY <1>5, <3>2
    <3> QED
      BY <1>1, <3>1, <3>2
  <2> QED
    BY <1>3, <2>1, <2>2 DEF AvStream
<1>7. AvFinished(s)'
  <2>1. next_pts[s] >= CameraDuration
    BY <1>1, <1>2 DEF AVMux!MoreFrames
  <2> QED
    BY <1>1, <2>1 DEF AvFinished
<1>8. next_pts' \in [Streams -> Nat]
  BY DEF AvInv, Kinds
<1> QED
  BY <1>1, <1>6, <1>7, <1>8, AvTurn

LEMMA AvSound ==
  ASSUME WritersAssumption, AvInv, stage = "encode", "audio" \in encode,
         UNCHANGED <<codecVars, stage>>,
         AVMux!AudioGiven \/ AVMux!AudioFlushed \/ AVMux!AudioNotEncoded \/ AVMux!AudioNotWritten
  PROVE  AvInv'
<1>0. /\ "audio" \in Streams /\ frameTime' = frameTime /\ delay' = delay /\ stage' = stage
      /\ failures \in 0 .. MaxFailures /\ MaxFailures \in Nat /\ lost \subseteq Nat
      /\ Kinds(CameraFrameTime) /\ held["audio"] \subseteq AsGiven
      /\ held \in [Streams -> SUBSET AsGiven] /\ file \in [Streams -> SUBSET AsGiven]
  BY DEF AvInv, Kinds, Streams, codecVars, WritersAssumption, AVMux!AVMuxerAssumption
<1>1. CASE AVMux!AudioGiven
  <2>1. /\ AVMux!MoreFrames("audio")
        /\ AVMux!FillFrame("audio", AVMux!make_writable("audio"))
        /\ AVMux!EncodeAndWrite("audio", AVMux!Fed("audio", AVMux!make_writable("audio")),
                                delay["audio"])
        /\ AVMux!ReturnAudio(FALSE) /\ lost' = lost /\ failures' = failures
    BY <1>1 DEF AVMux!AudioGiven
  <2>2. inx' \in 0 .. InxLimit + 2 /\ encode' = encode
    BY <2>1, AvCounted
  <2> QED
    BY <1>0, <2>1, <2>2, AvGiven
<1>2. CASE AVMux!AudioFlushed
  <2>1. /\ ~AVMux!MoreFrames("audio") /\ next_pts' = next_pts
        /\ AVMux!EncodeAndWrite("audio", held["audio"], 0)
        /\ AVMux!ReturnAudio(held["audio"] = {}) /\ lost' = lost /\ failures' = failures
    BY <1>2 DEF AVMux!AudioFlushed, AVMux!NoMoreFrames
  <2>2. /\ inx' \in 0 .. InxLimit + 2 /\ encode' \in {encode, encode \ {"audio"}}
        /\ held["audio"] # {} => encode' = encode
    BY <2>1, AvCounted
  <2>3. /\ held' \in [Streams -> SUBSET AsGiven] /\ file' \in [Streams -> SUBSET AsGiven]
        /\ \A t \in Streams \ {"audio"} : held'[t] = held[t] /\ file'[t] = file[t]
        /\ \/ \E q \in held["audio"] : /\ held'["audio"] = held["audio"] \ {q}
                                       /\ file'["audio"] = file["audio"] \cup {q}
           \/ /\ Cardinality(held["audio"]) <= 0
              /\ held'["audio"] = held["audio"] /\ file'["audio"] = file["audio"]
    BY <1>0, <2>1, AvEncodes
  <2>4. CASE \E q \in held["audio"] : /\ held'["audio"] = held["audio"] \ {q}
                                      /\ file'["audio"] = file["audio"] \cup {q}
    <3>1. encode' = encode
      BY <2>2, <2>4
    <3>2. \E q \in held["audio"] :
            /\ held'["audio"] = held["audio"] \ {q}
            /\ \/ file'["audio"] = file["audio"] \cup {q} /\ lost' = lost
               \/ file'["audio"] = file["audio"] /\ lost' = lost \cup {q.frame}
      BY <2>1, <2>4
    <3> QED
      BY <1>0, <2>1, <2>2, <2>3, <3>1, <3>2, AvEmptied
  <2>5. CASE /\ Cardinality(held["audio"]) <= 0
             /\ held'["audio"] = held["audio"] /\ file'["audio"] = file["audio"]
    <3>1. held["audio"] = {}
      <4>1. IsFiniteSet(held["audio"]) /\ Cardinality(held["audio"]) \in Nat
        BY <1>0, FS_CardinalityType DEF AvInv, AvStream, Stream
      <4>2. Cardinality(held["audio"]) = 0
        BY <2>5, <4>1
      <4> QED
        BY <4>1, <4>2, FS_EmptySet
    <3>2. file' = file
      BY <1>0, <2>3, <2>5
    <3>3. lost' = lost \cup Frames(held["audio"])
      BY <2>1, <3>1 DEF Frames
    <3> QED
      BY <1>0, <2>1, <2>2, <2>3, <2>5, <3>1, <3>2, <3>3, AvEmptied
  <2> QED
    BY <2>3, <2>4, <2>5
<1>3. CASE AVMux!AudioNotEncoded
  <2>0. /\ failures' \in 0 .. MaxFailures /\ file' = file
        /\ AVMux!ReturnAudio(~AVMux!MoreFrames("audio"))
    BY <1>0, <1>3 DEF AVMux!AudioNotEncoded
  <2>1. CASE AVMux!MoreFrames("audio")
    <3>1. /\ AVMux!FillFrame("audio", AVMux!make_writable("audio"))
          /\ lost' = lost \cup {AVMux!Number("audio")} /\ held' = held
      BY <1>3, <2>1 DEF AVMux!AudioNotEncoded
    <3>2. inx' \in 0 .. InxLimit + 2 /\ encode' = encode
      BY <2>0, <2>1, AvCounted
    <3> QED
      BY <1>0, <2>0, <2>1, <3>1, <3>2, AvLost
  <2>2. CASE ~AVMux!MoreFrames("audio")
    <3>1. /\ next_pts' = next_pts /\ lost' = lost \cup Frames(held["audio"])
          /\ held' = [held EXCEPT !["audio"] = {}]
      BY <1>3, <2>2, AvSame DEF AVMux!AudioNotEncoded, AVMux!NoMoreFrames
    <3>2. inx' \in 0 .. InxLimit + 2 /\ encode' \in {encode, encode \ {"audio"}}
      BY <2>0, AvCounted
    <3>3. /\ held' \in [Streams -> SUBSET AsGiven] /\ held'["audio"] = {}
          /\ \A t \in Streams \ {"audio"} : held'[t] = held[t] /\ file'[t] = file[t]
      BY <1>0, <2>0, <3>1
    <3>4. lost' \subseteq Nat
      <4>1. \A f \in held["audio"] : f.frame \in Nat
        BY <1>0 DEF AsGiven, Show
      <4>2. Frames(held["audio"]) \subseteq Nat
        BY <4>1 DEF Frames
      <4> QED
        BY <1>0, <3>1, <4>2
    <3> QED
      BY <1>0, <2>0, <2>2, <3>1, <3>2, <3>3, <3>4, AvEmptied
  <2> QED
    BY <2>1, <2>2
<1>4. CASE AVMux!AudioNotWritten
  <2>0. failures' \in 0 .. MaxFailures /\ file' = file /\ AVMux!ReturnAudio(FALSE)
    <3>1. failures < MaxFailures /\ failures' = failures + 1
          /\ file' = file /\ AVMux!ReturnAudio(FALSE)
      BY <1>4, Zenon DEF AVMux!AudioNotWritten
    <3>2. failures \in 0 .. MaxFailures /\ MaxFailures \in Nat
      BY <1>0
    <3>3. failures' \in 0 .. MaxFailures
      BY <3>1, <3>2
    <3> QED
      BY <3>1, <3>3, Zenon
  <2>3. inx' \in 0 .. InxLimit + 2 /\ encode' = encode
    BY <2>0, AvCounted
  <2>1. CASE AVMux!MoreFrames("audio")
    <3>1. /\ AVMux!FillFrame("audio", AVMux!make_writable("audio"))
          /\ AVMux!AudioDropped(AVMux!Fed("audio", AVMux!make_writable("audio")),
                                delay["audio"])
      BY <1>4, <2>1 DEF AVMux!AudioNotWritten
    <3> QED
      BY <1>0, <2>0, <2>1, <2>3, <3>1, AvLost
  <2>2. CASE ~AVMux!MoreFrames("audio")
    <3>1. next_pts' = next_pts /\ AVMux!AudioDropped(held["audio"], 0)
      BY <1>4, <2>2 DEF AVMux!AudioNotWritten, AVMux!NoMoreFrames
    <3>2. /\ held' \in [Streams -> SUBSET AsGiven]
          /\ \A t \in Streams \ {"audio"} : held'[t] = held[t]
          /\ \E q \in held["audio"] :
               held'["audio"] = held["audio"] \ {q} /\ lost' = lost \cup {q.frame} /\ q.frame \in Nat
      BY <1>0, <3>1, AvDrops
    <3>3. lost' \subseteq Nat
      BY <1>0, <3>2
    <3>4. \E q \in held["audio"] :
            /\ held'["audio"] = held["audio"] \ {q}
            /\ \/ file'["audio"] = file["audio"] \cup {q} /\ lost' = lost
               \/ file'["audio"] = file["audio"] /\ lost' = lost \cup {q.frame}
      BY <2>0, <3>2
    <3> QED
      BY <1>0, <2>0, <2>2, <2>3, <3>1, <3>2, <3>3, <3>4, AvEmptied
  <2> QED
    BY <2>1, <2>2
<1> QED
  BY <1>1, <1>2, <1>3, <1>4

\* Another muxer begins as the first did, but for its counter.
LEMMA AvAgain == WritersAssumption /\ AvInv /\ AVMux!Another => AvInv'
<1> SUFFICES ASSUME WritersAssumption, AvInv, AVMux!Another PROVE AvInv'
  OBVIOUS
<1>1. /\ stage' = "streams" /\ encode' = {} /\ lost' = {} /\ inx' = inx
      /\ failures' = failures /\ frameTime' = frameTime /\ delay' = delay
      /\ next_pts' = [s \in Streams |-> 0]
      /\ held' = [s \in Streams |-> {}] /\ file' = [s \in Streams |-> {}]
  BY AvSame DEF AVMux!Another, AVMux!codecVars
<1>2. Kinds(CameraFrameTime)'
  BY <1>1 DEF AvInv, Kinds
<1>3. ASSUME NEW s \in Streams PROVE AvStream(s)' /\ AvFinished(s)'
  <2>1. /\ LostOf(s)' = {} /\ held'[s] = {} /\ file'[s] = {} /\ next_pts'[s] = 0
        /\ frameTime'[s] = frameTime[s] /\ delay'[s] = delay[s]
    BY <1>1 DEF LostOf
  <2>2. Stream({}, {}, {}, frameTime[s], 0, delay[s], CameraDuration)
    BY AvFacts, Fresh DEF AvInv
  <2> QED
    BY <2>1, <2>2 DEF AvStream, AvFinished
<1>4. \A s \in Streams : next_pts'[s] = 0
  BY <1>1
<1> QED
  BY <1>1, <1>2, <1>3, <1>4 DEF AvInv, Stages

LEMMA AvStep == WritersAssumption /\ AvInv /\ [AVMux!Next]_muxerVars => AvInv'
<1> SUFFICES ASSUME WritersAssumption, AvInv, [AVMux!Next]_muxerVars PROVE AvInv'
  OBVIOUS
<1>0. stage \in Stages /\ encode \subseteq Streams
  BY DEF AvInv, Kinds
<1> USE DEF AVMux!codecVars, AVMux!streamVars, AVMux!muxerVars
<1>1. CASE AVMux!AddStreams
  BY <1>0, <1>1, AvQuiet DEF AVMux!AddStreams, AVMux!Streams, Streams, Stages
<1>2. CASE AVMux!Exit
  BY <1>0, <1>2, AvQuiet DEF AVMux!Exit, Stages
<1>3. CASE AVMux!OpenVideo \/ AVMux!OpenAudio \/ AVMux!WriteHeader
  BY <1>0, <1>2, <1>3, AvQuiet
     DEF AVMux!OpenVideo, AVMux!OpenAudio, AVMux!WriteHeader, Stages
<1>4. CASE AVMux!WriteTrailer \/ AVMux!CloseStreams
  BY <1>0, <1>4, AvQuiet DEF AVMux!WriteTrailer, AVMux!CloseStreams, Stages, AvInv
<1>5. CASE AVMux!write_audio_frame
  <2>1. stage = "encode" /\ "audio" \in encode
    BY <1>0, <1>5 DEF AVMux!write_audio_frame, AVMux!NextStream, Streams
  <2> QED
    BY <1>2, <1>5, <2>1, AvSound DEF AVMux!write_audio_frame, codecVars
<1>6. CASE AVMux!write_video_frame
  <2>1. stage = "encode" /\ "video" \in encode /\ "video" \in Streams
    BY <1>0, <1>6 DEF AVMux!write_video_frame, AVMux!NextStream, Streams
  <2>2. CASE AVMux!VideoEnds /\ UNCHANGED <<AVMux!codecVars, stage, AVMux!muxerVars>>
    BY <1>0, <2>1, <2>2, AvQuiet DEF AVMux!VideoEnds, Stages
  <2>3. CASE AVMux!VideoGiven /\ UNCHANGED <<AVMux!codecVars, stage, AVMux!muxerVars>>
    <3>1. inx' \in 0 .. InxLimit + 2 /\ failures' \in 0 .. MaxFailures
      BY <2>3 DEF AvInv
    <3> QED
      BY <2>1, <2>3, <3>1, AvGiven DEF AVMux!VideoGiven
  <2> QED
    BY <1>2, <1>6, <2>2, <2>3 DEF AVMux!write_video_frame
<1>7. CASE AVMux!Another
  BY <1>7, AvAgain
<1>8. CASE UNCHANGED muxerVars
  BY <1>0, <1>8, AvQuiet DEF muxerVars, coreVars, codecVars, streamVars, AvInv, Kinds
<1> QED
  BY <1>1, <1>3, <1>4, <1>5, <1>6, <1>7, <1>8 DEF AVMux!Next, AVMux!start

LEMMA AvTogether ==
  /\ WritersAssumption /\ AVMux!Init => AVMux!StreamsInterleaved
  /\ WritersAssumption /\ AvInv /\ AVMux!StreamsInterleaved /\ [AVMux!Next]_muxerVars
       => AVMux!StreamsInterleaved'
<1>1. WritersAssumption /\ AVMux!Init => AVMux!StreamsInterleaved
  BY DEF AVMux!Init, AVMux!CoreInit, AVMux!StreamsInterleaved, AVMux!Streams
<1>2. ASSUME WritersAssumption, AvInv, AVMux!StreamsInterleaved, [AVMux!Next]_muxerVars,
             encode' = Streams
      PROVE  /\ next_pts'["video"] <= next_pts'["audio"] + frameTime'["video"]
             /\ next_pts'["audio"] <= next_pts'["video"] + frameTime'["audio"]
  <2> USE DEF AVMux!codecVars, AVMux!streamVars, AVMux!muxerVars
  <2>0. /\ "video" \in Streams /\ "audio" \in Streams /\ next_pts \in [Streams -> Nat]
        /\ encode \subseteq Streams
        /\ encode = Streams =>
             /\ next_pts["video"] <= next_pts["audio"] + frameTime["video"]
             /\ next_pts["audio"] <= next_pts["video"] + frameTime["audio"]
    BY <1>2 DEF AVMux!StreamsInterleaved, AVMux!Streams, Streams, AvInv, Kinds
  <2>1. /\ next_pts["video"] \in Nat /\ next_pts["audio"] \in Nat
        /\ frameTime["video"] \in Nat \ {0} /\ frameTime["audio"] \in Nat \ {0}
    BY <1>2, <2>0, AvFacts DEF AvInv
  <2>2. CASE AVMux!AddStreams
    <3>2. next_pts["video"] = 0 /\ next_pts["audio"] = 0
      BY <1>2, <2>0, <2>2 DEF AVMux!AddStreams, AvInv
    <3>3. next_pts' = next_pts /\ frameTime' = frameTime
      BY <2>2 DEF AVMux!AddStreams
    <3> QED
      BY <2>1, <3>2, <3>3
  <2>3. CASE next_pts' = next_pts /\ frameTime' = frameTime /\ encode = Streams
    BY <2>0, <2>3
  <2>4. ASSUME NEW s \in Streams, AVMux!NextStream(s), AVMux!FillFrame(s, AVMux!make_writable(s)),
               frameTime' = frameTime, encode = Streams
        PROVE  /\ next_pts'["video"] <= next_pts'["audio"] + frameTime'["video"]
               /\ next_pts'["audio"] <= next_pts'["video"] + frameTime'["audio"]
    <3>1. s = IF next_pts["video"] <= next_pts["audio"] THEN "video" ELSE "audio"
      BY <2>0, <2>4 DEF AVMux!NextStream, AVMux!Behind
    <3>2. next_pts' = [next_pts EXCEPT ![s] = @ + frameTime[s]]
      BY <2>4 DEF AVMux!FillFrame
    <3> QED
      BY <2>0, <2>1, <2>4, <3>1, <3>2
  <2>5. CASE AVMux!Exit
    BY <1>2, <2>3, <2>5 DEF AVMux!Exit
  <2>6. CASE AVMux!write_audio_frame
    <3>1. CASE AVMux!Exit
      BY <2>5, <3>1
    <3>2. CASE /\ UNCHANGED <<AVMux!codecVars, stage, starts>>
               /\ AVMux!AudioGiven \/ AVMux!AudioFlushed \/ AVMux!AudioNotEncoded
                    \/ AVMux!AudioNotWritten
      <4>1. encode' \in {encode, encode \ {"audio"}} /\ frameTime' = frameTime
        BY <3>2 DEF AVMux!AudioGiven, AVMux!AudioFlushed, AVMux!AudioNotEncoded,
                    AVMux!AudioNotWritten, AVMux!ReturnAudio
      <4>2. encode = Streams
        BY <1>2, <2>0, <4>1
      <4>3. \/ AVMux!FillFrame("audio", AVMux!make_writable("audio"))
            \/ next_pts' = next_pts
        BY <3>2 DEF AVMux!AudioGiven, AVMux!AudioFlushed, AVMux!AudioNotEncoded,
                    AVMux!AudioNotWritten, AVMux!NoMoreFrames
      <4>4. AVMux!NextStream("audio")
        BY <2>6 DEF AVMux!write_audio_frame
      <4> QED
        BY <2>0, <2>3, <2>4, <4>1, <4>2, <4>3, <4>4
    <3> QED
      BY <2>6, <3>1, <3>2 DEF AVMux!write_audio_frame
  <2>7. CASE AVMux!write_video_frame
    <3>1. CASE AVMux!Exit
      BY <2>5, <3>1
    <3>2. CASE AVMux!VideoGiven /\ UNCHANGED <<AVMux!codecVars, stage, AVMux!muxerVars>>
      <4>1. /\ encode = Streams /\ frameTime' = frameTime /\ AVMux!NextStream("video")
            /\ AVMux!FillFrame("video", AVMux!make_writable("video"))
        BY <1>2, <2>7, <3>2 DEF AVMux!VideoGiven, AVMux!write_video_frame
      <4> QED
        BY <2>0, <2>4, <4>1
    <3>3. CASE AVMux!VideoEnds /\ UNCHANGED <<AVMux!codecVars, stage, AVMux!muxerVars>>
      BY <1>2, <2>0, <3>3 DEF AVMux!VideoEnds
    <3> QED
      BY <2>7, <3>1, <3>2, <3>3 DEF AVMux!write_video_frame
  <2>8. CASE AVMux!OpenVideo \/ AVMux!OpenAudio \/ AVMux!WriteHeader
             \/ AVMux!WriteTrailer \/ AVMux!CloseStreams
    BY <1>2, <2>3, <2>5, <2>8 DEF AVMux!OpenVideo, AVMux!OpenAudio, AVMux!WriteHeader,
       AVMux!WriteTrailer, AVMux!CloseStreams
  <2>9. CASE AVMux!Another
    BY <1>2, <2>9 DEF AVMux!Another, Streams
  <2>10. CASE UNCHANGED muxerVars
    BY <1>2, <2>3, <2>10 DEF muxerVars, coreVars, codecVars, streamVars
  <2> QED
    BY <1>2, <2>2, <2>6, <2>7, <2>8, <2>9, <2>10 DEF AVMux!Next, AVMux!start
<1>3. AVMux!Streams = Streams
  BY DEF AVMux!Streams, Streams
<1> QED
  BY <1>1, <1>2, <1>3 DEF AVMux!StreamsInterleaved

LEMMA AvTrue ==
  ASSUME WritersAssumption, AvInv
  PROVE  AVMux!TypeOK /\ AVMux!EncodedAsGiven /\ AVMux!OnlyDelayedLost
<1>0. Kinds(CameraFrameTime) /\ AVMux!Streams = Streams
  BY AvSame DEF AvInv
<1>1. ASSUME NEW s \in Streams
      PROVE  /\ next_pts[s] \in 0 .. CameraDuration + CameraFrameTime
             /\ Cardinality(held[s]) <= delay[s]
  <2>1. /\ frameTime[s] \in Nat \ {0} /\ frameTime[s] <= CameraFrameTime
        /\ CameraDuration \in Nat /\ CameraFrameTime \in Nat /\ next_pts[s] \in Nat
    BY <1>0, AvFacts
  <2>2. /\ next_pts[s] > 0 => next_pts[s] < CameraDuration + frameTime[s]
        /\ Cardinality(held[s]) <= delay[s]
    BY DEF AvInv, AvStream, Stream
  <2> QED
    BY <2>1, <2>2
<1>2. AVMux!TypeOK
  <2>1. next_pts \in [Streams -> 0 .. CameraDuration + CameraFrameTime]
    BY <1>0, <1>1 DEF Kinds
  <2>2. \A s \in Streams : AVMux!Cardinality(held[s]) <= delay[s]
    BY <1>1, SameCount
  <2> QED
    BY <1>0, <2>1, <2>2 DEF AVMux!TypeOK, AVMux!CoreTypeOK, AvInv, Kinds, Stages
<1>3. AVMux!EncodedAsGiven
  <2> SUFFICES ASSUME NEW s \in Streams, NEW f \in file[s] PROVE f.shows = f.frame
    BY <1>0 DEF AVMux!EncodedAsGiven
  <2>1. f \in AsGiven
    BY <1>0 DEF Kinds
  <2> QED
    BY <2>1 DEF AsGiven, Show
<1>4. AVMux!OnlyDelayedLost
  <2>1. ASSUME stage \in {"trailer", "done"}, NEW s \in Streams, next_pts[s] > 0
        PROVE  /\ Frames(held[s]) \cup Frames(file[s]) \cup LostOf(s) = 1 .. AVMux!Total(s)
               /\ s = "audio" => held[s] = {}
    <3>1. /\ next_pts[s] >= CameraDuration /\ (s = "audio" => held[s] = {})
          /\ frameTime[s] \in Nat \ {0} /\ next_pts[s] \in Nat /\ CameraDuration \in Nat
          /\ AvStream(s)
      <4>1. next_pts[s] # 0 /\ s \notin encode
        BY <1>0, <2>1, AvFacts DEF AvInv
      <4> QED
        BY <1>0, <4>1, AvFacts DEF AvInv, AvFinished
    <3>2. PICK h, f, l, t, p, d, D :
            /\ h = held[s] /\ f = file[s] /\ l = LostOf(s) /\ t = frameTime[s]
            /\ p = next_pts[s] /\ d = delay[s] /\ D = CameraDuration
      OBVIOUS
    <3>3. Stream(h, f, l, t, p, d, D)
      BY <3>1, <3>2, Zenon DEF AvStream
    <3>4. t \in Nat \ {0} /\ p \in Nat /\ D \in Nat /\ p > 0 /\ p >= D
      BY <2>1, <3>1, <3>2
    <3>5. Frames(h) \cup Frames(f) \cup l = 1 .. Starting(D, t)
      BY <3>3, <3>4, Over
    <3>6. Starting(D, t) = AVMux!Total(s)
      BY <3>2, Zenon DEF Starting, AVMux!Total
    <3> QED
      BY <3>1, <3>2, <3>5, <3>6, Zenon
  <2>2. "audio" \in Streams /\ "video" \in Streams
    BY DEF Streams
  <2>3. Frames({}) = {} /\ LostOf("audio") = lost /\ LostOf("video") = {}
    BY DEF Frames, LostOf
  <2>4. /\ AVMux!Frames(file["audio"]) = Frames(file["audio"])
        /\ AVMux!Frames(file["video"]) = Frames(file["video"])
        /\ AVMux!Frames(held["video"]) = Frames(held["video"])
    BY AvSame
  <2>5. ASSUME stage \in {"trailer", "done"}, next_pts["audio"] > 0
        PROVE  Frames(file["audio"]) \cup lost = 1 .. AVMux!Total("audio")
    BY <2>1, <2>2, <2>3, <2>5, Zenon
  <2>6. ASSUME stage \in {"trailer", "done"}, next_pts["video"] > 0
        PROVE  Frames(file["video"]) \cup Frames(held["video"]) = 1 .. AVMux!Total("video")
    BY <2>1, <2>2, <2>3, <2>6, Zenon
  <2> QED
    BY <2>4, <2>5, <2>6, Zenon DEF AVMux!OnlyDelayedLost
<1> QED
  BY <1>2, <1>3, <1>4

-------------------------------------------------------------------------------
(* The four writers.                                                       *)

\* Each writer's own invariant; main_mux and the camera's muxer share their variables.
WInv ==
  /\ program \in Programs
  /\ program = "muxing" => IInv /\ stage \in Stages /\ StreamsInterleaved
  /\ program = "avmuxer" => AvInv /\ AVMux!StreamsInterleaved
  /\ ImInv /\ CamInv

LEMMA WritersStart == WritersAssumption /\ WritersInit => WInv
<1> SUFFICES ASSUME WritersAssumption, WritersInit PROVE WInv
  OBVIOUS
<1>1. program \in Programs /\ ImInv /\ CamInv
  BY ImagesStart, CameraStart DEF WritersAssumption, WritersInit
<1>2. CASE program = "muxing"
  <2>1. Init /\ MuxerAssumption
    BY <1>2 DEF WritersInit, WritersAssumption
  <2>2. IInv /\ stage \in Stages /\ StreamsInterleaved
    BY <2>1, InitInv DEF Init, CoreInit, Stages, StreamsInterleaved, Streams
  <2> QED
    BY <1>1, <1>2, <2>2 DEF WInv
<1>3. CASE program # "muxing"
  <2>1. AVMux!Init
    BY <1>3 DEF WritersInit
  <2>2. AvInv /\ AVMux!StreamsInterleaved
    BY <2>1, AvStart, AvTogether
  <2> QED
    BY <1>1, <1>3, <2>2 DEF WInv
<1> QED
  BY <1>2, <1>3

LEMMA WritersStep == WritersAssumption /\ WInv /\ [WritersNext]_allVars => WInv'
<1> SUFFICES ASSUME WritersAssumption, WInv, [WritersNext]_allVars PROVE WInv'
  OBVIOUS
<1>1. /\ program' = program
      /\ program = "muxing" => [Next]_vars
      /\ program = "avmuxer" => [AVMux!Next]_muxerVars
      /\ [Images!Next]_imageVars /\ [Camera!Next]_cameraVars
  BY DEF WritersNext, MuxFile, MuxCamera, WriteImages, WriteCamera, allVars, muxerVars, vars
<1>2. ImInv' /\ CamInv'
  BY <1>1, ImagesStep, CameraStep DEF WInv, WritersAssumption
<1>3. program = "muxing" => (IInv /\ stage \in Stages /\ StreamsInterleaved)'
  BY <1>1, NextInv, StageStep, KeepStep DEF WInv, WritersAssumption
<1>4. program = "avmuxer" => (AvInv /\ AVMux!StreamsInterleaved)'
  BY <1>1, AvStep, AvTogether DEF WInv
<1> QED
  BY <1>1, <1>2, <1>3, <1>4 DEF WInv

LEMMA WritersTrue == WritersAssumption /\ WInv => NothingMissing /\ StreamsTogether
<1> SUFFICES ASSUME WritersAssumption, WInv PROVE NothingMissing /\ StreamsTogether
  OBVIOUS
<1>1. program = "muxing" => TypeOK /\ EncodedAsGiven /\ AllFramesWritten
  BY MuxTyped, ShownAsGiven, AllWritten DEF WInv, WritersAssumption
<1>2. program = "avmuxer" => AVMux!TypeOK /\ AVMux!EncodedAsGiven /\ AVMux!OnlyDelayedLost
  BY AvTrue DEF WInv
<1>3. Images!TypeOK /\ Images!OnlyTheTailIsMissing /\ Images!ImagesInTurn
  BY ImagesTrue DEF WInv, WritersAssumption
<1>4. Camera!TypeOK /\ Camera!SoundIsContinuous /\ Camera!InStep
  BY CameraTrue DEF WInv, WritersAssumption
<1> QED
  BY <1>1, <1>2, <1>3, <1>4 DEF NothingMissing, StreamsTogether, WInv

\* Whatever is lost on the way is lost where it is said to be: the files of main_mux are
\* complete, that of a camera's muxer misses what could not be encoded or written and the
\* pictures its encoder held back, and the packets of both show the frame of their time
\* stamps; the video made of images and the sound captured miss what was refused or held
\* back, the images come in turn, and the sound may be that of a later frame.
THEOREM WritersLoseNothing == WritersAssumption /\ WritersSpec => []NothingMissing
<1> SUFFICES ASSUME WritersAssumption PROVE WritersSpec => []NothingMissing
  OBVIOUS
<1>1. WritersInit => WInv
  BY WritersStart
<1>2. WInv /\ [WritersNext]_allVars => WInv'
  BY WritersStep
<1>3. WInv => NothingMissing
  BY WritersTrue
<1> QED
  BY <1>1, <1>2, <1>3, PTL DEF WritersSpec

\* The streams of each file keep step, and the sound of a camera with its pictures.
THEOREM WritersKeepStep == WritersAssumption /\ WritersSpec => []StreamsTogether
<1> SUFFICES ASSUME WritersAssumption PROVE WritersSpec => []StreamsTogether
  OBVIOUS
<1>1. WritersInit => WInv
  BY WritersStart
<1>2. WInv /\ [WritersNext]_allVars => WInv'
  BY WritersStep
<1>3. WInv => StreamsTogether
  BY WritersTrue
<1> QED
  BY <1>1, <1>2, <1>3, PTL DEF WritersSpec
===============================================================================
