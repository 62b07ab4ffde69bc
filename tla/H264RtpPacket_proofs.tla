------------------------- MODULE H264RtpPacket_proofs -------------------------
(***************************************************************************)
(* Theorems about the parsers of RtpPacket.cpp: pictures over a network    *)
(* that reorders and repeats packets, for every stream and every width of  *)
(* the sequence numbers; pictures over one that loses them; sound; and     *)
(* the bit writer, with the header of AAC frames it writes.                *)
(***************************************************************************)
EXTENDS MCRtpPackets, SequenceTheorems, WellFoundedInduction, TLAPS

\* The slices accepted since a parameter set have ascending numbers, none of
\* them above the last one.
Ascending ==
  /\ \A j \in DOMAIN accepted : this_seq(accepted[j]) <= seq_no
  /\ \A j, k \in DOMAIN accepted :
       j < k => this_seq(accepted[j]) < this_seq(accepted[k])

\* A parameter set that was seen was given to the decoder.
SeenIsGiven ==
  /\ sps => Given("sps", Len(decoded))
  /\ pps => Given("pps", Len(decoded))

IInv == TypeOK /\ BufferFits /\ Ascending /\ SeenIsGiven /\ PictureAfterParameterSets

-------------------------------------------------------------------------------
LEMMA SentPackets ==
  /\ Stream \in Seq(Packet)
  /\ \A i \in DOMAIN Stream : Stream[i].size \in 3 .. InitialLen - 12
  BY RtpPacketsAssumption DEF StreamAssumption

LEMMA PacketNumbers ==
  /\ SeqMod \in Nat \ {0} /\ FirstSeq \in 0 .. SeqMod - 1 /\ InitialLen \in Nat
  /\ Reorders \in BOOLEAN /\ MaxDeliveries \in Nat
  BY RtpPacketsAssumption DEF RtpAssumption

LEMMA SequenceNumber ==
  ASSUME NEW i \in DOMAIN Stream
  PROVE  this_seq(i) \in 0 .. SeqMod - 1
<1>1. i \in Nat
  BY SentPackets DEF Packet
<1>2. FirstSeq + i \in Int
  BY <1>1, PacketNumbers
<1> QED
  BY <1>2, PacketNumbers DEF this_seq

\* Appending keeps what was there and puts the element behind it.
LEMMA AppendKeeps ==
  ASSUME NEW S, NEW s \in Seq(S), NEW x \in S
  PROVE  /\ Append(s, x) \in Seq(S)
         /\ Len(Append(s, x)) = Len(s) + 1
         /\ DOMAIN Append(s, x) = 1 .. Len(s) + 1
         /\ DOMAIN s = 1 .. Len(s)
         /\ Len(s) \in Nat
         /\ \A j \in 1 .. Len(s) : Append(s, x)[j] = s[j]
         /\ Append(s, x)[Len(s) + 1] = x
  BY AppendProperties, LenProperties

LEMMA SizeBounds ==
  ASSUME NEW i \in DOMAIN Stream
  PROVE  /\ Stream[i] \in Packet
         /\ Stream[i].size \in Nat
         /\ Stream[i].size >= 3
         /\ Stream[i].size <= InitialLen - 12
         /\ InitialLen \in Nat
  BY SentPackets, PacketNumbers

\* However much is copied, the enlarged buffer holds it.
LEMMA EnlargedHolds ==
  ASSUME NEW inx \in Nat, NEW size \in Nat, size >= 3, buffer_len \in Nat
  PROVE  /\ inx + size - 2 \in Nat
         /\ Enlarged(inx, size) \in Nat
         /\ inx + size - 2 <= Enlarged(inx, size)
  BY DEF Enlarged

-------------------------------------------------------------------------------
LEMMA InitInv == Init => IInv
<1> SUFFICES ASSUME Init PROVE IInv
  OBVIOUS
<1>1. <<>> \in Seq(DOMAIN Stream) /\ DOMAIN <<>> = {} /\ Len(<<>>) = 0
  OBVIOUS
<1>2. <<>> \in Seq([start : Starts, body : Seq(DOMAIN Stream)])
  OBVIOUS
<1>3. seq_no \in 0 .. SeqMod - 1 /\ buffer_len \in Nat /\ deliveries \in 0 .. MaxDeliveries
  BY PacketNumbers DEF Init
<1>4. TypeOK
  BY <1>1, <1>2, <1>3 DEF Init, TypeOK, Starts
<1> QED
  BY <1>1, <1>4, PacketNumbers
     DEF Init, IInv, BufferFits, Ascending, SeenIsGiven, PictureAfterParameterSets

\* What accepting a slice does, whichever of the two actions does it.
LEMMA AcceptKeeps ==
  ASSUME TypeOK, Ascending, NEW i \in DOMAIN Stream, Accept(i)
  PROVE  seq_no' \in 0 .. SeqMod - 1 /\ accepted' \in Seq(DOMAIN Stream) /\ Ascending'
<1>1. this_seq(i) \in 0 .. SeqMod - 1 /\ seq_no' = this_seq(i) /\ seq_no < this_seq(i)
  BY SequenceNumber, PacketNumbers DEF Accept, TypeOK
<1>2. accepted' = Append(accepted, i)
  BY DEF Accept
<1>3. accepted \in Seq(DOMAIN Stream)
  BY DEF TypeOK
<1>4. /\ accepted' \in Seq(DOMAIN Stream)
      /\ DOMAIN accepted' = 1 .. Len(accepted) + 1
      /\ DOMAIN accepted = 1 .. Len(accepted)
      /\ Len(accepted) \in Nat
      /\ \A j \in 1 .. Len(accepted) : accepted'[j] = accepted[j]
      /\ accepted'[Len(accepted) + 1] = i
  BY <1>2, <1>3, AppendKeeps
<1>5. \A j \in DOMAIN accepted : this_seq(accepted[j]) \in Int
  <2> SUFFICES ASSUME NEW j \in DOMAIN accepted PROVE this_seq(accepted[j]) \in Int
    OBVIOUS
  <2>1. accepted[j] \in DOMAIN Stream
    BY <1>3
  <2> QED
    BY <2>1, SequenceNumber
<1>6. \A j \in DOMAIN accepted' : j = Len(accepted) + 1 \/ j \in DOMAIN accepted
  BY <1>4
<1>7. \A j \in DOMAIN accepted : this_seq(accepted[j]) < this_seq(i)
  BY <1>1, <1>5, PacketNumbers DEF Ascending, TypeOK
<1>8. \A j \in DOMAIN accepted' : this_seq(accepted'[j]) <= seq_no'
  BY <1>1, <1>4, <1>5, <1>6, <1>7, PacketNumbers
<1>9. \A j, k \in DOMAIN accepted' :
        j < k => this_seq(accepted'[j]) < this_seq(accepted'[k])
  <2> SUFFICES ASSUME NEW j \in DOMAIN accepted', NEW k \in DOMAIN accepted', j < k
               PROVE  this_seq(accepted'[j]) < this_seq(accepted'[k])
    OBVIOUS
  <2>1. j \in DOMAIN accepted /\ accepted'[j] = accepted[j]
    BY <1>4
  <2>2. CASE k \in DOMAIN accepted
    BY <1>4, <2>1, <2>2 DEF Ascending
  <2>3. CASE k = Len(accepted) + 1
    BY <1>4, <1>7, <2>1, <2>3
  <2> QED
    BY <1>6, <2>2, <2>3
<1>10. Ascending'
  BY <1>8, <1>9 DEF Ascending, this_seq
<1> QED
  BY <1>1, <1>4, <1>10

\* What giving the decoder one more buffer does.
LEMMA DecodeKeeps ==
  ASSUME TypeOK, SeenIsGiven, PictureAfterParameterSets,
         NEW d \in [start : Starts, body : Seq(DOMAIN Stream)],
         decoded' = Append(decoded, d),
         sps' => sps \/ d.start = "sps",
         pps' => pps \/ d.start = "pps",
         d.start \notin ParameterSets => sps /\ pps
  PROVE  /\ decoded' \in Seq([start : Starts, body : Seq(DOMAIN Stream)])
         /\ SeenIsGiven'
         /\ PictureAfterParameterSets'
<1>0. PICK n \in Nat : n = Len(decoded)
  BY LenProperties DEF TypeOK
<1>1. /\ decoded' \in Seq([start : Starts, body : Seq(DOMAIN Stream)])
      /\ Len(decoded') = n + 1
      /\ DOMAIN decoded' = 1 .. n + 1
      /\ DOMAIN decoded = 1 .. n
      /\ n \in Nat
      /\ \A j \in 1 .. n : decoded'[j] = decoded[j]
      /\ decoded'[n + 1] = d
  <2>1. decoded \in Seq([start : Starts, body : Seq(DOMAIN Stream)])
    BY DEF TypeOK
  <2> QED
    BY <1>0, <2>1, AppendKeeps
<1>2. ASSUME NEW kind, NEW m \in 1 .. n, Given(kind, m)
      PROVE  Given(kind, m)'
  <2>1. PICK j \in 1 .. m : decoded[j].start = kind
    BY <1>2 DEF Given
  <2>2. j \in 1 .. n
    BY <1>1
  <2> QED
    BY <1>1, <2>1, <2>2 DEF Given
<1>3. ASSUME NEW kind, Given(kind, n)
      PROVE  Given(kind, n + 1)'
  <2>1. PICK j \in 1 .. n : decoded[j].start = kind
    BY <1>3 DEF Given
  <2>2. j \in 1 .. n + 1 /\ decoded'[j].start = kind
    BY <1>1, <2>1
  <2> QED
    BY <2>2 DEF Given
<1>4. ASSUME d.start \in {"sps", "pps"}
      PROVE  Given(d.start, n + 1)'
  <2>1. n + 1 \in 1 .. n + 1
    BY <1>1
  <2> QED
    BY <1>1, <2>1 DEF Given
<1>5. SeenIsGiven'
  <2>1. sps' => Given("sps", n + 1)'
    BY <1>0, <1>3, <1>4 DEF SeenIsGiven
  <2>2. pps' => Given("pps", n + 1)'
    BY <1>0, <1>3, <1>4 DEF SeenIsGiven
  <2> QED
    BY <1>1, <2>1, <2>2 DEF SeenIsGiven, Given
<1>6. PictureAfterParameterSets'
  <2> SUFFICES ASSUME NEW m \in 1 .. n + 1, decoded'[m].start \notin ParameterSets
               PROVE  Given("sps", m)' /\ Given("pps", m)'
    BY <1>1 DEF PictureAfterParameterSets, Given
  <2>1. CASE m \in 1 .. n
    BY <1>1, <1>2, <2>1 DEF PictureAfterParameterSets
  <2>2. CASE m = n + 1
    BY <1>1, <1>0, <1>3, <2>2 DEF SeenIsGiven
  <2> QED
    BY <1>1, <2>1, <2>2
<1> QED
  BY <1>1, <1>5, <1>6

-------------------------------------------------------------------------------
LEMMA ParameterSetInv ==
  ASSUME IInv, NEW i \in DOMAIN Stream, Deliver(i), ParameterSet(i)
  PROVE  IInv'
<1> DEFINE D == [start : Starts, body : Seq(DOMAIN Stream)]
<1>1. Stream[i].kind \in Starts /\ <<i>> \in Seq(DOMAIN Stream)
  BY DEF ParameterSet, Starts
<1>2. PICK d \in D : d = [start |-> Stream[i].kind, body |-> <<i>>]
  BY <1>1
<1>3. decoded' \in Seq(D) /\ SeenIsGiven' /\ PictureAfterParameterSets'
  <2>1. decoded' = Append(decoded, d) /\ d.start = Stream[i].kind
    BY <1>2 DEF ParameterSet
  <2> QED
    BY <2>1, DecodeKeeps DEF IInv, ParameterSet
<1>4. seq_no' \in 0 .. SeqMod - 1
  BY SequenceNumber DEF ParameterSet
<1>5. accepted' = <<>> /\ DOMAIN accepted' = {} /\ accepted' \in Seq(DOMAIN Stream)
  BY DEF ParameterSet
<1>6. Ascending'
  BY <1>5 DEF Ascending
<1>7. deliveries' \in 0 .. MaxDeliveries /\ delivered' \subseteq DOMAIN Stream
  BY PacketNumbers DEF IInv, TypeOK, Deliver
<1>8. TypeOK'
  BY <1>3, <1>4, <1>5, <1>7 DEF IInv, TypeOK, ParameterSet
<1>9. BufferFits'
  BY DEF IInv, BufferFits, ParameterSet
<1> QED
  BY <1>3, <1>6, <1>8, <1>9 DEF IInv

LEMMA DropInv ==
  ASSUME IInv, NEW i \in DOMAIN Stream, Deliver(i), Drop(i)
  PROVE  IInv'
<1>1. deliveries' \in 0 .. MaxDeliveries /\ delivered' \subseteq DOMAIN Stream
  BY PacketNumbers DEF IInv, TypeOK, Deliver
<1>2. TypeOK'
  BY <1>1 DEF IInv, TypeOK, Drop, parserVars
<1> QED
  BY <1>2 DEF IInv, Drop, parserVars, BufferFits, Ascending, SeenIsGiven, Given,
              PictureAfterParameterSets, this_seq

LEMMA FragmentInv ==
  ASSUME IInv, NEW i \in DOMAIN Stream, Deliver(i), Fragment(i)
  PROVE  IInv'
<1> DEFINE inx == IF h264_buf_inx = 0 THEN HeaderSize ELSE h264_buf_inx
<1>1. /\ seq_no' \in 0 .. SeqMod - 1
      /\ accepted' \in Seq(DOMAIN Stream)
      /\ Ascending'
  BY AcceptKeeps DEF IInv, Fragment
<1>2. inx \in Nat /\ buffer_len \in Nat
  BY DEF HeaderSize, IInv, TypeOK
<1>3. /\ buffer_len' \in Nat
      /\ h264_buf_inx' \in Nat
      /\ h264_buf_inx' <= buffer_len'
  <2>1. buffer_len' = Enlarged(inx, Stream[i].size)
    BY DEF Fragment
  <2>2. h264_buf_inx' = inx + Stream[i].size - 2
    BY DEF Fragment
  <2> HIDE DEF inx
  <2> QED
    BY <1>2, <2>1, <2>2, SizeBounds, EnlargedHolds
<1>4. start' \in Starts
  BY DEF Fragment, Header, Starts, IInv, TypeOK
<1>5. body' \in Seq(DOMAIN Stream)
  BY AppendKeeps DEF Fragment, IInv, TypeOK
<1>6. deliveries' \in 0 .. MaxDeliveries /\ delivered' \subseteq DOMAIN Stream
  BY PacketNumbers DEF IInv, TypeOK, Deliver
<1>7. UNCHANGED <<sps, pps, decoded>>
  BY DEF Fragment
<1>8. TypeOK'
  BY <1>1, <1>3, <1>4, <1>5, <1>6, <1>7 DEF IInv, TypeOK
<1> QED
  BY <1>1, <1>3, <1>7, <1>8
     DEF IInv, BufferFits, SeenIsGiven, Given, PictureAfterParameterSets

LEMMA LastFragmentInv ==
  ASSUME IInv, NEW i \in DOMAIN Stream, Deliver(i), LastFragment(i)
  PROVE  IInv'
<1> DEFINE D == [start : Starts, body : Seq(DOMAIN Stream)]
           first == IF h264_buf_inx = 0 THEN "none" ELSE start
<1>1. /\ seq_no' \in 0 .. SeqMod - 1
      /\ accepted' \in Seq(DOMAIN Stream)
      /\ Ascending'
  BY AcceptKeeps DEF IInv, LastFragment
<1>2. first \in Starts /\ Append(body, i) \in Seq(DOMAIN Stream)
  BY AppendKeeps DEF IInv, TypeOK, Starts
<1>3. PICK d \in D : d = [start |-> first, body |-> Append(body, i)]
  BY <1>2
<1>4. decoded' \in Seq(D) /\ SeenIsGiven' /\ PictureAfterParameterSets'
  <2>1. decoded' = Append(decoded, d)
    BY <1>3 DEF LastFragment
  <2>2. sps /\ pps /\ UNCHANGED <<sps, pps>>
    BY DEF LastFragment, Accept
  <2> QED
    BY <2>1, <2>2, DecodeKeeps DEF IInv
<1>5. buffer_len' \in Nat /\ h264_buf_inx' = 0
  BY SizeBounds, EnlargedHolds DEF IInv, TypeOK, LastFragment
<1>6. deliveries' \in 0 .. MaxDeliveries /\ delivered' \subseteq DOMAIN Stream
  BY PacketNumbers DEF IInv, TypeOK, Deliver
<1>7. <<>> \in Seq(DOMAIN Stream)
  OBVIOUS
<1>8. start' \in Starts /\ body' = <<>> /\ UNCHANGED <<sps, pps>>
  BY DEF LastFragment, Starts
<1>9. TypeOK'
  BY <1>1, <1>4, <1>5, <1>6, <1>7, <1>8 DEF IInv, TypeOK
<1> QED
  BY <1>1, <1>4, <1>5, <1>9 DEF IInv, BufferFits

LEMMA NextInv == IInv /\ [Next]_vars => IInv'
<1> SUFFICES ASSUME IInv, [Next]_vars PROVE IInv'
  OBVIOUS
<1>1. ASSUME NEW i \in DOMAIN Stream, Deliver(i) PROVE IInv'
  BY <1>1, ParameterSetInv, DropInv, FragmentInv, LastFragmentInv DEF Deliver, parse_data
<1>2. CASE UNCHANGED vars
  BY <1>2 DEF vars, parserVars, IInv, TypeOK, BufferFits, Ascending, SeenIsGiven,
              Given, PictureAfterParameterSets, this_seq
<1> QED
  BY <1>1, <1>2 DEF Next

\* Every reachable state satisfies the inductive invariant.
THEOREM Invariant == Spec => []IInv
  BY InitInv, NextInv, PTL DEF Spec

\* Type correctness: in particular the sequence number keeps its width.
THEOREM RtpTypeCorrect == Spec => []TypeOK
<1>1. IInv => TypeOK
  BY DEF IInv
<1> QED
  BY Invariant, <1>1, PTL

\* parse_data never writes past h264_buf, whatever the sizes of the packets.
THEOREM BufferLargeEnough == Spec => []BufferFits
<1>1. IInv => BufferFits
  BY DEF IInv
<1> QED
  BY Invariant, <1>1, PTL

\* No packet is copied twice between two parameter sets, however often it
\* arrives and whatever the width of the sequence numbers.
THEOREM CopiedOnce == Spec => []UsedOnce
<1>1. IInv => UsedOnce
  <2> SUFFICES ASSUME IInv, NEW j \in DOMAIN accepted, NEW k \in DOMAIN accepted, j # k
               PROVE  accepted[j] # accepted[k]
    BY DEF UsedOnce
  <2>1. accepted[j] \in DOMAIN Stream /\ accepted[k] \in DOMAIN Stream
    BY DEF IInv, TypeOK
  <2>2. j < k \/ k < j
    BY DEF IInv, TypeOK
  <2>3. this_seq(accepted[j]) # this_seq(accepted[k])
    BY <2>1, <2>2, SequenceNumber, PacketNumbers DEF IInv, Ascending
  <2> QED
    BY <2>3
<1> QED
  BY Invariant, <1>1, PTL

\* No picture reaches the decoder before both parameter sets did.
THEOREM ParameterSetsFirst == Spec => []PictureAfterParameterSets
<1>1. IInv => PictureAfterParameterSets
  BY DEF IInv
<1> QED
  BY Invariant, <1>1, PTL

-------------------------------------------------------------------------------
(* Pictures over a network that only loses packets.                        *)

IsSlice(k) == LossyStream[k].kind \in Lossy!Slices
Begins(k) == LossyStream[k].kind \in {"idr", "slice"}

\* The last slice that arrived, if any did, was the end of a picture.
AtEnd ==
  \A k \in delivered :
    IsSlice(k) /\ (\A j \in delivered : IsSlice(j) => j <= k) => LossyStream[k].m

\* The picture that begins with f is one the parser waits for: both parameter sets came
\* before it, and the end of the picture before it did.
Prepared(f) ==
  /\ \A p \in {"sps", "pps"} : \E k \in delivered : k < f /\ LossyStream[k].kind = p
  /\ \A k \in delivered :
       k < f /\ IsSlice(k) /\ (\A j \in delivered : j < f /\ IsSlice(j) => j <= k)
         => LossyStream[k].m

\* The fragments from f to n arrived, none after them, and more of the picture are to come.
Half(f, n) ==
  /\ Begins(f) /\ f <= n /\ f .. n \subseteq delivered
  /\ \A j \in delivered : j <= n
  /\ \A k \in f + 1 .. n : LossyStream[k].kind = "cont"
  /\ \A k \in f .. n : ~LossyStream[k].m

\* n packets from f on.
Consecutive(f, n) == [k \in 1 .. n |-> f + k - 1]

\* What is in h264_buf and which sequence number was accepted last say how the picture has
\* come so far.
LossyInv ==
  /\ delivered \subseteq DOMAIN LossyStream
  /\ sps \in BOOLEAN /\ pps \in BOOLEAN
  /\ seq_no \in Nat /\ h264_buf_inx \in Nat
  /\ (\E k \in delivered : LossyStream[k].kind = "sps") => sps
  /\ (\E k \in delivered : LossyStream[k].kind = "pps") => pps
  /\ sps \/ pps => \E k \in delivered : seq_no = LossyFirstSeq + k
  /\ AtEnd \/ ~sps \/ ~pps => h264_buf_inx = 0 /\ body = <<>>
  /\ \A f, n \in DOMAIN LossyStream :
       Half(f, n) /\ Prepared(f) =>
         /\ h264_buf_inx > 0
         /\ start = LossyStream[f].kind
         /\ body = Consecutive(f, n - f + 1)

LEMMA LossyConstants ==
  /\ LossyStream \in Seq(Lossy!Packet)
  /\ DOMAIN LossyStream = 1 .. Len(LossyStream) /\ Len(LossyStream) \in Nat
  /\ LossyFirstSeq \in Nat /\ LossySeqMod \in Nat
  /\ LossyFirstSeq + Len(LossyStream) < LossySeqMod
<1>1. LossyStream \in Seq(Lossy!Packet)
  BY RtpPacketsAssumption DEF Lossy!StreamAssumption
<1>2. LossySeqMod \in Nat \ {0} /\ LossyFirstSeq \in 0 .. LossySeqMod - 1
  BY RtpPacketsAssumption DEF Lossy!RtpAssumption
<1>3. LossyFirstSeq + Len(LossyStream) < LossySeqMod
  BY RtpPacketsAssumption
<1>4. DOMAIN LossyStream = 1 .. Len(LossyStream) /\ Len(LossyStream) \in Nat
  BY <1>1, LenProperties
<1> QED
  BY <1>1, <1>2, <1>3, <1>4

LEMMA LossyPacket ==
  ASSUME NEW i \in DOMAIN LossyStream
  PROVE  /\ i \in Nat /\ i >= 1
         /\ LossyStream[i] \in Lossy!Packet
         /\ LossyStream[i].kind \in Lossy!ParameterSets \union Lossy!Slices
         /\ LossyStream[i].m \in BOOLEAN
         /\ LossyStream[i].size \in Nat /\ LossyStream[i].size >= 3
<1>1. LossyStream[i] \in Lossy!Packet
  BY LossyConstants, ElementOfSeq
<1>2. LossyStream[i].size \in 3 .. InitialLen - 12 /\ InitialLen \in Nat
  BY RtpPacketsAssumption DEF Lossy!StreamAssumption, Lossy!RtpAssumption
<1> QED
  BY <1>1, <1>2, LossyConstants DEF Lossy!Packet

\* The numbers do not wrap while the stream lasts.
LEMMA LossySeq ==
  ASSUME NEW i \in DOMAIN LossyStream
  PROVE  Lossy!this_seq(i) = LossyFirstSeq + i
<1>1. LossyFirstSeq + i \in 0 .. LossySeqMod - 1
  BY LossyConstants
<1>2. ASSUME NEW a \in Nat, NEW m \in Nat, a \in 0 .. m - 1
      PROVE  a % m = a
  BY <1>2
<1>3. LossyFirstSeq + i \in Nat
  BY LossyConstants
<1> QED
  BY <1>1, <1>2, <1>3, LossyConstants, Zenon DEF Lossy!this_seq

\* A slice that is not a picture's first has an unmarked one before it, and a picture's
\* first carries no marker.
LEMMA CutIntoFragments ==
  ASSUME NEW i \in DOMAIN LossyStream
  PROVE  /\ Begins(i) => ~LossyStream[i].m
         /\ LossyStream[i].kind = "cont" =>
              i > 1 /\ IsSlice(i - 1) /\ ~LossyStream[i - 1].m
  BY RtpPacketsAssumption DEF Lossy!FragmentsAssumption, Begins, IsSlice

LEMMA ConsecutiveAppend ==
  ASSUME NEW f \in Nat, NEW n \in Nat
  PROVE  Append(Consecutive(f, n), f + n) = Consecutive(f, n + 1)
<1>1. ASSUME NEW k \in Nat
      PROVE  Consecutive(f, k) \in Seq(Int) /\ Len(Consecutive(f, k)) = k
  <2>1. Consecutive(f, k) \in [1 .. k -> Int]
    BY DEF Consecutive
  <2>2. Consecutive(f, k) \in Seq(Int)
    BY <2>1, SeqDef
  <2>3. /\ DOMAIN Consecutive(f, k) = 1 .. k
        /\ DOMAIN Consecutive(f, k) = 1 .. Len(Consecutive(f, k))
        /\ Len(Consecutive(f, k)) \in Nat
    BY <2>1, <2>2, LenProperties
  <2> QED
    BY <2>2, <2>3
<1>2. /\ Consecutive(f, n) \in Seq(Int) /\ Len(Consecutive(f, n)) = n
      /\ Consecutive(f, n + 1) \in Seq(Int) /\ Len(Consecutive(f, n + 1)) = n + 1
  BY <1>1
<1>3. /\ Append(Consecutive(f, n), f + n) \in Seq(Int)
      /\ Len(Append(Consecutive(f, n), f + n)) = n + 1
  BY <1>2, AppendProperties
<1>4. ASSUME NEW k \in 1 .. n + 1
      PROVE  Append(Consecutive(f, n), f + n)[k] = Consecutive(f, n + 1)[k]
  BY <1>2, AppendProperties DEF Consecutive
<1> QED
  BY <1>2, <1>3, <1>4, SeqEqual

-------------------------------------------------------------------------------
\* What arrives is behind all that arrived.
LEMMA ArrivesLast ==
  ASSUME LossyInv, NEW i \in DOMAIN LossyStream, Lossy!Deliver(i)
  PROVE  /\ delivered' = delivered \union {i} /\ i \notin delivered
         /\ \A j \in delivered : j < i /\ j \in DOMAIN LossyStream
         /\ Lossy!parse_data(i)
<1>1. \A j \in delivered : j < i
  BY DEF Lossy!Deliver, Lossy!CanArrive
<1>2. i \notin delivered
  BY <1>1, LossyPacket
<1> QED
  BY <1>1, <1>2 DEF LossyInv, Lossy!Deliver

\* A slice is dropped only for want of a parameter set.
LEMMA SliceAccepted ==
  ASSUME LossyInv, NEW i \in DOMAIN LossyStream, Lossy!Deliver(i), IsSlice(i), sps, pps
  PROVE  \/ Lossy!Fragment(i) /\ ~LossyStream[i].m
         \/ Lossy!LastFragment(i) /\ LossyStream[i].m
<1>1. PICK k \in delivered : seq_no = LossyFirstSeq + k
  BY DEF LossyInv
<1>2. k \in Nat /\ i \in Nat /\ k < i
  BY ArrivesLast, LossyPacket
<1>3. Lossy!this_seq(i) = LossyFirstSeq + i /\ LossyFirstSeq \in Nat
  BY LossySeq, LossyConstants
<1>4. ~(Lossy!this_seq(i) <= seq_no)
  BY <1>1, <1>2, <1>3
<1>5. ~Lossy!Drop(i)
  BY <1>4 DEF Lossy!Drop
<1>6. ~Lossy!ParameterSet(i)
  BY DEF Lossy!ParameterSet, IsSlice, Lossy!Slices, Lossy!ParameterSets
<1> QED
  BY <1>5, <1>6, ArrivesLast DEF Lossy!parse_data, Lossy!Fragment, Lossy!LastFragment

\* What a packet does to the numbers and flags.
LEMMA LossyFlags ==
  ASSUME LossyInv, NEW i \in DOMAIN LossyStream, Lossy!Deliver(i)
  PROVE  /\ delivered' \subseteq DOMAIN LossyStream
         /\ sps' \in BOOLEAN /\ pps' \in BOOLEAN
         /\ seq_no' \in Nat /\ h264_buf_inx' \in Nat
         /\ (\E k \in delivered' : LossyStream[k].kind = "sps") => sps'
         /\ (\E k \in delivered' : LossyStream[k].kind = "pps") => pps'
         /\ sps' \/ pps' => \E k \in delivered' : seq_no' = LossyFirstSeq + k
         /\ (sps => sps') /\ (pps => pps')
<1>1. /\ delivered' = delivered \union {i} /\ delivered \subseteq DOMAIN LossyStream
      /\ Lossy!parse_data(i)
  BY ArrivesLast DEF LossyInv
<1>2. /\ LossyFirstSeq \in Nat /\ Lossy!this_seq(i) = LossyFirstSeq + i /\ i \in Nat
      /\ LossyStream[i].size \in Nat /\ LossyStream[i].size >= 3
      /\ LossyStream[i].kind \in Lossy!ParameterSets \union Lossy!Slices
  BY LossyConstants, LossySeq, LossyPacket
<1>3. /\ sps \in BOOLEAN /\ pps \in BOOLEAN /\ seq_no \in Nat /\ h264_buf_inx \in Nat
      /\ (\E k \in delivered : LossyStream[k].kind = "sps") => sps
      /\ (\E k \in delivered : LossyStream[k].kind = "pps") => pps
      /\ sps \/ pps => \E k \in delivered : seq_no = LossyFirstSeq + k
  BY DEF LossyInv
<1>4. CASE Lossy!ParameterSet(i)
  <2>1. /\ LossyStream[i].kind \in {"sps", "pps"}
        /\ sps' = (sps \/ LossyStream[i].kind = "sps")
        /\ pps' = (pps \/ LossyStream[i].kind = "pps")
        /\ seq_no' = LossyFirstSeq + i /\ h264_buf_inx' = h264_buf_inx
    BY <1>2, <1>4 DEF Lossy!ParameterSet, Lossy!ParameterSets
  <2>2. sps' \in BOOLEAN /\ pps' \in BOOLEAN /\ (sps => sps') /\ (pps => pps')
    BY <1>3, <2>1
  <2>3. /\ (\E k \in delivered' : LossyStream[k].kind = "sps") => sps'
        /\ (\E k \in delivered' : LossyStream[k].kind = "pps") => pps'
    BY <1>1, <1>3, <2>1
  <2>4. i \in delivered' /\ seq_no' = LossyFirstSeq + i
    BY <1>1, <2>1
  <2>5. seq_no' \in Nat /\ h264_buf_inx' \in Nat /\ delivered' \subseteq DOMAIN LossyStream
    BY <1>1, <1>2, <1>3, <2>1
  <2> QED
    BY <2>2, <2>3, <2>4, <2>5
<1>5. CASE Lossy!Drop(i)
  BY <1>1, <1>2, <1>3, <1>5 DEF Lossy!Drop, Lossy!parserVars, Lossy!Slices
<1>6. CASE Lossy!Fragment(i)
  <2>1. /\ LossyStream[i].kind \in Lossy!Slices /\ sps /\ pps
        /\ seq_no' = LossyFirstSeq + i /\ UNCHANGED <<sps, pps>>
        /\ h264_buf_inx' = (IF h264_buf_inx = 0 THEN 5 ELSE h264_buf_inx) + LossyStream[i].size - 2
    BY <1>2, <1>6 DEF Lossy!Fragment, Lossy!Accept, Lossy!HeaderSize
  <2> QED
    BY <1>1, <1>2, <1>3, <2>1 DEF Lossy!Slices
<1>7. CASE Lossy!LastFragment(i)
  <2>1. /\ LossyStream[i].kind \in Lossy!Slices /\ sps /\ pps
        /\ seq_no' = LossyFirstSeq + i /\ UNCHANGED <<sps, pps>>
        /\ h264_buf_inx' = 0
    BY <1>2, <1>7 DEF Lossy!LastFragment, Lossy!Accept
  <2> QED
    BY <1>1, <1>2, <1>3, <2>1 DEF Lossy!Slices
<1> QED
  BY <1>1, <1>4, <1>5, <1>6, <1>7 DEF Lossy!parse_data

\* Behind the end of a picture the buffer is empty, and so it is until pictures are
\* accepted at all.
LEMMA EmptyAtEnd ==
  ASSUME LossyInv, NEW i \in DOMAIN LossyStream, Lossy!Deliver(i), AtEnd' \/ ~sps' \/ ~pps'
  PROVE  h264_buf_inx' = 0 /\ body' = <<>>
<1>1. /\ delivered' = delivered \union {i} /\ i \notin delivered /\ i \in Nat
      /\ \A j \in delivered : j < i /\ j \in Nat
      /\ Lossy!parse_data(i)
  BY ArrivesLast, LossyPacket
<1>2. AtEnd \/ ~sps \/ ~pps => h264_buf_inx = 0 /\ body = <<>>
  BY DEF LossyInv
<1>3. (sps => sps') /\ (pps => pps')
  BY LossyFlags
<1>4. CASE ~IsSlice(i)
  <2>1. AtEnd' => AtEnd
    BY <1>1, <1>4 DEF AtEnd, IsSlice
  <2>2. UNCHANGED <<h264_buf_inx, body>>
    BY <1>1, <1>4 DEF IsSlice, Lossy!parse_data, Lossy!ParameterSet, Lossy!Drop, Lossy!Fragment,
                      Lossy!LastFragment, Lossy!Accept
  <2> QED
    BY <1>2, <1>3, <2>1, <2>2
<1>5. CASE IsSlice(i) /\ sps /\ pps
  <2>1. AtEnd'
    BY <1>3, <1>5
  <2>2. \A j \in delivered' : j <= i
    BY <1>1
  <2>3. LossyStream[i].m
    BY <1>1, <1>5, <2>1, <2>2 DEF AtEnd, IsSlice
  <2>4. Lossy!LastFragment(i)
    BY <1>5, <2>3, SliceAccepted
  <2> QED
    BY <2>4 DEF Lossy!LastFragment
<1>6. CASE IsSlice(i) /\ (~sps \/ ~pps)
  <2>1. Lossy!Drop(i)
    BY <1>1, <1>6 DEF IsSlice, Lossy!parse_data, Lossy!ParameterSet, Lossy!Slices,
       Lossy!ParameterSets, Lossy!Fragment, Lossy!LastFragment, Lossy!Accept
  <2>2. UNCHANGED <<h264_buf_inx, body>>
    BY <2>1 DEF Lossy!Drop, Lossy!parserVars
  <2> QED
    BY <1>2, <1>6, <2>2
<1> QED
  BY <1>4, <1>5, <1>6

\* The parameter sets the parser has seen.
LEMMA PreparedSets ==
  ASSUME LossyInv, NEW f, Prepared(f)
  PROVE  sps /\ pps
<1>1. /\ \E k \in delivered : LossyStream[k].kind = "sps"
      /\ \E k \in delivered : LossyStream[k].kind = "pps"
  BY DEF Prepared
<1> QED
  BY <1>1 DEF LossyInv

\* A picture the parser waits for begins in an empty buffer.
LEMMA BeginsEmpty ==
  ASSUME LossyInv, NEW f \in DOMAIN LossyStream, Prepared(f), \A j \in delivered : j < f
  PROVE  h264_buf_inx = 0 /\ body = <<>>
<1>1. AtEnd
  BY DEF AtEnd, Prepared
<1> QED
  BY <1>1 DEF LossyInv

\* Whether the parser waits for a picture is known when its first fragment arrives.
LEMMA PreparedBefore ==
  ASSUME LossyInv, NEW i \in DOMAIN LossyStream, Lossy!Deliver(i),
         NEW f \in DOMAIN LossyStream, f <= i, Prepared(f)'
  PROVE  Prepared(f)
<1>1. /\ delivered' = delivered \union {i} /\ i \in Nat /\ f \in Nat /\ ~(i < f)
  BY ArrivesLast, LossyPacket
<1> QED
  BY <1>1 DEF Prepared, IsSlice

\* What the next fragment of a picture finds in the buffer, and leaves there.
LEMMA HalfGrows ==
  ASSUME LossyInv, NEW i \in DOMAIN LossyStream, Lossy!Deliver(i),
         NEW f \in DOMAIN LossyStream, NEW n \in DOMAIN LossyStream, Half(f, n)', Prepared(f)'
  PROVE  /\ h264_buf_inx' > 0
         /\ start' = LossyStream[f].kind
         /\ body' = Consecutive(f, n - f + 1)
<1>1. /\ delivered' = delivered \union {i} /\ i \notin delivered
      /\ i \in Nat /\ f \in Nat /\ n \in Nat /\ f >= 1
      /\ \A j \in delivered : j < i /\ j \in DOMAIN LossyStream /\ j \in Nat
  BY ArrivesLast, LossyPacket
<1>2. /\ Begins(f) /\ f <= n /\ f .. n \subseteq delivered'
      /\ \A j \in delivered' : j <= n
      /\ \A k \in f + 1 .. n : LossyStream[k].kind = "cont"
      /\ \A k \in f .. n : ~LossyStream[k].m
  BY DEF Half, Begins
<1>3. n = i
  <2>1. i <= n
    BY <1>1, <1>2
  <2>2. n \in delivered'
    BY <1>1, <1>2
  <2> QED
    BY <1>1, <2>1, <2>2
<1>4. Prepared(f)
  BY <1>2, <1>3, PreparedBefore
<1>5. sps /\ pps
  BY <1>4, PreparedSets
<1>6. IsSlice(i) /\ ~LossyStream[i].m
  <2>1. i = f \/ i \in f + 1 .. n
    BY <1>1, <1>2, <1>3
  <2>2. ~LossyStream[i].m
    BY <1>1, <1>2, <1>3
  <2> QED
    BY <1>2, <2>1, <2>2 DEF Begins, IsSlice, Lossy!Slices
<1>7. Lossy!Fragment(i)
  BY <1>5, <1>6, SliceAccepted
<1>8. /\ start' = IF h264_buf_inx = 0 THEN Lossy!Header(LossyStream[i].kind) ELSE start
      /\ body' = Append(body, i)
      /\ h264_buf_inx' = (IF h264_buf_inx = 0 THEN 5 ELSE h264_buf_inx) + LossyStream[i].size - 2
  BY <1>7 DEF Lossy!Fragment, Lossy!HeaderSize
<1>9. h264_buf_inx' > 0
  <2>1. h264_buf_inx \in Nat /\ LossyStream[i].size \in Nat /\ LossyStream[i].size >= 3
    BY LossyPacket DEF LossyInv
  <2> QED
    BY <1>8, <2>1
<1>10. CASE f = i
  <2>1. h264_buf_inx = 0 /\ body = <<>>
    BY <1>1, <1>4, <1>10, BeginsEmpty
  <2>2. start' = LossyStream[f].kind
    BY <1>2, <1>8, <1>10, <2>1 DEF Begins, Lossy!Header
  <2>3. Consecutive(f, 0) = <<>>
    BY DEF Consecutive
  <2>4. Append(Consecutive(f, 0), f + 0) = Consecutive(f, 0 + 1)
    BY <1>1, ConsecutiveAppend
  <2>5. f + 0 = i /\ 0 + 1 = n - f + 1
    BY <1>1, <1>3, <1>10
  <2>6. body' = Consecutive(f, n - f + 1)
    BY <1>8, <2>1, <2>3, <2>4, <2>5, Zenon
  <2> QED
    BY <1>9, <2>2, <2>6
<1>11. CASE f # i
  <2>1. /\ i - 1 \in Nat /\ f <= i - 1 /\ i - 1 \in f .. n /\ i - 1 # i
    BY <1>1, <1>2, <1>3, <1>11
  <2>2. f .. i - 1 \subseteq delivered
    BY <1>1, <1>2, <1>3
  <2>3. i - 1 \in DOMAIN LossyStream
    BY <1>1, <2>1, <2>2
  <2>4. Half(f, i - 1)
    <3>1. \A j \in delivered : j <= i - 1
      BY <1>1
    <3>2. \A k \in f .. i - 1 : k \in f .. n
      BY <1>1, <1>3
    <3>3. \A k \in f + 1 .. i - 1 : k \in f + 1 .. n
      BY <1>1, <1>3
    <3> QED
      BY <1>2, <2>1, <2>2, <3>1, <3>2, <3>3 DEF Half
  <2>5. /\ h264_buf_inx > 0 /\ start = LossyStream[f].kind
        /\ body = Consecutive(f, (i - 1) - f + 1)
    BY <1>4, <2>3, <2>4 DEF LossyInv
  <2>6. (i - 1) - f + 1 \in Nat /\ f + ((i - 1) - f + 1) = i /\ ((i - 1) - f + 1) + 1 = n - f + 1
    BY <1>1, <1>3, <2>1
  <2>7. Append(Consecutive(f, (i - 1) - f + 1), f + ((i - 1) - f + 1))
          = Consecutive(f, ((i - 1) - f + 1) + 1)
    BY <1>1, <2>6, ConsecutiveAppend, Zenon
  <2>8. body' = Consecutive(f, n - f + 1)
    BY <1>8, <2>5, <2>6, <2>7, Zenon
  <2>9. h264_buf_inx # 0
    BY <2>5
  <2> QED
    BY <1>8, <1>9, <2>5, <2>8, <2>9
<1> QED
  BY <1>10, <1>11

LEMMA LossyNext ==
  ASSUME LossyInv, Lossy!Next
  PROVE  LossyInv'
<1>1. PICK i \in DOMAIN LossyStream : Lossy!Deliver(i)
  BY DEF Lossy!Next
<1>2. /\ delivered' \subseteq DOMAIN LossyStream
      /\ sps' \in BOOLEAN /\ pps' \in BOOLEAN
      /\ seq_no' \in Nat /\ h264_buf_inx' \in Nat
      /\ (\E k \in delivered' : LossyStream[k].kind = "sps") => sps'
      /\ (\E k \in delivered' : LossyStream[k].kind = "pps") => pps'
      /\ sps' \/ pps' => \E k \in delivered' : seq_no' = LossyFirstSeq + k
  BY <1>1, LossyFlags
<1>3. AtEnd' \/ ~sps' \/ ~pps' => h264_buf_inx' = 0 /\ body' = <<>>
  BY <1>1, EmptyAtEnd
<1>4. \A f, n \in DOMAIN LossyStream :
        Half(f, n)' /\ Prepared(f)' =>
          /\ h264_buf_inx' > 0
          /\ start' = LossyStream[f].kind
          /\ body' = Consecutive(f, n - f + 1)
  BY <1>1, HalfGrows
<1> QED
  BY <1>2, <1>3, <1>4 DEF LossyInv, Consecutive

-------------------------------------------------------------------------------
\* A picture that ends somewhere begins somewhere, and all between belongs to it.
LEMMA FirstOfPicture ==
  ASSUME NEW e \in DOMAIN LossyStream, IsSlice(e)
  PROVE  /\ Lossy!First(e) \in 1 .. e /\ Begins(Lossy!First(e))
         /\ \A k \in Lossy!First(e) + 1 .. e : LossyStream[k].kind = "cont"
<1> DEFINE S == {k \in Nat : k >= 1 /\ k <= e /\ \A j \in k + 1 .. e : LossyStream[j].kind = "cont"}
<1>1. e \in Nat /\ e >= 1 /\ 1 .. e \subseteq DOMAIN LossyStream
  BY LossyConstants, LossyPacket
<1>2. e \in S
  BY <1>1
<1>3. PICK f \in S : \A k \in S : ~(<<k, f>> \in OpToRel(<, Nat))
  BY <1>2, WFMin, NatLessThanWellFounded
<1>4. /\ f \in Nat /\ f >= 1 /\ f <= e
      /\ \A j \in f + 1 .. e : LossyStream[j].kind = "cont"
  <2>1. f \in S
    BY <1>3
  <2> QED
    BY <2>1
<1>5. \A k \in S : ~(k < f)
  BY <1>3 DEF OpToRel
<1>6. f \in DOMAIN LossyStream
  BY <1>1, <1>4
<1>7. LossyStream[f].kind # "cont"
  <2>1. SUFFICES ASSUME LossyStream[f].kind = "cont"
                 PROVE  FALSE
    OBVIOUS
  <2>2. f > 1
    BY <1>6, <2>1, CutIntoFragments
  <2>3. \A j \in (f - 1) + 1 .. e : j = f \/ j \in f + 1 .. e
    BY <1>1, <1>4
  <2>4. \A j \in (f - 1) + 1 .. e : LossyStream[j].kind = "cont"
    BY <1>4, <2>1, <2>3
  <2>5. f - 1 \in Nat /\ f - 1 >= 1 /\ f - 1 <= e
    BY <1>1, <1>4, <2>2
  <2>6. f - 1 \in S
    BY <2>4, <2>5
  <2> QED
    BY <1>4, <1>5, <2>6
<1>8. Begins(f)
  <2>1. CASE f = e
    BY <1>7, <2>1 DEF IsSlice, Begins, Lossy!Slices
  <2>2. CASE f # e
    <3>1. f + 1 \in f + 1 .. e /\ f + 1 \in DOMAIN LossyStream /\ (f + 1) - 1 = f
      BY <1>1, <1>4, <2>2
    <3>2. LossyStream[f + 1].kind = "cont"
      BY <1>4, <3>1
    <3>3. IsSlice(f)
      BY <3>1, <3>2, CutIntoFragments
    <3> QED
      BY <1>7, <3>3 DEF IsSlice, Begins, Lossy!Slices
  <2> QED
    BY <2>1, <2>2
<1>9. f \in 1 .. e
  BY <1>1, <1>4
<1>10. \E g \in 1 .. e : /\ LossyStream[g].kind \in {"idr", "slice"}
                         /\ \A k \in g + 1 .. e : LossyStream[k].kind = "cont"
  BY <1>4, <1>8, <1>9 DEF Begins
<1> QED
  BY <1>10 DEF Begins, Lossy!First

\* When the end of a picture arrives of which nothing was lost, the decoder is given it.
LEMMA PictureWhole ==
  ASSUME LossyInv, NEW e \in DOMAIN LossyStream, Lossy!Deliver(e),
         IsSlice(e), LossyStream[e].m, Lossy!Complete(e)
  PROVE  decoded' = Append(decoded, Lossy!Picture(e))
<1> DEFINE f == Lossy!First(e)
<1>1. /\ f \in 1 .. e /\ Begins(f)
      /\ \A k \in f + 1 .. e : LossyStream[k].kind = "cont"
  BY FirstOfPicture
<1>2. /\ f .. e - 1 \subseteq delivered
      /\ \A p \in Lossy!ParameterSets : \E k \in delivered : k < f /\ LossyStream[k].kind = p
      /\ \A k \in {b \in delivered : b < f /\ LossyStream[b].kind \in Lossy!Slices} :
           (\A j \in {b \in delivered : b < f /\ LossyStream[b].kind \in Lossy!Slices} : j <= k)
             => LossyStream[k].m
  BY DEF Lossy!Complete
<1>3. Lossy!Picture(e) = [start |-> LossyStream[f].kind,
                          body |-> [k \in 1 .. e - f + 1 |-> f + k - 1]]
  BY DEF Lossy!Picture
<1> HIDE DEF f
<1>4. e \in Nat /\ e >= 1 /\ f \in Nat /\ f >= 1 /\ f <= e /\ f \in DOMAIN LossyStream
  <2>1. e \in Nat /\ e >= 1 /\ DOMAIN LossyStream = 1 .. Len(LossyStream)
        /\ Len(LossyStream) \in Nat
    BY LossyPacket, LossyConstants
  <2> QED
    BY <1>1, <2>1
<1>5. Prepared(f)
  BY <1>2 DEF Prepared, IsSlice, Lossy!ParameterSets
<1>6. sps /\ pps
  BY <1>5, PreparedSets
<1>7. /\ decoded' = Append(decoded,
                       [start |-> IF h264_buf_inx = 0 THEN "none" ELSE start,
                        body |-> Append(body, e)])
  BY <1>6, SliceAccepted DEF Lossy!LastFragment
<1>8. f # e
  BY <1>1, <1>4, CutIntoFragments
<1>9. /\ e - 1 \in Nat /\ f <= e - 1 /\ e - 1 \in f .. e - 1
  BY <1>4, <1>8
<1>10. e - 1 \in DOMAIN LossyStream
  BY <1>2, <1>9 DEF LossyInv
<1>11. Half(f, e - 1)
  <2>1. \A j \in delivered : j < e /\ j \in Nat
    BY ArrivesLast, LossyPacket
  <2>2. \A j \in delivered : j <= e - 1
    BY <1>4, <2>1
  <2>3. ASSUME NEW k \in f .. e - 1
        PROVE  ~LossyStream[k].m
    <3>1. k + 1 \in f + 1 .. e /\ k + 1 \in DOMAIN LossyStream /\ (k + 1) - 1 = k
      BY <1>4, LossyConstants
    <3>2. LossyStream[k + 1].kind = "cont"
      BY <1>1, <3>1
    <3> QED
      BY <3>1, <3>2, CutIntoFragments
  <2>4. \A k \in f + 1 .. e - 1 : k \in f + 1 .. e
    BY <1>4
  <2> QED
    BY <1>1, <1>2, <1>9, <2>2, <2>3, <2>4 DEF Half
<1>12. /\ h264_buf_inx > 0 /\ start = LossyStream[f].kind
       /\ body = Consecutive(f, (e - 1) - f + 1)
  BY <1>4, <1>5, <1>10, <1>11 DEF LossyInv
<1>13. (e - 1) - f + 1 \in Nat /\ f + ((e - 1) - f + 1) = e /\ ((e - 1) - f + 1) + 1 = e - f + 1
  BY <1>4, <1>9
<1>14. Append(Consecutive(f, (e - 1) - f + 1), f + ((e - 1) - f + 1))
         = Consecutive(f, ((e - 1) - f + 1) + 1)
  BY <1>4, <1>13, ConsecutiveAppend, Zenon
<1>15. Append(body, e) = Consecutive(f, e - f + 1)
  BY <1>12, <1>13, <1>14, Zenon
<1>16. h264_buf_inx # 0
  BY <1>12
<1> QED
  BY <1>3, <1>7, <1>12, <1>15, <1>16 DEF Consecutive

LEMMA LossyInit == Lossy!Init => LossyInv
<1> SUFFICES ASSUME Lossy!Init
             PROVE  LossyInv
  OBVIOUS
<1>1. /\ sps = FALSE /\ pps = FALSE /\ h264_buf_inx = 0 /\ body = <<>> /\ delivered = {}
      /\ seq_no \in 0 .. LossySeqMod - 1
  BY DEF Lossy!Init
<1>2. seq_no \in Nat
  BY <1>1, LossyConstants
<1>3. \A f, n \in DOMAIN LossyStream : ~Half(f, n)
  BY <1>1, LossyPacket DEF Half
<1> QED
  BY <1>1, <1>2, <1>3 DEF LossyInv

\* Loss damages only the pictures it hits: every picture of which no packet was lost, nor the
\* parameter sets before it nor the end of the picture before, is decoded whole. It is about the
\* packets of one round of the sequence numbers: RtpPacketsAssumption says they do not wrap.
THEOREM WholePictures == RtpSpec => CompletePictureDecoded
<1>1. RtpInit => (program = "lossy" => LossyInv)
  BY LossyInit DEF RtpInit
<1>2. (program = "lossy" => LossyInv) /\ [RtpNext]_allVars =>
        /\ (program = "lossy" => LossyInv)'
        /\ [program = "lossy" => Lossy!CompletePicturesWhole]_allVars
  <2> SUFFICES ASSUME program = "lossy" => LossyInv, [RtpNext]_allVars
               PROVE  /\ (program = "lossy" => LossyInv)'
                      /\ [program = "lossy" => Lossy!CompletePicturesWhole]_allVars
    OBVIOUS
  <2>1. CASE UNCHANGED allVars
    <3>1. /\ UNCHANGED <<sps, pps, seq_no, start, body, h264_buf_inx, delivered>>
          /\ program' = program
      BY <2>1 DEF allVars, vars, parserVars
    <3>2. AtEnd' <=> AtEnd
      BY <3>1 DEF AtEnd, IsSlice
    <3>3. ASSUME NEW f \in DOMAIN LossyStream, NEW n \in DOMAIN LossyStream
          PROVE  (Half(f, n)' <=> Half(f, n)) /\ (Prepared(f)' <=> Prepared(f))
      BY <3>1 DEF Half, Prepared, IsSlice, Begins
    <3>4. LossyInv => LossyInv'
      BY <3>1, <3>2, <3>3, Zenon DEF LossyInv, Consecutive
    <3> QED
      BY <2>1, <3>1, <3>4
  <2>2. CASE program # "lossy" /\ program' = program
    BY <2>2
  <2>3. CASE program = "lossy" /\ program' = program /\ Lossy!Next
    <3>1. LossyInv'
      BY <2>3, LossyNext
    <3>2. PICK i \in DOMAIN LossyStream : Lossy!Deliver(i)
      BY <2>3 DEF Lossy!Next
    <3>3. delivered' \ delivered = {i}
      BY <2>3, <3>2, ArrivesLast
    <3>4. Lossy!CompletePicturesWhole
      BY <2>3, <3>2, <3>3, PictureWhole DEF Lossy!CompletePicturesWhole, IsSlice
    <3> QED
      BY <3>1, <3>4
  <2> QED
    BY <2>1, <2>2, <2>3
       DEF RtpNext, ParseReordered, ParseLossy, ParseSound, WriteBits
<1> QED
  BY <1>1, <1>2, PTL DEF RtpSpec, CompletePictureDecoded

-------------------------------------------------------------------------------
(* Sound.                                                                  *)

\* The number of the nth packet that arrived is above all before it.
IsNewest(n) ==
  \A m \in 0 .. n - 1 :
    AAC!this_seq(aac_delivered[n]) > IF m = 0 THEN 0 ELSE AAC!this_seq(aac_delivered[m])

\* The packets that arrived which are to be decoded.
ToDecode ==
  {n \in DOMAIN aac_delivered : IsNewest(n) /\ AAC!WellFormed(Packets[aac_delivered[n]])}

Decodings == (DOMAIN Packets) \X Int \X Nat

\* seq_no is the highest number that arrived, and no decoded packet has a higher one.
AacInv ==
  /\ aac_delivered \in Seq(DOMAIN Packets) /\ aac_decoded \in Seq(Decodings)
  /\ aac_seq_no \in Nat
  /\ \A m \in DOMAIN aac_delivered : AAC!this_seq(aac_delivered[m]) <= aac_seq_no
  /\ aac_seq_no # 0 =>
       \E m \in DOMAIN aac_delivered : aac_seq_no = AAC!this_seq(aac_delivered[m])
  /\ {aac_decoded[n][1] : n \in DOMAIN aac_decoded} = {aac_delivered[n] : n \in ToDecode}
  /\ \A n \in DOMAIN aac_decoded :
       /\ AAC!this_seq(aac_decoded[n][1]) <= aac_seq_no
       /\ aac_decoded[n][2] = AAC!FirstByte(Packets[aac_decoded[n][1]])
       /\ aac_decoded[n][3] = Packets[aac_decoded[n][1]].units[1]
  /\ \A m, n \in DOMAIN aac_decoded :
       m < n => AAC!this_seq(aac_decoded[m][1]) < AAC!this_seq(aac_decoded[n][1])

LEMMA SoundConstants ==
  /\ Packets \in Seq([cc : Nat, ext : Nat, units : Seq(Nat) \ {<<>>}, missing : Nat])
  /\ DOMAIN Packets = 1 .. Len(Packets) /\ Len(Packets) \in Nat
  /\ SeqNumbers \in Nat \ {0} /\ SoundFirstSeq \in Nat
  /\ size_length \in Nat /\ index_length \in Nat /\ index_delta_length \in Nat
<1>1. /\ Packets \in Seq([cc : Nat, ext : Nat, units : Seq(Nat) \ {<<>>}, missing : Nat])
      /\ SeqNumbers \in Nat \ {0} /\ SoundFirstSeq \in 0 .. SeqNumbers - 1
      /\ {size_length, index_length, index_delta_length} \subseteq Nat
  BY RtpPacketsAssumption DEF AAC!AACRtpPacketAssumption
<1> QED
  BY <1>1, LenProperties

LEMMA SoundNumbers ==
  /\ SeqNumbers \in Nat \ {0} /\ SoundFirstSeq \in Nat
  /\ size_length \in Nat /\ index_length \in Nat /\ index_delta_length \in Nat
  /\ \A k \in DOMAIN Packets : k \in Nat \ {0}
<1>1. DOMAIN Packets = 1 .. Len(Packets) /\ Len(Packets) \in Nat
  BY SoundConstants, Zenon
<1>2. \A k \in DOMAIN Packets : k \in Nat \ {0}
  BY <1>1
<1> QED
  BY <1>2, SoundConstants, Zenon

LEMMA SoundSeq ==
  ASSUME NEW k \in DOMAIN Packets
  PROVE  AAC!this_seq(k) \in Nat
<1>1. SoundFirstSeq + k - 1 \in Nat
  BY SoundNumbers
<1> QED
  BY <1>1, SoundNumbers DEF AAC!this_seq

\* The first unit is there, and its place is a number.
LEMMA SoundUnit ==
  ASSUME NEW k \in DOMAIN Packets
  PROVE  /\ Len(Packets[k].units) \in Nat /\ Len(Packets[k].units) >= 1
         /\ Packets[k].units[1] \in Nat
         /\ Packets[k].cc \in Nat /\ Packets[k].ext \in Nat
         /\ AAC!AU_headers_length(Packets[k]) \in Nat
         /\ AAC!AU_headers_length(Packets[k]) >= size_length + index_length
<1>1. Packets[k] \in [cc : Nat, ext : Nat, units : Seq(Nat) \ {<<>>}, missing : Nat]
  BY SoundConstants, ElementOfSeq
<1>2. /\ Packets[k].units \in Seq(Nat) /\ Packets[k].units # <<>>
      /\ Packets[k].cc \in Nat /\ Packets[k].ext \in Nat
  BY <1>1
<1>3. Len(Packets[k].units) \in Nat /\ Len(Packets[k].units) >= 1
  BY <1>2, EmptySeq, LenProperties
<1>4. Packets[k].units[1] \in Nat
  BY <1>2, <1>3, ElementOfSeq
<1> DEFINE n == Len(Packets[k].units) - 1
           w == size_length + index_delta_length
<1>5. n \in Nat /\ w \in Nat /\ size_length + index_length \in Nat
  BY <1>3, SoundNumbers
<1>6. ASSUME NEW x \in Nat, NEW y \in Nat PROVE x * y \in Nat
  BY SMT
<1>7. n * w \in Nat
  BY <1>5, <1>6
<1>8. AAC!AU_headers_length(Packets[k]) = size_length + index_length + n * w
  BY DEF AAC!AU_headers_length
<1> HIDE DEF n, w
<1>9. /\ AAC!AU_headers_length(Packets[k]) \in Nat
      /\ AAC!AU_headers_length(Packets[k]) >= size_length + index_length
  BY <1>5, <1>7, <1>8
<1> QED
  BY <1>2, <1>3, <1>4, <1>9

\* A packet that is well formed holds a unit to decode.
LEMMA UnitToDecode ==
  ASSUME NEW k \in DOMAIN Packets, AAC!WellFormed(Packets[k])
  PROVE  AAC!au_headers_num(Packets[k]) > 0
<1>1. size_length > 0
  BY DEF AAC!WellFormed
<1> DEFINE a == AAC!AU_headers_length(Packets[k]) - (size_length + index_length)
           b == size_length + index_delta_length
<1>2. a \in Nat /\ b \in Nat /\ b > 0
  BY <1>1, SoundUnit, SoundNumbers
<1>3. ASSUME NEW x \in Nat, NEW y \in Nat, y > 0
      PROVE  x \div y \in Nat
  BY <1>3
<1>4. a \div b \in Nat
  BY <1>2, <1>3
<1>5. AAC!au_headers_num(Packets[k]) = 1 + a \div b
  BY SoundUnit DEF AAC!au_headers_num
<1> HIDE DEF a, b
<1> QED
  BY <1>4, <1>5

LEMMA AacInit ==
  ASSUME AAC!Init
  PROVE  AacInv
<1>1. aac_seq_no = 0 /\ aac_delivered = <<>> /\ aac_decoded = <<>>
  BY DEF AAC!Init
<1>2. /\ DOMAIN aac_delivered = {} /\ DOMAIN aac_decoded = {}
      /\ aac_delivered \in Seq(DOMAIN Packets) /\ aac_decoded \in Seq(Decodings)
  BY <1>1
<1>3. ToDecode = {}
  BY <1>2 DEF ToDecode
<1>4. {aac_decoded[n][1] : n \in DOMAIN aac_decoded} = {} /\ {aac_delivered[n] : n \in ToDecode} = {}
  BY <1>2, <1>3
<1> QED
  BY <1>1, <1>2, <1>4 DEF AacInv

\* One packet more leaves what was newest as it was, and the packet is newest if its
\* number is above seq_no.
LEMMA OneMorePacket ==
  ASSUME AacInv, NEW k \in DOMAIN Packets, aac_delivered' = Append(aac_delivered, k),
         NEW l, l = Len(aac_delivered)
  PROVE  /\ aac_delivered' \in Seq(DOMAIN Packets)
         /\ DOMAIN aac_delivered' = DOMAIN aac_delivered \union {l + 1}
         /\ l + 1 \notin DOMAIN aac_delivered
         /\ \A m \in DOMAIN aac_delivered : aac_delivered'[m] = aac_delivered[m]
         /\ aac_delivered'[l + 1] = k
         /\ \A m \in DOMAIN aac_delivered : IsNewest(m)' <=> IsNewest(m)
         /\ IsNewest(l + 1)' <=> AAC!this_seq(k) > aac_seq_no
<1>1. aac_delivered \in Seq(DOMAIN Packets) /\ aac_seq_no \in Nat
  BY DEF AacInv
<1>2. /\ aac_delivered' \in Seq(DOMAIN Packets) /\ l \in Nat
      /\ DOMAIN aac_delivered' = 1 .. l + 1 /\ DOMAIN aac_delivered = 1 .. l
      /\ \A m \in 1 .. l : aac_delivered'[m] = aac_delivered[m]
      /\ aac_delivered'[l + 1] = k
  BY <1>1, AppendKeeps
<1>3. /\ DOMAIN aac_delivered' = DOMAIN aac_delivered \union {l + 1}
      /\ l + 1 \notin DOMAIN aac_delivered
  BY <1>2
<1>4. ASSUME NEW m \in DOMAIN aac_delivered
      PROVE  IsNewest(m)' <=> IsNewest(m)
  <2>1. aac_delivered'[m] = aac_delivered[m]
    BY <1>2
  <2>2. ASSUME NEW j \in 0 .. m - 1
        PROVE  (IF j = 0 THEN 0 ELSE AAC!this_seq(aac_delivered'[j]))
                 = (IF j = 0 THEN 0 ELSE AAC!this_seq(aac_delivered[j]))
    <3>1. CASE j = 0
      BY <3>1
    <3>2. CASE j # 0
      <4>1. j \in 1 .. l
        BY <1>2, <3>2
      <4> QED
        BY <1>2, <3>2, <4>1
    <3> QED
      BY <3>1, <3>2
  <2> QED
    BY <2>1, <2>2 DEF IsNewest, AAC!this_seq
<1>5. IsNewest(l + 1)' <=> AAC!this_seq(k) > aac_seq_no
  <2> DEFINE v == AAC!this_seq(k)
             g(j) == IF j = 0 THEN 0 ELSE AAC!this_seq(aac_delivered[j])
  <2>1. v \in Nat
    BY SoundSeq
  <2>2. ASSUME NEW j \in 0 .. l
        PROVE  g(j) \in Nat /\ g(j) <= aac_seq_no
    <3>1. CASE j = 0
      BY <1>1, <3>1
    <3>2. CASE j # 0
      <4>1. j \in DOMAIN aac_delivered
        BY <1>2, <3>2
      <4>2. AAC!this_seq(aac_delivered[j]) <= aac_seq_no
        BY <4>1 DEF AacInv
      <4>3. aac_delivered[j] \in DOMAIN Packets
        BY <1>1, <4>1, ElementOfSeq
      <4>4. AAC!this_seq(aac_delivered[j]) \in Nat
        BY <4>3, SoundSeq
      <4> QED
        BY <3>2, <4>2, <4>4
    <3> QED
      BY <3>1, <3>2
  <2>3. \E j \in 0 .. l : g(j) = aac_seq_no
    <3>1. CASE aac_seq_no = 0
      <4>1. 0 \in 0 .. l /\ g(0) = aac_seq_no
        BY <1>2, <3>1
      <4> QED
        BY <4>1
    <3>2. CASE aac_seq_no # 0
      <4>1. PICK m \in DOMAIN aac_delivered : aac_seq_no = AAC!this_seq(aac_delivered[m])
        BY <3>2 DEF AacInv
      <4>2. m \in 0 .. l /\ m # 0
        BY <1>2
      <4> QED
        BY <4>1, <4>2
    <3> QED
      BY <3>1, <3>2
  <2>4. (l + 1) - 1 = l
    BY <1>2
  <2>5. IsNewest(l + 1)' <=> \A j \in 0 .. l :
          v > IF j = 0 THEN 0 ELSE AAC!this_seq(aac_delivered'[j])
    BY <1>2, <2>4 DEF IsNewest, AAC!this_seq
  <2>6. \A j \in 0 .. l : g(j) = IF j = 0 THEN 0 ELSE AAC!this_seq(aac_delivered'[j])
    <3>1. ASSUME NEW j \in 0 .. l, j # 0
          PROVE  aac_delivered'[j] = aac_delivered[j]
      BY <1>2, <3>1
    <3> QED
      BY <3>1
  <2>7. IsNewest(l + 1)' <=> \A j \in 0 .. l : v > g(j)
    BY <2>5, <2>6
  <2> HIDE DEF v, g
  <2>8. (\A j \in 0 .. l : v > g(j)) <=> v > aac_seq_no
    BY <1>1, <2>1, <2>2, <2>3
  <2> QED
    BY <2>7, <2>8 DEF v
<1> QED
  BY <1>2, <1>3, <1>4, <1>5

\* The numbers of what arrived and of what was decoded.
LEMMA SeenNumber ==
  ASSUME AacInv, NEW m \in DOMAIN aac_delivered
  PROVE  /\ AAC!this_seq(aac_delivered[m]) \in Nat
         /\ AAC!this_seq(aac_delivered[m]) <= aac_seq_no
<1>1. aac_delivered[m] \in DOMAIN Packets
  BY ElementOfSeq DEF AacInv
<1> QED
  BY <1>1, SoundSeq DEF AacInv

LEMMA DecodedNumber ==
  ASSUME AacInv, NEW n \in DOMAIN aac_decoded
  PROVE  /\ aac_decoded[n] \in Decodings /\ aac_decoded[n][1] \in DOMAIN Packets
         /\ AAC!this_seq(aac_decoded[n][1]) \in Nat
         /\ AAC!this_seq(aac_decoded[n][1]) <= aac_seq_no
<1>1. aac_decoded[n] \in Decodings
  BY ElementOfSeq DEF AacInv
<1>2. aac_decoded[n][1] \in DOMAIN Packets
  BY <1>1 DEF Decodings
<1> QED
  BY <1>1, <1>2, SoundSeq DEF AacInv

\* A packet that is not decoded: it was not new, or it is too short.
LEMMA NotDecoded ==
  ASSUME AacInv, NEW k \in DOMAIN Packets, aac_delivered' = Append(aac_delivered, k),
         aac_decoded' = aac_decoded,
         \/ ~AAC!Newer(k) /\ aac_seq_no' = aac_seq_no
         \/ AAC!Newer(k) /\ ~AAC!WellFormed(Packets[k]) /\ aac_seq_no' = AAC!this_seq(k)
  PROVE  AacInv'
<1>0. PICK l : l = Len(aac_delivered)
  OBVIOUS
<1>1. /\ aac_delivered' \in Seq(DOMAIN Packets)
      /\ DOMAIN aac_delivered' = DOMAIN aac_delivered \union {l + 1}
      /\ l + 1 \notin DOMAIN aac_delivered
      /\ \A m \in DOMAIN aac_delivered : aac_delivered'[m] = aac_delivered[m]
      /\ aac_delivered'[l + 1] = k
      /\ \A m \in DOMAIN aac_delivered : IsNewest(m)' <=> IsNewest(m)
      /\ IsNewest(l + 1)' <=> AAC!this_seq(k) > aac_seq_no
  BY <1>0, OneMorePacket
<1>2. aac_seq_no \in Nat /\ AAC!this_seq(k) \in Nat
  BY SoundSeq DEF AacInv
<1>3. /\ aac_seq_no' \in Nat /\ aac_seq_no <= aac_seq_no' /\ AAC!this_seq(k) <= aac_seq_no'
      /\ aac_seq_no' = aac_seq_no \/ aac_seq_no' = AAC!this_seq(k)
  BY <1>2 DEF AAC!Newer
<1>4. ~(IsNewest(l + 1)' /\ AAC!WellFormed(Packets[k]))
  BY <1>1 DEF AAC!Newer
<1>5. ToDecode' = {n \in DOMAIN aac_delivered' :
                     IsNewest(n)' /\ AAC!WellFormed(Packets[aac_delivered'[n]])}
  BY DEF ToDecode
<1>6. l + 1 \notin ToDecode'
  BY <1>1, <1>4, <1>5
<1>7. ToDecode' = ToDecode
  <2>1. ASSUME NEW m \in DOMAIN aac_delivered
        PROVE  m \in ToDecode' <=> m \in ToDecode
    BY <1>1, <1>5 DEF ToDecode
  <2>2. ToDecode \subseteq DOMAIN aac_delivered /\ ToDecode' \subseteq DOMAIN aac_delivered'
    BY <1>5 DEF ToDecode
  <2> QED
    BY <1>1, <1>6, <2>1, <2>2
<1>8. {aac_delivered'[n] : n \in ToDecode'} = {aac_delivered[n] : n \in ToDecode}
  <2>1. \A n \in ToDecode : aac_delivered'[n] = aac_delivered[n]
    BY <1>1 DEF ToDecode
  <2> QED
    BY <1>7, <2>1
<1>9. \A m \in DOMAIN aac_delivered' : AAC!this_seq(aac_delivered'[m]) <= aac_seq_no'
  <2>1. ASSUME NEW m \in DOMAIN aac_delivered
        PROVE  AAC!this_seq(aac_delivered[m]) <= aac_seq_no'
    BY <1>2, <1>3, SeenNumber
  <2> QED
    BY <1>1, <1>3, <2>1
<1>10. aac_seq_no' # 0 =>
         \E m \in DOMAIN aac_delivered' : aac_seq_no' = AAC!this_seq(aac_delivered'[m])
  BY <1>1, <1>3 DEF AacInv
<1>11. ASSUME NEW n \in DOMAIN aac_decoded
       PROVE  AAC!this_seq(aac_decoded[n][1]) <= aac_seq_no'
  BY <1>2, <1>3, DecodedNumber
<1>12. /\ aac_decoded' \in Seq(Decodings)
       /\ {aac_decoded'[n][1] : n \in DOMAIN aac_decoded'} = {aac_delivered'[n] : n \in ToDecode'}
       /\ \A n \in DOMAIN aac_decoded' :
            /\ AAC!this_seq(aac_decoded'[n][1]) <= aac_seq_no'
            /\ aac_decoded'[n][2] = AAC!FirstByte(Packets[aac_decoded'[n][1]])
            /\ aac_decoded'[n][3] = Packets[aac_decoded'[n][1]].units[1]
       /\ \A m, n \in DOMAIN aac_decoded' :
            m < n => AAC!this_seq(aac_decoded'[m][1]) < AAC!this_seq(aac_decoded'[n][1])
  BY <1>8, <1>11, Zenon DEF AacInv
<1> QED
  BY <1>1, <1>3, <1>9, <1>10, <1>12 DEF AacInv

\* A packet that is decoded: the newest, and behind all that were decoded.
LEMMA NowDecoded ==
  ASSUME AacInv, NEW k \in DOMAIN Packets, aac_delivered' = Append(aac_delivered, k),
         AAC!Accept(k)
  PROVE  AacInv'
<1>0. /\ AAC!Newer(k) /\ AAC!WellFormed(Packets[k]) /\ aac_seq_no' = AAC!this_seq(k)
      /\ aac_decoded' = Append(aac_decoded,
                               <<k, AAC!FirstByte(Packets[k]), Packets[k].units[1]>>)
  BY UnitToDecode DEF AAC!Accept
<1>1. PICK l : l = Len(aac_delivered)
  OBVIOUS
<1>2. /\ aac_delivered' \in Seq(DOMAIN Packets)
      /\ DOMAIN aac_delivered' = DOMAIN aac_delivered \union {l + 1}
      /\ l + 1 \notin DOMAIN aac_delivered
      /\ \A m \in DOMAIN aac_delivered : aac_delivered'[m] = aac_delivered[m]
      /\ aac_delivered'[l + 1] = k
      /\ \A m \in DOMAIN aac_delivered : IsNewest(m)' <=> IsNewest(m)
      /\ IsNewest(l + 1)' <=> AAC!this_seq(k) > aac_seq_no
  BY <1>1, OneMorePacket
<1>3. aac_seq_no \in Nat /\ AAC!this_seq(k) \in Nat /\ aac_seq_no < AAC!this_seq(k)
      /\ aac_seq_no' \in Nat /\ IsNewest(l + 1)'
  BY <1>0, <1>2, SoundSeq DEF AacInv, AAC!Newer
<1>4. PICK d \in Decodings : d = <<k, AAC!FirstByte(Packets[k]), Packets[k].units[1]>>
  <2>1. AAC!FirstByte(Packets[k]) \in Int /\ Packets[k].units[1] \in Nat
    BY SoundUnit DEF AAC!FirstByte
  <2> QED
    BY <2>1 DEF Decodings
<1>5. PICK n \in Nat : n = Len(aac_decoded)
  BY LenProperties DEF AacInv
<1>6. /\ aac_decoded' \in Seq(Decodings)
      /\ DOMAIN aac_decoded' = 1 .. n + 1 /\ DOMAIN aac_decoded = 1 .. n
      /\ \A j \in 1 .. n : aac_decoded'[j] = aac_decoded[j]
      /\ aac_decoded'[n + 1] = d
  <2>1. aac_decoded \in Seq(Decodings) /\ aac_decoded' = Append(aac_decoded, d)
    BY <1>0, <1>4 DEF AacInv
  <2> QED
    BY <1>5, <2>1, AppendKeeps
<1>7. /\ d[1] = k /\ d[2] = AAC!FirstByte(Packets[d[1]]) /\ d[3] = Packets[d[1]].units[1]
  BY <1>4
<1>8. ToDecode' = {m \in DOMAIN aac_delivered' :
                     IsNewest(m)' /\ AAC!WellFormed(Packets[aac_delivered'[m]])}
  BY DEF ToDecode
<1>9. ToDecode' = ToDecode \union {l + 1}
  <2>1. ASSUME NEW m \in DOMAIN aac_delivered
        PROVE  m \in ToDecode' <=> m \in ToDecode
    BY <1>2, <1>8 DEF ToDecode
  <2>2. l + 1 \in ToDecode'
    BY <1>0, <1>2, <1>3, <1>8
  <2>3. ToDecode \subseteq DOMAIN aac_delivered /\ ToDecode' \subseteq DOMAIN aac_delivered'
    BY <1>8 DEF ToDecode
  <2> QED
    BY <1>2, <2>1, <2>2, <2>3
<1>10. {aac_decoded'[j][1] : j \in DOMAIN aac_decoded'} = {aac_delivered'[m] : m \in ToDecode'}
  <2>1. {aac_decoded'[j][1] : j \in DOMAIN aac_decoded'}
          = {aac_decoded[j][1] : j \in DOMAIN aac_decoded} \union {k}
    <3>1. DOMAIN aac_decoded' = DOMAIN aac_decoded \union {n + 1} /\ aac_decoded'[n + 1][1] = k
          /\ \A j \in DOMAIN aac_decoded : aac_decoded'[j] = aac_decoded[j]
      BY <1>6, <1>7
    <3> QED
      BY <3>1
  <2>2. {aac_delivered'[m] : m \in ToDecode'} = {aac_delivered[m] : m \in ToDecode} \union {k}
    <3>1. \A m \in ToDecode : aac_delivered'[m] = aac_delivered[m]
      BY <1>2 DEF ToDecode
    <3>2. aac_delivered'[l + 1] = k
      BY <1>2
    <3>3. ASSUME NEW x
          PROVE  (\E m \in ToDecode \union {l + 1} : x = aac_delivered'[m])
                   <=> (\E m \in ToDecode : x = aac_delivered[m]) \/ x = k
      BY <3>1, <3>2, Zenon
    <3> QED
      BY <1>9, <3>3, Zenon
  <2> QED
    BY <2>1, <2>2 DEF AacInv
<1>11. \A j \in DOMAIN aac_decoded' : j \in DOMAIN aac_decoded \/ j = n + 1
  BY <1>6
<1>12. ASSUME NEW j \in DOMAIN aac_decoded'
       PROVE  /\ AAC!this_seq(aac_decoded'[j][1]) <= aac_seq_no'
              /\ aac_decoded'[j][2] = AAC!FirstByte(Packets[aac_decoded'[j][1]])
              /\ aac_decoded'[j][3] = Packets[aac_decoded'[j][1]].units[1]
  <2>1. CASE j \in DOMAIN aac_decoded
    <3>1. aac_decoded'[j] = aac_decoded[j]
      BY <1>6, <2>1
    <3>2. AAC!this_seq(aac_decoded[j][1]) <= aac_seq_no'
      BY <1>0, <1>3, <2>1, DecodedNumber
    <3>3. /\ aac_decoded[j][2] = AAC!FirstByte(Packets[aac_decoded[j][1]])
          /\ aac_decoded[j][3] = Packets[aac_decoded[j][1]].units[1]
      BY <2>1, Zenon DEF AacInv
    <3> QED
      BY <3>1, <3>2, <3>3, Zenon
  <2>2. CASE j = n + 1
    BY <1>0, <1>3, <1>6, <1>7, <2>2
  <2> QED
    BY <1>11, <2>1, <2>2
<1>13. ASSUME NEW i \in DOMAIN aac_decoded', NEW j \in DOMAIN aac_decoded', i < j
       PROVE  AAC!this_seq(aac_decoded'[i][1]) < AAC!this_seq(aac_decoded'[j][1])
  <2>1. i \in DOMAIN aac_decoded /\ aac_decoded'[i] = aac_decoded[i]
    BY <1>6, <1>13
  <2>2. CASE j \in DOMAIN aac_decoded
    <3>1. aac_decoded'[j] = aac_decoded[j]
      BY <1>6, <2>2
    <3>2. AAC!this_seq(aac_decoded[i][1]) < AAC!this_seq(aac_decoded[j][1])
      BY <1>13, <2>1, <2>2, Zenon DEF AacInv
    <3> QED
      BY <2>1, <3>1, <3>2, Zenon
  <2>3. CASE j = n + 1
    <3>1. /\ AAC!this_seq(aac_decoded[i][1]) \in Nat
          /\ AAC!this_seq(aac_decoded[i][1]) <= aac_seq_no
      BY <2>1, DecodedNumber
    <3>2. AAC!this_seq(aac_decoded[i][1]) < AAC!this_seq(k)
      BY <1>3, <3>1
    <3> QED
      BY <1>6, <1>7, <2>1, <2>3, <3>2, Zenon
  <2> QED
    BY <1>11, <2>2, <2>3
<1>14. \A m \in DOMAIN aac_delivered' : AAC!this_seq(aac_delivered'[m]) <= aac_seq_no'
  <2>1. ASSUME NEW m \in DOMAIN aac_delivered
        PROVE  AAC!this_seq(aac_delivered[m]) <= aac_seq_no'
    BY <1>0, <1>3, SeenNumber
  <2>2. AAC!this_seq(k) <= aac_seq_no'
    BY <1>0, <1>3
  <2> QED
    BY <1>2, <2>1, <2>2
<1>15. \E m \in DOMAIN aac_delivered' : aac_seq_no' = AAC!this_seq(aac_delivered'[m])
  BY <1>0, <1>2
<1> QED
  BY <1>2, <1>3, <1>6, <1>10, <1>12, <1>13, <1>14, <1>15 DEF AacInv

LEMMA AacNext ==
  ASSUME AacInv, AAC!Next
  PROVE  AacInv'
<1>1. PICK k \in DOMAIN Packets : AAC!parse_data(k)
  BY DEF AAC!Next
<1>2. /\ aac_delivered' = Append(aac_delivered, k)
      /\ AAC!Ignore(k) \/ AAC!Reject(k) \/ AAC!Accept(k)
  BY <1>1 DEF AAC!parse_data
<1>3. CASE AAC!Ignore(k) \/ AAC!Reject(k)
  BY <1>2, <1>3, NotDecoded DEF AAC!Ignore, AAC!Reject
<1> QED
  BY <1>2, <1>3, NowDecoded

LEMMA AacCorrect ==
  ASSUME AacInv
  PROVE  AAC!NewestAreDecoded /\ AAC!OneUnitIsWhole
<1>1. AAC!NewestAreDecoded
  BY DEF AacInv, ToDecode, IsNewest, AAC!NewestAreDecoded
<1>2. ASSUME NEW n \in DOMAIN aac_decoded,
             Len(Packets[aac_decoded[n][1]].units) = 1,
             Packets[aac_decoded[n][1]].cc = 0, Packets[aac_decoded[n][1]].ext = 0,
             AAC!AU_headers_length(Packets[aac_decoded[n][1]]) = 16
      PROVE  /\ aac_decoded[n][2] = AAC!hlen(Packets[aac_decoded[n][1]]) + 2
                  + AAC!Bytes(AAC!AU_headers_length(Packets[aac_decoded[n][1]]))
             /\ aac_decoded[n][3] = Packets[aac_decoded[n][1]].units[1]
  <2>1. /\ aac_decoded[n][2] = AAC!FirstByte(Packets[aac_decoded[n][1]])
        /\ aac_decoded[n][3] = Packets[aac_decoded[n][1]].units[1]
    BY Zenon DEF AacInv
  <2>2. aac_decoded[n][2] = 16
    BY <1>2, <2>1 DEF AAC!FirstByte
  <2>3. AAC!hlen(Packets[aac_decoded[n][1]]) = 12
    BY <1>2 DEF AAC!hlen
  <2>4. AAC!Bytes(16) = 2
    BY DEF AAC!Bytes
  <2> QED
    BY <1>2, <2>1, <2>2, <2>3, <2>4
<1>3. AAC!OneUnitIsWhole
  BY <1>2 DEF AAC!OneUnitIsWhole, AAC!Range
<1> QED
  BY <1>1, <1>3

\* AACRtpPacket decodes the packets that are newer than all before, in their order and once
\* each, and of a packet of one unit exactly its bytes, whatever the network does.
THEOREM NewestSound == RtpSpec => []NewestAreDecoded
<1>1. RtpInit => AacInv
  BY AacInit DEF RtpInit
<1>2. AacInv /\ [RtpNext]_allVars => AacInv'
  <2> SUFFICES ASSUME AacInv, [RtpNext]_allVars
               PROVE  AacInv'
    OBVIOUS
  <2>1. AAC!Next \/ UNCHANGED aacVars
    BY DEF RtpNext, ParseReordered, ParseLossy, ParseSound, WriteBits, allVars
  <2>2. CASE UNCHANGED aacVars
    <3>1. /\ UNCHANGED <<aac_seq_no, aac_delivered, aac_decoded>>
          /\ ToDecode' = ToDecode
      BY <2>2 DEF aacVars, ToDecode, IsNewest
    <3> QED
      BY <3>1, Zenon DEF AacInv
  <2> QED
    BY <2>1, <2>2, AacNext
<1>3. AacInv => NewestAreDecoded
  BY AacCorrect DEF NewestAreDecoded
<1> QED
  BY <1>1, <1>2, <1>3, PTL DEF RtpSpec

-------------------------------------------------------------------------------

LEMMA LeastOf ==
  ASSUME NEW T, T \subseteq Nat, T # {}
  PROVE  \E x \in T : \A y \in T : ~ (y < x)
<1>1. PICK x \in T : \A y \in T : ~ (<<y, x>> \in OpToRel(<, Nat))
  BY WFMin, NatLessThanWellFounded
<1>2. \A y \in T : y \in Nat /\ (y < x => <<y, x>> \in OpToRel(<, Nat))
  BY DEF OpToRel
<1> QED
  BY <1>1, <1>2

-------------------------------------------------------------------------------
(* The bit writer.  FlattenSeq joins sequences with a recursive function:   *)
(* it is the only one, and it adds one sequence after the other.            *)

Join(s, n, f) == [i \in 1 .. n |-> IF i = 1 THEN s[i] ELSE f[i - 1] \o s[i]]
Joined(s, n) == CHOOSE f : f = Join(s, n, f)

LEMMA JoinAt ==
  ASSUME NEW s, NEW n, NEW f, f = Join(s, n, f)
  PROVE  \A i \in 1 .. n : f[i] = IF i = 1 THEN s[i] ELSE f[i - 1] \o s[i]
<1>1. \A i \in 1 .. n : Join(s, n, f)[i] = IF i = 1 THEN s[i] ELSE f[i - 1] \o s[i]
  BY DEF Join
<1> QED
  BY <1>1

LEMMA FlattenDef ==
  \A s : Writer!FlattenSeq(s) = IF Len(s) = 0 THEN s ELSE Joined(s, Len(s))[Len(s)]
  BY DEF Writer!FlattenSeq, Join, Joined

\* There is such a function.
LEMMA JoinedExists ==
  ASSUME NEW s, NEW n \in Nat
  PROVE  Joined(s, n) = Join(s, n, Joined(s, n))
<1> DEFINE Bad == {m \in Nat : ~ \E f : f = Join(s, m, f)}
<1>1. Bad = {}
  <2> SUFFICES ASSUME Bad # {} PROVE FALSE
    OBVIOUS
  <2>1. PICK m \in Bad : \A k \in Bad : ~ (k < m)
    BY LeastOf
  <2> DEFINE none == [i \in 1 .. 0 |-> 0]
  <2>2. none = Join(s, 0, none)
    BY DEF Join
  <2>3. m # 0
    BY <2>2
  <2>4. m - 1 \in Nat /\ m - 1 \notin Bad
    BY <2>1, <2>3
  <2>5. PICK f : f = Join(s, m - 1, f)
    BY <2>4
  <2> DEFINE g == Join(s, m, f)
  <2>a. \A i \in 1 .. m - 1 : f[i] = IF i = 1 THEN s[i] ELSE f[i - 1] \o s[i]
    BY <2>5, JoinAt
  <2>b. \A i \in 1 .. m : g[i] = IF i = 1 THEN s[i] ELSE f[i - 1] \o s[i]
    BY DEF Join
  <2> HIDE DEF g
  <2>6. \A i \in 1 .. m - 1 : g[i] = f[i]
    BY <2>4, <2>a, <2>b
  <2>7. \A i \in 1 .. m : i # 1 => g[i - 1] = f[i - 1]
    BY <2>4, <2>6
  <2>8. Join(s, m, f) = Join(s, m, g)
    BY <2>7 DEF Join
  <2>9. g = Join(s, m, g)
    BY <2>8 DEF g
  <2> QED
    BY <2>9, <2>1
<1>2. \E f : f = Join(s, n, f)
  BY <1>1
<1> QED
  BY <1>2 DEF Joined

\* What it joins of a longer sequence begins with what it joins of a shorter one.
LEMMA JoinedPrefix ==
  ASSUME NEW s, NEW t, NEW m \in Nat, NEW n \in Nat, m <= n,
         \A i \in 1 .. m : s[i] = t[i]
  PROVE  \A i \in 1 .. m : Joined(s, m)[i] = Joined(t, n)[i]
<1> DEFINE f == Joined(s, m)
           g == Joined(t, n)
           Bad == {i \in 1 .. m : f[i] # g[i]}
<1>1. \A i \in 1 .. m : f[i] = IF i = 1 THEN s[i] ELSE f[i - 1] \o s[i]
  BY JoinedExists, JoinAt
<1>2. \A i \in 1 .. n : g[i] = IF i = 1 THEN t[i] ELSE g[i - 1] \o t[i]
  BY JoinedExists, JoinAt
<1> HIDE DEF f, g
<1>3. Bad = {}
  <2> SUFFICES ASSUME Bad # {} PROVE FALSE
    OBVIOUS
  <2>0. Bad \subseteq Nat
    OBVIOUS
  <2>1. PICK i \in Bad : \A k \in Bad : ~ (k < i)
    BY <2>0, LeastOf, Zenon
  <2>2. i \in 1 .. m /\ i \in 1 .. n
    BY <2>1
  <2>3. i # 1
    BY <2>1, <2>2, <1>1, <1>2
  <2>4. i - 1 \in 1 .. m /\ f[i - 1] = g[i - 1]
    BY <2>1, <2>2, <2>3
  <2>5. f[i] = f[i - 1] \o s[i] /\ g[i] = g[i - 1] \o t[i]
    BY <2>2, <2>3, <1>1, <1>2
  <2> QED
    BY <2>1, <2>2, <2>4, <2>5
<1> QED
  BY <1>3 DEF f, g

\* Of no sequences it is empty, and one more is added at the end.
LEMMA FlattenNone ==
  ASSUME NEW S, NEW s \in Seq(S)
  PROVE  Writer!FlattenSeq(SubSeq(s, 1, 0)) = <<>>
<1>1. SubSeq(s, 1, 0) = <<>>
  BY SubSeqEmpty
<1> QED
  BY <1>1, FlattenDef

LEMMA FlattenOneMore ==
  ASSUME NEW T, NEW s \in Seq(Seq(T)), NEW n \in Nat, n < Len(s)
  PROVE  Writer!FlattenSeq(SubSeq(s, 1, n + 1))
           = Writer!FlattenSeq(SubSeq(s, 1, n)) \o s[n + 1]
<1> DEFINE a == SubSeq(s, 1, n)
           b == SubSeq(s, 1, n + 1)
<1> SUFFICES Writer!FlattenSeq(b) = Writer!FlattenSeq(a) \o s[n + 1]
  OBVIOUS
<1>1. /\ Len(a) = n /\ \A i \in 1 .. n : a[i] = s[i]
      /\ Len(b) = n + 1 /\ \A i \in 1 .. n + 1 : b[i] = s[i]
  BY SubSeqProperties, ElementOfSeq
<1> HIDE DEF a, b
<1>2. \A i \in 1 .. n : a[i] = b[i]
  BY <1>1
<1>3. s[n + 1] \in Seq(T)
  BY ElementOfSeq
<1>4. Writer!FlattenSeq(b) = Joined(b, n + 1)[n + 1]
  BY <1>1, FlattenDef
<1> DEFINE J == Joined(b, n + 1)
<1>5. \A i \in 1 .. n + 1 : J[i] = IF i = 1 THEN b[i] ELSE J[i - 1] \o b[i]
  <2>1. n + 1 \in Nat
    OBVIOUS
  <2>2. J = Join(b, n + 1, J)
    BY <2>1, JoinedExists, Zenon
  <2> QED
    BY <2>2, JoinAt
<1> HIDE DEF J
<1>8. J[n + 1] = IF n + 1 = 1 THEN b[n + 1] ELSE J[n + 1 - 1] \o b[n + 1]
  BY <1>5
<1>9. b[n + 1] = s[n + 1] /\ n + 1 - 1 = n
  BY <1>1
<1>10. Writer!FlattenSeq(b) = J[n + 1]
  BY <1>4 DEF J
<1>6. CASE n = 0
  <2>1. Writer!FlattenSeq(a) = <<>>
    BY <1>6, FlattenNone DEF a
  <2>2. <<>> \o s[n + 1] = s[n + 1]
    BY <1>3, ConcatEmptySeq
  <2> QED
    BY <1>8, <1>9, <1>10, <1>6, <2>1, <2>2
<1>7. CASE n > 0
  <2>1. Writer!FlattenSeq(a) = Joined(a, n)[n]
    BY <1>1, <1>7, FlattenDef
  <2>2. Joined(a, n)[n] = Joined(b, n + 1)[n]
    <3>1. n \in 1 .. n /\ n <= n + 1 /\ n + 1 \in Nat
      BY <1>7
    <3> DEFINE k == n + 1
    <3> HIDE DEF k
    <3>2. k \in Nat /\ n <= k
      BY <3>1 DEF k
    <3>3. \A i \in 1 .. n : Joined(a, n)[i] = Joined(b, k)[i]
      BY <1>2, <3>2, JoinedPrefix
    <3> QED
      BY <3>1, <3>3 DEF k
  <2>3. n + 1 # 1
    BY <1>7
  <2> QED
    BY <1>8, <1>9, <1>10, <2>1, <2>2, <2>3 DEF J
<1>11. n = 0 \/ n > 0
  OBVIOUS
<1> QED
  BY <1>6, <1>7, <1>11, Zenon

-------------------------------------------------------------------------------
\* Whole words and bytes of bits, and the fields put so far.
BitKinds ==
  /\ job \in Jobs /\ put \in 0 .. Len(job.fields)
  /\ state \in {"put", "flush", "done", "aborted"}
  /\ bit_buf \in Seq({0, 1}) /\ Len(bit_buf) = Word
  /\ buffer \in Seq({0, 1}) /\ Len(buffer) % 8 = 0
  /\ Writer!Fields \in Seq({0, 1})

\* What is stored is the fields, with zeros behind them.
Stored ==
  \A i \in 1 .. Len(buffer) :
    buffer[i] = IF i <= Len(Writer!Fields) THEN Writer!Fields[i] ELSE 0

\* The bits in use of the word go on where what is stored ends: while fields are put they
\* are its last, while it is flushed its first.
Putting ==
  /\ bit_left \in 1 .. Word /\ Len(buffer) + Word - bit_left = Len(Writer!Fields)
  /\ Stored
  /\ \A i \in 1 .. Word - bit_left : bit_buf[bit_left + i] = Writer!Fields[Len(buffer) + i]

Flushing ==
  /\ bit_left \in 1 .. Word + 7 /\ Len(buffer) + Word - bit_left = Len(Writer!Fields)
  /\ Stored
  /\ put = Len(job.fields)
  /\ bit_left < Word =>
       \A i \in 1 .. Word :
         bit_buf[i] = IF i <= Word - bit_left THEN Writer!Fields[Len(buffer) + i] ELSE 0

\* The buffer is the last byte longer than the fields at most.
Written ==
  /\ Stored
  /\ put = Len(job.fields)
  /\ Len(buffer) - Len(Writer!Fields) \in 0 .. 7

BitInv ==
  /\ BitKinds
  /\ state = "put" => Putting
  /\ state = "flush" => Flushing
  /\ state = "done" => Written
  /\ state = "aborted" => Len(Writer!Fields) > 8 * job.bytes

-------------------------------------------------------------------------------
LEMMA WriterConstants ==
  /\ Word \in Nat /\ Word % 8 = 0 /\ Word > 0
  /\ \A j \in Jobs :
       /\ j.bytes \in Nat /\ j.fields \in Seq(Seq({0, 1}))
       /\ \A i \in DOMAIN j.fields : Len(j.fields[i]) \in 1 .. Word - 1
  BY RtpPacketsAssumption DEF Writer!PutBitsAssumption

LEMMA WordOfBytes == \E k \in Nat : Word = 8 * k /\ k > 0
<1>1. Word = 8 * (Word \div 8) /\ Word \div 8 \in Nat /\ Word \div 8 > 0
  BY WriterConstants
<1> QED
  BY <1>1

LEMMA ZerosAt ==
  ASSUME NEW n \in Nat
  PROVE  /\ Writer!Zeros(n) \in Seq({0, 1}) /\ Len(Writer!Zeros(n)) = n
         /\ \A i \in 1 .. n : Writer!Zeros(n)[i] = 0
  BY DEF Writer!Zeros

LEMMA HighAt ==
  ASSUME NEW v \in Seq({0, 1}), NEW n \in 0 .. Len(v)
  PROVE  /\ Writer!High(v, n) \in Seq({0, 1}) /\ Len(Writer!High(v, n)) = n
         /\ \A i \in 1 .. n : Writer!High(v, n)[i] = v[i]
<1>1. \A i \in 1 .. n : v[i] \in {0, 1}
  BY ElementOfSeq
<1>2. /\ SubSeq(v, 1, n) \in Seq({0, 1})
      /\ Len(SubSeq(v, 1, n)) = IF 1 <= n THEN n - 1 + 1 ELSE 0
      /\ \A i \in 1 .. n - 1 + 1 : SubSeq(v, 1, n)[i] = v[1 + i - 1]
  BY <1>1, SubSeqProperties
<1> QED
  BY <1>2 DEF Writer!High

LEMMA ShiftedAt ==
  ASSUME NEW w \in Seq({0, 1}), Len(w) = Word, NEW n \in 0 .. Word
  PROVE  /\ Writer!Shifted(w, n) \in Seq({0, 1}) /\ Len(Writer!Shifted(w, n)) = Word
         /\ \A i \in 1 .. Word :
              Writer!Shifted(w, n)[i] = IF i <= Word - n THEN w[n + i] ELSE 0
<1> DEFINE a == SubSeq(w, n + 1, Word)
           z == Writer!Zeros(n)
<1>0. Word \in Nat
  BY WriterConstants
<1>1. \A i \in n + 1 .. Word : w[i] \in {0, 1}
  BY <1>0, ElementOfSeq
<1>2. a \in Seq({0, 1}) /\ Len(a) = Word - n /\ \A i \in 1 .. Word - n : a[i] = w[n + i]
  <2>1. n + 1 \in Int /\ Word \in Int
    BY <1>0
  <2>2. /\ a \in Seq({0, 1})
        /\ Len(a) = IF n + 1 <= Word THEN Word - (n + 1) + 1 ELSE 0
        /\ \A i \in 1 .. Word - (n + 1) + 1 : a[i] = w[n + 1 + i - 1]
    BY <1>1, <2>1, SubSeqProperties
  <2> HIDE DEF a
  <2> QED
    BY <1>0, <2>2
<1>3. z \in Seq({0, 1}) /\ Len(z) = n /\ \A i \in 1 .. n : z[i] = 0
  BY ZerosAt
<1> HIDE DEF a, z
<1>4. /\ a \o z \in Seq({0, 1})
      /\ Len(a \o z) = Len(a) + Len(z)
      /\ \A i \in 1 .. Len(a) + Len(z) :
           (a \o z)[i] = IF i <= Len(a) THEN a[i] ELSE z[i - Len(a)]
  BY <1>2, <1>3, ConcatProperties
<1>5. ASSUME NEW i \in 1 .. Word
      PROVE  (a \o z)[i] = IF i <= Word - n THEN w[n + i] ELSE 0
  BY <1>0, <1>2, <1>3, <1>4
<1>6. Writer!Shifted(w, n) = a \o z
  BY DEF Writer!Shifted, a, z
<1> QED
  BY <1>0, <1>2, <1>3, <1>4, <1>5, <1>6

LEMMA OrAt ==
  ASSUME NEW w \in Seq({0, 1}), Len(w) = Word, NEW v \in Seq({0, 1}), Len(v) <= Word
  PROVE  /\ Writer!Or(w, v) \in Seq({0, 1}) /\ Len(Writer!Or(w, v)) = Word
         /\ \A i \in 1 .. Word :
              Writer!Or(w, v)[i] = IF i <= Word - Len(v) THEN w[i] ELSE v[i - (Word - Len(v))]
<1> DEFINE a == Writer!High(w, Word - Len(v))
<1>0. Word \in Nat /\ Len(v) \in Nat
  BY WriterConstants
<1>1. /\ a \in Seq({0, 1}) /\ Len(a) = Word - Len(v)
      /\ \A i \in 1 .. Word - Len(v) : a[i] = w[i]
  <2>1. Word - Len(v) \in 0 .. Len(w)
    BY <1>0
  <2> QED
    BY <2>1, HighAt
<1> HIDE DEF a
<1>2. /\ a \o v \in Seq({0, 1})
      /\ Len(a \o v) = Len(a) + Len(v)
      /\ \A i \in 1 .. Len(a) + Len(v) :
           (a \o v)[i] = IF i <= Len(a) THEN a[i] ELSE v[i - Len(a)]
  BY <1>1, ConcatProperties
<1>3. ASSUME NEW i \in 1 .. Word
      PROVE  (a \o v)[i] = IF i <= Word - Len(v) THEN w[i] ELSE v[i - (Word - Len(v))]
  BY <1>0, <1>1, <1>2
<1>4. Writer!Or(w, v) = a \o v
  BY DEF Writer!Or, a
<1>5. Len(a \o v) = Word
  BY <1>0, <1>1, <1>2
<1> QED
  BY <1>2, <1>3, <1>4, <1>5, Zenon

\* The field that is put comes behind those before it.
LEMMA NextField ==
  ASSUME BitKinds, put < Len(job.fields), put' = put + 1, job' = job
  PROVE  /\ job.fields[put + 1] \in Seq({0, 1}) /\ Len(job.fields[put + 1]) \in 1 .. Word - 1
         /\ Writer!Fields' = Writer!Fields \o job.fields[put + 1]
<1>1. job.fields \in Seq(Seq({0, 1})) /\ put \in Nat /\ put + 1 \in DOMAIN job.fields
  BY WriterConstants DEF BitKinds
<1>2. job.fields[put + 1] \in Seq({0, 1}) /\ Len(job.fields[put + 1]) \in 1 .. Word - 1
  BY <1>1, WriterConstants DEF BitKinds
<1>3. Writer!FlattenSeq(SubSeq(job.fields, 1, put + 1))
        = Writer!FlattenSeq(SubSeq(job.fields, 1, put)) \o job.fields[put + 1]
  BY <1>1, FlattenOneMore
<1> QED
  BY <1>2, <1>3 DEF Writer!Fields

\* What a field adds: the fields before stay, and its bits come behind them.
LEMMA FieldsGrow ==
  ASSUME BitKinds, put < Len(job.fields), put' = put + 1, job' = job,
         NEW v, v = job.fields[put + 1]
  PROVE  /\ v \in Seq({0, 1}) /\ Len(v) \in 1 .. Word - 1
         /\ Writer!Fields' \in Seq({0, 1})
         /\ Len(Writer!Fields') = Len(Writer!Fields) + Len(v)
         /\ \A i \in 1 .. Len(Writer!Fields) : Writer!Fields'[i] = Writer!Fields[i]
         /\ \A i \in 1 .. Len(v) : Writer!Fields'[Len(Writer!Fields) + i] = v[i]
<1> DEFINE f == Writer!Fields
<1>1. v \in Seq({0, 1}) /\ Len(v) \in 1 .. Word - 1 /\ Writer!Fields' = f \o v
  BY NextField
<1>2. f \in Seq({0, 1}) /\ Len(f) \in Nat
  BY DEF BitKinds
<1> HIDE DEF f
<1>3. /\ f \o v \in Seq({0, 1})
      /\ Len(f \o v) = Len(f) + Len(v)
      /\ \A i \in 1 .. Len(f) + Len(v) : (f \o v)[i] = IF i <= Len(f) THEN f[i] ELSE v[i - Len(f)]
  BY <1>1, <1>2, ConcatProperties
<1>4. Len(v) \in Nat
  BY <1>1
<1>5. \A i \in 1 .. Len(f) : (f \o v)[i] = f[i]
  BY <1>2, <1>3, <1>4
<1>6. \A i \in 1 .. Len(v) : (f \o v)[Len(f) + i] = v[i]
  BY <1>2, <1>3, <1>4
<1> QED
  BY <1>1, <1>3, <1>5, <1>6 DEF f

LEMMA KeepStep ==
  ASSUME BitInv, Writer!put_bits, Writer!Keep(job.fields[put + 1])
  PROVE  BitInv'
<1>v. PICK v : v = job.fields[put + 1]
  OBVIOUS
<1>n. PICK n : n = Len(Writer!Fields)
  OBVIOUS
<1>1. /\ BitKinds /\ Putting
      /\ state = "put" /\ put < Len(job.fields) /\ put' = put + 1 /\ job' = job
  BY DEF BitInv, Writer!put_bits
<1>2. /\ v \in Seq({0, 1}) /\ Len(v) \in 1 .. Word - 1
      /\ Writer!Fields' \in Seq({0, 1})
      /\ Len(Writer!Fields') = n + Len(v)
      /\ \A i \in 1 .. n : Writer!Fields'[i] = Writer!Fields[i]
      /\ \A i \in 1 .. Len(v) : Writer!Fields'[n + i] = v[i]
  BY <1>v, <1>n, <1>1, FieldsGrow
<1>3. /\ Len(v) < bit_left /\ bit_left' = bit_left - Len(v)
      /\ bit_buf' = Writer!Or(Writer!Shifted(bit_buf, Len(v)), v)
      /\ buffer' = buffer /\ state' = state
  BY <1>v DEF Writer!Keep
<1>4. /\ bit_left \in Nat /\ 1 <= bit_left /\ bit_left <= Word
      /\ Len(buffer) \in Nat /\ Word \in Nat
      /\ Len(v) \in Nat /\ 1 <= Len(v) /\ Len(v) <= Word - 1
      /\ n \in Nat /\ Len(buffer) + Word - bit_left = n
  <2>1. Word \in Nat
    BY WriterConstants
  <2>2. Len(buffer) \in Nat /\ n \in Nat
    BY <1>n, <1>1, LenProperties DEF BitKinds
  <2>3. bit_left \in 1 .. Word /\ Len(buffer) + Word - bit_left = n
    BY <1>n, <1>1 DEF Putting
  <2> QED
    BY <1>2, <2>1, <2>2, <2>3
<1>a. /\ bit_left' = bit_left - Len(v) /\ bit_left' \in Nat /\ 1 <= bit_left' /\ bit_left' <= Word
      /\ Len(v) < bit_left
  BY <1>3, <1>4
<1> DEFINE w == Writer!Shifted(bit_buf, Len(v))
<1>5. /\ w \in Seq({0, 1}) /\ Len(w) = Word
      /\ \A i \in 1 .. Word : w[i] = IF i <= Word - Len(v) THEN bit_buf[Len(v) + i] ELSE 0
  <2>1. bit_buf \in Seq({0, 1}) /\ Len(bit_buf) = Word /\ Len(v) \in 0 .. Word
    BY <1>1, <1>4, <1>2 DEF BitKinds
  <2> QED
    BY <2>1, ShiftedAt
<1> HIDE DEF w
<1>6. /\ bit_buf' \in Seq({0, 1}) /\ Len(bit_buf') = Word
      /\ \A i \in 1 .. Word :
           bit_buf'[i] = IF i <= Word - Len(v) THEN w[i] ELSE v[i - (Word - Len(v))]
  <2>1. bit_buf' = Writer!Or(w, v)
    BY <1>3 DEF w
  <2>2. Len(v) <= Word
    BY <1>2, <1>4
  <2>3. v \in Seq({0, 1})
    BY <1>2
  <2> QED
    BY <1>5, <2>1, <2>2, <2>3, OrAt
<1>7. BitKinds'
  BY <1>1, <1>2, <1>3, <1>6 DEF BitKinds
<1>8. Stored'
  <2>1. ASSUME NEW i \in 1 .. Len(buffer)
        PROVE  buffer[i] = IF i <= n + Len(v) THEN Writer!Fields'[i] ELSE 0
    <3>1. i <= n /\ i \in 1 .. n /\ i <= n + Len(v)
      BY <1>4
    <3>2. buffer[i] = Writer!Fields[i]
      BY <1>1, <1>n, <3>1 DEF Putting, Stored
    <3> QED
      BY <1>2, <3>1, <3>2
  <2> QED
    BY <1>2, <1>3, <2>1 DEF Stored
<1>9. ASSUME NEW i \in 1 .. Word - bit_left'
      PROVE  bit_buf'[bit_left' + i] = Writer!Fields'[Len(buffer) + i]
  <2>1. /\ bit_left' + i \in 1 .. Word /\ i \in 1 .. Word - (bit_left - Len(v)) /\ i \in Nat
        /\ bit_left' + i = bit_left + i - Len(v)
    BY <1>a, <1>4
  <2>2. CASE bit_left' + i <= Word - Len(v)
    <3>1. /\ bit_buf'[bit_left' + i] = bit_buf[Len(v) + (bit_left' + i)]
      BY <1>5, <1>6, <2>1, <2>2
    <3>2. Len(v) + (bit_left' + i) = bit_left + i /\ i \in 1 .. Word - bit_left
      BY <1>a, <1>4, <2>1, <2>2
    <3>3. bit_buf[bit_left + i] = Writer!Fields[Len(buffer) + i]
      BY <1>1, <3>2 DEF Putting
    <3>4. Len(buffer) + i \in 1 .. n
      BY <1>4, <3>2
    <3> QED
      BY <1>2, <3>1, <3>2, <3>3, <3>4
  <2>3. CASE ~(bit_left' + i <= Word - Len(v))
    <3> DEFINE k == i - (Word - bit_left)
    <3>1. k \in 1 .. Len(v) /\ (bit_left' + i) - (Word - Len(v)) = k /\ n + k = Len(buffer) + i
      BY <1>a, <1>4, <2>1, <2>3
    <3> HIDE DEF k
    <3>2. bit_buf'[bit_left' + i] = v[k]
      BY <1>6, <2>1, <2>3, <3>1
    <3> QED
      BY <1>2, <3>1, <3>2
  <2> QED
    BY <2>2, <2>3
<1>10. Putting'
  <2>1. bit_left' \in 1 .. Word /\ Len(buffer) + Word - bit_left' = n + Len(v)
    BY <1>a, <1>4
  <2> QED
    BY <1>2, <1>3, <1>8, <1>9, <2>1 DEF Putting
<1> QED
  BY <1>1, <1>3, <1>7, <1>10 DEF BitInv

LEMMA StoreStep ==
  ASSUME BitInv, Writer!put_bits, Writer!Store(job.fields[put + 1])
  PROVE  BitInv'
<1>v. PICK v : v = job.fields[put + 1]
  OBVIOUS
<1>n. PICK n : n = Len(Writer!Fields)
  OBVIOUS
<1>1. /\ BitKinds /\ Putting
      /\ state = "put" /\ put < Len(job.fields) /\ put' = put + 1 /\ job' = job
  BY DEF BitInv, Writer!put_bits
<1>2. /\ v \in Seq({0, 1}) /\ Len(v) \in 1 .. Word - 1
      /\ Writer!Fields' \in Seq({0, 1})
      /\ Len(Writer!Fields') = n + Len(v)
      /\ \A i \in 1 .. n : Writer!Fields'[i] = Writer!Fields[i]
      /\ \A i \in 1 .. Len(v) : Writer!Fields'[n + i] = v[i]
  BY <1>v, <1>n, <1>1, FieldsGrow
<1> DEFINE h == Writer!High(v, bit_left)
           w == Writer!Or(Writer!Shifted(bit_buf, bit_left), h)
           z == Writer!Zeros(Word - Len(v))
<1>3. /\ Len(v) >= bit_left /\ bit_left' = bit_left + Word - Len(v)
      /\ buffer' = buffer \o w /\ bit_buf' = z \o v /\ state' = state
  BY <1>v DEF Writer!Store
<1>4. /\ bit_left \in Nat /\ 1 <= bit_left /\ bit_left <= Word
      /\ Len(buffer) \in Nat /\ Word \in Nat
      /\ Len(v) \in Nat /\ 1 <= Len(v) /\ Len(v) <= Word - 1
      /\ n \in Nat /\ Len(buffer) + Word - bit_left = n
  <2>1. Word \in Nat
    BY WriterConstants
  <2>2. Len(buffer) \in Nat /\ n \in Nat
    BY <1>n, <1>1, LenProperties DEF BitKinds
  <2>3. bit_left \in 1 .. Word /\ Len(buffer) + Word - bit_left = n
    BY <1>n, <1>1 DEF Putting
  <2> QED
    BY <1>2, <2>1, <2>2, <2>3
<1>a. /\ bit_left' = bit_left + Word - Len(v) /\ Len(v) >= bit_left
      /\ bit_left' \in Nat /\ 1 <= bit_left' /\ bit_left' <= Word
  <2>1. bit_left' = bit_left + Word - Len(v) /\ Len(v) >= bit_left
    BY <1>3
  <2> QED
    BY <2>1, <1>4
<1>5. /\ w \in Seq({0, 1}) /\ Len(w) = Word
      /\ \A i \in 1 .. Word - bit_left : w[i] = bit_buf[bit_left + i]
      /\ \A i \in 1 .. bit_left : w[Word - bit_left + i] = v[i]
  <2> DEFINE u == Writer!Shifted(bit_buf, bit_left)
  <2>1. /\ u \in Seq({0, 1}) /\ Len(u) = Word
        /\ \A i \in 1 .. Word : u[i] = IF i <= Word - bit_left THEN bit_buf[bit_left + i] ELSE 0
    <3>1. bit_buf \in Seq({0, 1}) /\ Len(bit_buf) = Word /\ bit_left \in 0 .. Word
      BY <1>1, <1>4 DEF BitKinds
    <3> QED
      BY <3>1, ShiftedAt
  <2>2. /\ h \in Seq({0, 1}) /\ Len(h) = bit_left /\ \A i \in 1 .. bit_left : h[i] = v[i]
    <3>1. bit_left \in 0 .. Len(v)
      BY <1>3, <1>4
    <3> QED
      BY <1>2, <3>1, HighAt
  <2> HIDE DEF u, h
  <2>3. /\ w \in Seq({0, 1}) /\ Len(w) = Word
        /\ \A i \in 1 .. Word :
             w[i] = IF i <= Word - Len(h) THEN u[i] ELSE h[i - (Word - Len(h))]
    <3>1. Len(h) <= Word
      BY <1>4, <2>2
    <3>2. w = Writer!Or(u, h)
      BY DEF u
    <3> QED
      BY <2>1, <2>2, <3>1, <3>2, OrAt
  <2> HIDE DEF w
  <2>4. ASSUME NEW i \in 1 .. Word - bit_left
        PROVE  w[i] = bit_buf[bit_left + i]
    BY <1>4, <2>1, <2>2, <2>3
  <2>5. ASSUME NEW i \in 1 .. bit_left
        PROVE  w[Word - bit_left + i] = v[i]
    <3>1. /\ Word - bit_left + i \in 1 .. Word /\ ~(Word - bit_left + i <= Word - bit_left)
          /\ (Word - bit_left + i) - (Word - bit_left) = i
      BY <1>4
    <3> QED
      BY <2>2, <2>3, <3>1
  <2> QED
    BY <2>3, <2>4, <2>5
<1>6. z \in Seq({0, 1}) /\ Len(z) = Word - Len(v)
  <2>1. Word - Len(v) \in Nat
    BY <1>2, <1>4
  <2> QED
    BY <2>1, ZerosAt
<1> HIDE DEF h, w, z
<1>7. /\ bit_buf' \in Seq({0, 1}) /\ Len(bit_buf') = Word
      /\ \A i \in 1 .. Word : bit_buf'[i] = IF i <= Word - Len(v) THEN z[i] ELSE v[i - (Word - Len(v))]
  <2>1. /\ z \o v \in Seq({0, 1})
        /\ Len(z \o v) = Len(z) + Len(v)
        /\ \A i \in 1 .. Len(z) + Len(v) : (z \o v)[i] = IF i <= Len(z) THEN z[i] ELSE v[i - Len(z)]
    BY <1>2, <1>6, ConcatProperties
  <2>2. Len(z) = Word - Len(v) /\ Len(z) + Len(v) = Word
    BY <1>4, <1>6
  <2>3. bit_buf' = z \o v
    BY <1>3
  <2> QED
    BY <2>1, <2>2, <2>3
<1>8. /\ buffer' \in Seq({0, 1}) /\ Len(buffer') = Len(buffer) + Word
      /\ \A i \in 1 .. Len(buffer) + Word :
           buffer'[i] = IF i <= Len(buffer) THEN buffer[i] ELSE w[i - Len(buffer)]
  <2>1. buffer \in Seq({0, 1})
    BY <1>1 DEF BitKinds
  <2>2. /\ buffer \o w \in Seq({0, 1})
        /\ Len(buffer \o w) = Len(buffer) + Len(w)
        /\ \A i \in 1 .. Len(buffer) + Len(w) :
             (buffer \o w)[i] = IF i <= Len(buffer) THEN buffer[i] ELSE w[i - Len(buffer)]
    BY <1>5, <2>1, ConcatProperties
  <2> QED
    BY <1>3, <1>5, <2>2
<1>b. Len(buffer') = Len(buffer) + Word
  BY <1>8
<1>9. BitKinds'
  <2>1. Len(buffer') % 8 = 0
    <3>1. Len(buffer) % 8 = 0 /\ Word % 8 = 0
      BY <1>1, WriterConstants DEF BitKinds
    <3>2. \A a, b \in Nat : a % 8 = 0 /\ b % 8 = 0 => (a + b) % 8 = 0
      OBVIOUS
    <3>3. Len(buffer) \in Nat /\ Word \in Nat
      BY <1>4
    <3> QED
      BY <1>8, <3>1, <3>2, <3>3, Zenon
  <2> QED
    <3>1. job' \in Jobs /\ put' \in 0 .. Len(job'.fields)
      BY <1>1 DEF BitKinds
    <3>2. state' \in {"put", "flush", "done", "aborted"}
      BY <1>1, <1>3
    <3> QED
      BY <1>2, <1>7, <1>8, <2>1, <3>1, <3>2, Zenon DEF BitKinds
<1>10. ASSUME NEW i \in 1 .. Len(buffer) + Word
       PROVE  i \in 1 .. n + Len(v) /\ buffer'[i] = Writer!Fields'[i]
  <2>1. i \in 1 .. n + Len(v)
    BY <1>3, <1>4
  <2>2. CASE i <= Len(buffer)
    <3>1. i \in 1 .. n /\ i \in 1 .. Len(buffer)
      BY <1>4, <2>2
    <3>2. buffer[i] = Writer!Fields[i]
      BY <1>1, <1>n, <3>1 DEF Putting, Stored
    <3> QED
      BY <1>2, <1>8, <2>1, <2>2, <3>1, <3>2
  <2>3. CASE ~(i <= Len(buffer)) /\ i <= n
    <3> DEFINE k == i - Len(buffer)
    <3>1. k \in 1 .. Word - bit_left /\ Len(buffer) + k = i /\ i \in 1 .. n
      BY <1>4, <2>3
    <3>2. buffer'[i] = w[k]
      BY <1>8, <2>3
    <3> HIDE DEF k
    <3>3. w[k] = Writer!Fields[i]
      BY <1>1, <1>5, <3>1 DEF Putting
    <3> QED
      BY <1>2, <2>1, <3>1, <3>2, <3>3
  <2>4. CASE ~(i <= n)
    <3> DEFINE k == i - n
    <3>1. /\ k \in 1 .. bit_left /\ k \in 1 .. Len(v) /\ n + k = i
          /\ i - Len(buffer) = Word - bit_left + k /\ ~(i <= Len(buffer))
      BY <1>a, <1>4, <2>4
    <3>2. buffer'[i] = w[i - Len(buffer)]
      BY <1>8, <3>1
    <3> HIDE DEF k
    <3>3. w[Word - bit_left + k] = v[k]
      BY <1>5, <3>1
    <3> QED
      BY <1>2, <2>1, <3>1, <3>2, <3>3
  <2> QED
    BY <2>2, <2>3, <2>4
<1>11. Stored'
  BY <1>2, <1>8, <1>10 DEF Stored
<1>12. ASSUME NEW i \in 1 .. Word - bit_left'
       PROVE  bit_buf'[bit_left' + i] = Writer!Fields'[Len(buffer') + i]
  <2> DEFINE k == bit_left + i
  <2>1. /\ bit_left' + i \in 1 .. Word /\ ~(bit_left' + i <= Word - Len(v))
        /\ (bit_left' + i) - (Word - Len(v)) = k
        /\ k \in 1 .. Len(v) /\ n + k = Len(buffer') + i
    BY <1>a, <1>4, <1>b
  <2> HIDE DEF k
  <2>2. bit_buf'[bit_left' + i] = v[k]
    BY <1>7, <2>1
  <2> QED
    BY <1>2, <2>1, <2>2
<1>13. Putting'
  <2>1. bit_left' \in 1 .. Word /\ Len(buffer') + Word - bit_left' = n + Len(v)
    BY <1>a, <1>4, <1>b
  <2> QED
    BY <1>2, <1>11, <1>12, <2>1 DEF Putting
<1> QED
  BY <1>1, <1>3, <1>9, <1>13 DEF BitInv

LEMMA TooSmallStep ==
  ASSUME BitInv, Writer!put_bits, Writer!TooSmall(job.fields[put + 1])
  PROVE  BitInv'
<1>v. PICK v : v = job.fields[put + 1]
  OBVIOUS
<1>n. PICK n : n = Len(Writer!Fields)
  OBVIOUS
<1>1. /\ BitKinds /\ Putting
      /\ state = "put" /\ put < Len(job.fields) /\ put' = put + 1 /\ job' = job
  BY DEF BitInv, Writer!put_bits
<1>2. /\ v \in Seq({0, 1}) /\ Len(v) \in 1 .. Word - 1
      /\ Writer!Fields' \in Seq({0, 1})
      /\ Len(Writer!Fields') = n + Len(v)
  BY <1>v, <1>n, <1>1, FieldsGrow
<1>3. /\ Len(v) >= bit_left /\ ~(Len(buffer) + Word <= 8 * job.bytes)
      /\ state' = "aborted" /\ UNCHANGED <<bit_buf, bit_left, buffer>>
  BY <1>v DEF Writer!TooSmall, Writer!Room
<1>4. /\ Len(buffer) \in Nat /\ n \in Nat /\ Word \in Nat /\ Len(v) \in Nat /\ job.bytes \in Nat
      /\ bit_left \in 1 .. Word /\ Len(buffer) + Word - bit_left = n
  <2>1. Len(buffer) \in Nat /\ n \in Nat
    BY <1>n, <1>1, LenProperties DEF BitKinds
  <2>2. Word \in Nat /\ job.bytes \in Nat
    BY <1>1, WriterConstants DEF BitKinds
  <2>3. bit_left \in 1 .. Word /\ Len(buffer) + Word - bit_left = n
    BY <1>n, <1>1 DEF Putting
  <2> QED
    BY <1>2, <2>1, <2>2, <2>3
<1>5. n + Len(v) > 8 * job.bytes
  <2>1. Len(v) >= bit_left /\ ~(Len(buffer) + Word <= 8 * job.bytes)
    BY <1>3
  <2> QED
    BY <1>4, <2>1
<1>6. BitKinds'
  <2>1. job' \in Jobs /\ put' \in 0 .. Len(job'.fields)
    BY <1>1 DEF BitKinds
  <2>2. state' \in {"put", "flush", "done", "aborted"}
    BY <1>3
  <2>3. /\ bit_buf \in Seq({0, 1}) /\ Len(bit_buf) = Word
        /\ buffer \in Seq({0, 1}) /\ Len(buffer) % 8 = 0
    BY <1>1 DEF BitKinds
  <2> QED
    BY <1>2, <1>3, <2>1, <2>2, <2>3, Zenon DEF BitKinds
<1> QED
  BY <1>1, <1>2, <1>3, <1>5, <1>6 DEF BitInv

-------------------------------------------------------------------------------
LEMMA FieldsStay ==
  ASSUME UNCHANGED <<job, put>>
  PROVE  Writer!Fields' = Writer!Fields
  BY DEF Writer!Fields

LEMMA StartFlushStep ==
  ASSUME BitInv, Writer!StartFlush
  PROVE  BitInv'
<1>1. /\ BitKinds /\ Putting /\ put = Len(job.fields) /\ state' = "flush"
      /\ bit_buf' = IF bit_left < Word THEN Writer!Shifted(bit_buf, bit_left) ELSE bit_buf
      /\ UNCHANGED <<job, put, bit_left, buffer>>
  BY DEF BitInv, Writer!StartFlush
<1>2. Writer!Fields' = Writer!Fields
  BY <1>1, FieldsStay
<1>3. Word \in Nat /\ bit_left \in Nat /\ 1 <= bit_left /\ bit_left <= Word
  BY <1>1, WriterConstants DEF Putting
<1>4. /\ bit_buf' \in Seq({0, 1}) /\ Len(bit_buf') = Word
      /\ bit_left < Word =>
           \A i \in 1 .. Word :
             bit_buf'[i] = IF i <= Word - bit_left THEN Writer!Fields[Len(buffer) + i] ELSE 0
  <2>1. bit_buf \in Seq({0, 1}) /\ Len(bit_buf) = Word
    BY <1>1 DEF BitKinds
  <2>2. CASE bit_left < Word
    <3> DEFINE w == Writer!Shifted(bit_buf, bit_left)
    <3>1. /\ w \in Seq({0, 1}) /\ Len(w) = Word
          /\ \A i \in 1 .. Word : w[i] = IF i <= Word - bit_left THEN bit_buf[bit_left + i] ELSE 0
      <4>1. bit_left \in 0 .. Word
        BY <1>3
      <4> QED
        BY <2>1, <4>1, ShiftedAt
    <3>2. \A i \in 1 .. Word - bit_left : bit_buf[bit_left + i] = Writer!Fields[Len(buffer) + i]
      BY <1>1 DEF Putting
    <3>3. bit_buf' = w
      BY <1>1, <2>2
    <3> HIDE DEF w
    <3>4. ASSUME NEW i \in 1 .. Word
          PROVE  w[i] = IF i <= Word - bit_left THEN Writer!Fields[Len(buffer) + i] ELSE 0
      BY <1>3, <3>1, <3>2
    <3> QED
      BY <3>1, <3>3, <3>4
  <2>3. CASE ~(bit_left < Word)
    BY <1>1, <2>1, <2>3
  <2> QED
    BY <2>2, <2>3
<1>5. Stored' /\ BitKinds'
  <2>1. Stored
    BY <1>1 DEF Putting
  <2>2. Stored'
    BY <1>1, <1>2, <2>1, Zenon DEF Stored
  <2>3. /\ job \in Jobs /\ put \in 0 .. Len(job.fields)
        /\ buffer \in Seq({0, 1}) /\ Len(buffer) % 8 = 0
        /\ Writer!Fields \in Seq({0, 1})
    BY <1>1 DEF BitKinds
  <2>4. state' \in {"put", "flush", "done", "aborted"}
    BY <1>1
  <2> QED
    BY <1>1, <1>2, <1>4, <2>2, <2>3, <2>4, Zenon DEF BitKinds
<1>6. Flushing'
  <2>1. bit_left \in 1 .. Word + 7 /\ Len(buffer) + Word - bit_left = Len(Writer!Fields)
    <3>1. Len(buffer) + Word - bit_left = Len(Writer!Fields)
      BY <1>1 DEF Putting
    <3> QED
      BY <1>3, <3>1
  <2> QED
    BY <1>1, <1>2, <1>4, <1>5, <2>1 DEF Flushing
<1> QED
  BY <1>1, <1>5, <1>6 DEF BitInv

LEMMA FlushByteStep ==
  ASSUME BitInv, Writer!FlushByte
  PROVE  BitInv'
<1>n. PICK n : n = Len(Writer!Fields)
  OBVIOUS
<1>1. /\ BitKinds /\ Flushing /\ state = "flush" /\ bit_left < Word
      /\ UNCHANGED <<job, put>>
  BY DEF BitInv, Writer!FlushByte
<1>2. Writer!Fields' = Writer!Fields /\ Len(Writer!Fields') = n
  BY <1>1, <1>n, FieldsStay
<1>k. PICK k \in Nat : Word = 8 * k /\ k > 0
  BY WordOfBytes
<1>3. /\ Word \in Nat /\ 8 <= Word /\ bit_left \in Nat /\ 1 <= bit_left /\ bit_left < Word
      /\ Len(buffer) \in Nat /\ Len(buffer) % 8 = 0 /\ n \in Nat
      /\ Len(buffer) + Word - bit_left = n
  <2>1. Len(buffer) \in Nat /\ n \in Nat
    BY <1>n, <1>1, LenProperties DEF BitKinds
  <2>2. Len(buffer) % 8 = 0
    BY <1>1 DEF BitKinds
  <2>3. Word \in Nat /\ 8 <= Word
    BY <1>k
  <2>4. bit_left \in 1 .. Word + 7 /\ Len(buffer) + Word - bit_left = n
    BY <1>n, <1>1 DEF Flushing
  <2> QED
    BY <1>1, <2>1, <2>2, <2>3, <2>4
<1>4. CASE Writer!Room(8)
  <2> DEFINE h == Writer!High(bit_buf, 8)
             w == Writer!Shifted(bit_buf, 8)
  <2>1. /\ buffer' = buffer \o h /\ bit_buf' = w /\ bit_left' = bit_left + 8 /\ state' = state
    BY <1>4 DEF Writer!FlushByte
  <2>2. bit_buf \in Seq({0, 1}) /\ Len(bit_buf) = Word /\ buffer \in Seq({0, 1})
    BY <1>1 DEF BitKinds
  <2>3. 8 \in 0 .. Word
    BY <1>3
  <2>4. h \in Seq({0, 1}) /\ Len(h) = 8 /\ \A i \in 1 .. 8 : h[i] = bit_buf[i]
    BY <2>2, <2>3, HighAt
  <2>5. /\ w \in Seq({0, 1}) /\ Len(w) = Word
        /\ \A i \in 1 .. Word : w[i] = IF i <= Word - 8 THEN bit_buf[8 + i] ELSE 0
    BY <2>2, <2>3, ShiftedAt
  <2> HIDE DEF h, w
  <2>6. /\ buffer' \in Seq({0, 1}) /\ Len(buffer') = Len(buffer) + 8
        /\ \A i \in 1 .. Len(buffer) + 8 :
             buffer'[i] = IF i <= Len(buffer) THEN buffer[i] ELSE h[i - Len(buffer)]
    <3>1. /\ buffer \o h \in Seq({0, 1})
          /\ Len(buffer \o h) = Len(buffer) + Len(h)
          /\ \A i \in 1 .. Len(buffer) + Len(h) :
               (buffer \o h)[i] = IF i <= Len(buffer) THEN buffer[i] ELSE h[i - Len(buffer)]
      BY <2>2, <2>4, ConcatProperties
    <3> QED
      BY <2>1, <2>4, <3>1
  <2>l. Len(buffer') = Len(buffer) + 8 /\ bit_left' = bit_left + 8
    BY <2>1, <2>6
  <2>7. BitKinds'
    <3>1. Len(buffer') % 8 = 0
      BY <1>3, <2>l
    <3>2. state' \in {"put", "flush", "done", "aborted"}
      BY <1>1, <2>1
    <3>3. /\ job \in Jobs /\ put \in 0 .. Len(job.fields) /\ Writer!Fields \in Seq({0, 1})
      BY <1>1 DEF BitKinds
    <3> QED
      BY <1>1, <1>2, <2>1, <2>5, <2>6, <3>1, <3>2, <3>3, Zenon DEF BitKinds
  <2>w. \A i \in 1 .. Word :
          bit_buf[i] = IF i <= Word - bit_left THEN Writer!Fields[Len(buffer) + i] ELSE 0
    BY <1>1 DEF Flushing
  <2>8. ASSUME NEW i \in 1 .. Len(buffer) + 8
        PROVE  buffer'[i] = IF i <= n THEN Writer!Fields[i] ELSE 0
    <3>1. CASE i <= Len(buffer)
      <4>1. i \in 1 .. Len(buffer)
        BY <1>3, <3>1
      <4>2. buffer[i] = IF i <= n THEN Writer!Fields[i] ELSE 0
        BY <1>1, <1>n, <4>1 DEF Flushing, Stored
      <4> QED
        BY <2>6, <3>1, <4>2
    <3>2. CASE ~(i <= Len(buffer))
      <4> DEFINE j == i - Len(buffer)
      <4>1. j \in 1 .. 8 /\ j \in 1 .. Word /\ Len(buffer) + j = i /\ (j <= Word - bit_left <=> i <= n)
        BY <1>3, <3>2
      <4>2. buffer'[i] = h[j]
        BY <2>6, <3>2
      <4> HIDE DEF j
      <4>3. h[j] = bit_buf[j]
        BY <2>4, <4>1
      <4>4. bit_buf[j] = IF j <= Word - bit_left THEN Writer!Fields[Len(buffer) + j] ELSE 0
        BY <2>w, <4>1
      <4> QED
        BY <4>1, <4>2, <4>3, <4>4
    <3> QED
      BY <3>1, <3>2
  <2>9. Stored'
    BY <1>2, <2>6, <2>8 DEF Stored
  <2>10. ASSUME bit_left' < Word, NEW i \in 1 .. Word
         PROVE  bit_buf'[i] = IF i <= Word - bit_left' THEN Writer!Fields[Len(buffer') + i] ELSE 0
    <3>1. CASE i <= Word - 8
      <4> DEFINE j == 8 + i
      <4>1. /\ j \in 1 .. Word /\ Len(buffer) + j = Len(buffer') + i
            /\ (j <= Word - bit_left <=> i <= Word - bit_left')
        BY <1>3, <2>l, <3>1
      <4>2. bit_buf'[i] = bit_buf[j]
        BY <2>1, <2>5, <3>1
      <4> HIDE DEF j
      <4>3. bit_buf[j] = IF j <= Word - bit_left THEN Writer!Fields[Len(buffer) + j] ELSE 0
        BY <2>w, <4>1
      <4> QED
        BY <4>1, <4>2, <4>3
    <3>2. CASE ~(i <= Word - 8)
      <4>1. ~(i <= Word - bit_left')
        BY <1>3, <2>l, <3>2
      <4> QED
        BY <2>1, <2>5, <3>2, <4>1
    <3> QED
      BY <3>1, <3>2
  <2>11. Flushing'
    <3>1. bit_left' \in 1 .. Word + 7 /\ Len(buffer') + Word - bit_left' = n
      BY <1>3, <2>l
    <3>2. put' = Len(job'.fields)
      BY <1>1 DEF Flushing
    <3> QED
      BY <1>2, <2>9, <2>10, <3>1, <3>2 DEF Flushing
  <2> QED
    BY <1>1, <2>1, <2>7, <2>11 DEF BitInv
<1>5. CASE ~Writer!Room(8)
  <2>1. state' = "aborted" /\ UNCHANGED <<buffer, bit_buf, bit_left>>
    BY <1>5 DEF Writer!FlushByte
  <2>2. ~(Len(buffer) + 8 <= 8 * job.bytes)
    BY <1>5 DEF Writer!Room
  <2>3. job.bytes \in Nat
    BY <1>1, WriterConstants DEF BitKinds
  <2>4. n > 8 * job.bytes
    BY <1>3, <2>2, <2>3
  <2>5. BitKinds'
    <3>1. state' \in {"put", "flush", "done", "aborted"}
      BY <2>1
    <3> QED
      BY <1>1, <1>2, <2>1, <3>1, Zenon DEF BitKinds
  <2> QED
    BY <1>1, <1>2, <2>1, <2>4, <2>5 DEF BitInv
<1> QED
  BY <1>4, <1>5

LEMMA EndFlushStep ==
  ASSUME BitInv, Writer!EndFlush
  PROVE  BitInv'
<1>1. /\ BitKinds /\ Flushing /\ state = "flush" /\ bit_left >= Word
      /\ state' = "done" /\ bit_buf' = Writer!Zeros(Word) /\ UNCHANGED <<job, put, buffer>>
  BY DEF BitInv, Writer!EndFlush
<1>2. Writer!Fields' = Writer!Fields
  BY <1>1, FieldsStay
<1>3. bit_buf' \in Seq({0, 1}) /\ Len(bit_buf') = Word
  BY <1>1, WriterConstants, ZerosAt
<1>4. BitKinds'
  <2>1. state' \in {"put", "flush", "done", "aborted"}
    BY <1>1
  <2> QED
    BY <1>1, <1>2, <1>3, <2>1, Zenon DEF BitKinds
<1>5. Len(buffer) - Len(Writer!Fields) \in 0 .. 7
  <2>1. Len(buffer) \in Nat /\ Len(Writer!Fields) \in Nat
    BY <1>1, LenProperties DEF BitKinds
  <2>2. bit_left \in 1 .. Word + 7 /\ Len(buffer) + Word - bit_left = Len(Writer!Fields)
    BY <1>1 DEF Flushing
  <2>3. Word \in Nat /\ bit_left >= Word
    BY <1>1, WriterConstants
  <2> QED
    BY <2>1, <2>2, <2>3
<1>6. Written'
  <2>1. Stored /\ put = Len(job.fields)
    BY <1>1 DEF Flushing
  <2>2. Stored'
    BY <1>1, <1>2, <2>1, Zenon DEF Stored
  <2> QED
    BY <1>1, <1>2, <1>5, <2>1, <2>2 DEF Written
<1> QED
  BY <1>1, <1>4, <1>6 DEF BitInv

LEMMA BitInit == Writer!Init => BitInv
<1> SUFFICES ASSUME Writer!Init PROVE BitInv
  OBVIOUS
<1>1. /\ job \in Jobs /\ put = 0 /\ state = "put"
      /\ bit_buf = Writer!Zeros(Word) /\ bit_left = Word /\ buffer = <<>>
  BY DEF Writer!Init
<1>2. Writer!Fields = <<>>
  <2>1. job.fields \in Seq(Seq({0, 1}))
    BY <1>1, WriterConstants
  <2> QED
    BY <1>1, <2>1, FlattenNone DEF Writer!Fields
<1>3. BitKinds
  <2>1. bit_buf \in Seq({0, 1}) /\ Len(bit_buf) = Word
    BY <1>1, WriterConstants, ZerosAt
  <2>2. Len(job.fields) \in Nat
    BY <1>1, WriterConstants, LenProperties
  <2> QED
    BY <1>1, <1>2, <2>1, <2>2 DEF BitKinds
<1>4. Putting
  <2>1. Len(buffer) = 0 /\ Len(Writer!Fields) = 0 /\ Word \in Nat /\ Word > 0
    BY <1>1, <1>2, WriterConstants
  <2>2. Stored
    BY <2>1 DEF Stored
  <2>3. \A i \in 1 .. Word - bit_left : FALSE
    BY <1>1, <2>1
  <2> QED
    BY <1>1, <2>1, <2>2, <2>3 DEF Putting
<1> QED
  BY <1>1, <1>3, <1>4 DEF BitInv

LEMMA BitStep == BitInv /\ [Writer!Next]_writerVars => BitInv'
<1> SUFFICES ASSUME BitInv, [Writer!Next]_writerVars PROVE BitInv'
  OBVIOUS
<1>1. CASE UNCHANGED writerVars
  <2>1. UNCHANGED <<job, put, bit_buf, bit_left, buffer, state>>
    BY <1>1 DEF writerVars
  <2>2. Writer!Fields' = Writer!Fields
    BY <2>1, FieldsStay
  <2>3. (BitKinds' <=> BitKinds) /\ (Stored' <=> Stored)
    BY <2>1, <2>2, Zenon DEF BitKinds, Stored
  <2> QED
    BY <2>1, <2>2, <2>3, Zenon DEF BitInv, Putting, Flushing, Written
<1>2. CASE Writer!put_bits
  BY <1>2, KeepStep, StoreStep, TooSmallStep DEF Writer!put_bits
<1>3. CASE Writer!flush_put_bits
  BY <1>3, StartFlushStep, FlushByteStep, EndFlushStep DEF Writer!flush_put_bits
<1> QED
  BY <1>1, <1>2, <1>3 DEF Writer!Next

LEMMA BitsKept == BitInv => Writer!NothingLost /\ Writer!WholeStream
<1> SUFFICES ASSUME BitInv PROVE Writer!NothingLost /\ Writer!WholeStream
  OBVIOUS
<1>0. /\ BitKinds /\ Word \in Nat
      /\ Len(buffer) \in Nat /\ Len(Writer!Fields) \in Nat /\ Len(buffer) % 8 = 0
  BY WriterConstants, LenProperties DEF BitInv, BitKinds
<1>n. PICK n : n = Len(Writer!Fields)
  OBVIOUS
<1>1. ASSUME state = "put"
      PROVE  buffer \o SubSeq(bit_buf, bit_left + 1, Word) = Writer!Fields
  <2> DEFINE w == SubSeq(bit_buf, bit_left + 1, Word)
  <2>1. Putting
    BY <1>1 DEF BitInv
  <2>2. bit_left \in Nat /\ 1 <= bit_left /\ bit_left <= Word /\ Len(buffer) + Word - bit_left = n
    BY <1>0, <1>n, <2>1 DEF Putting
  <2>3. \A i \in bit_left + 1 .. Word : bit_buf[i] \in {0, 1}
    BY <1>0, <2>2, ElementOfSeq DEF BitKinds
  <2>4. /\ w \in Seq({0, 1}) /\ Len(w) = Word - bit_left
        /\ \A i \in 1 .. Word - bit_left : w[i] = bit_buf[bit_left + i]
    <3>1. bit_left + 1 \in Int /\ Word \in Int
      BY <1>0, <2>2
    <3>2. /\ w \in Seq({0, 1})
          /\ Len(w) = IF bit_left + 1 <= Word THEN Word - (bit_left + 1) + 1 ELSE 0
          /\ \A i \in 1 .. Word - (bit_left + 1) + 1 : w[i] = bit_buf[bit_left + 1 + i - 1]
      BY <2>3, <3>1, SubSeqProperties
    <3> HIDE DEF w
    <3> QED
      BY <1>0, <2>2, <3>2
  <2> HIDE DEF w
  <2>5. /\ buffer \o w \in Seq({0, 1})
        /\ Len(buffer \o w) = Len(buffer) + Len(w)
        /\ \A i \in 1 .. Len(buffer) + Len(w) :
             (buffer \o w)[i] = IF i <= Len(buffer) THEN buffer[i] ELSE w[i - Len(buffer)]
    BY <1>0, <2>4, ConcatProperties DEF BitKinds
  <2>6. Len(buffer) + Len(w) = n
    BY <1>0, <2>2, <2>4
  <2>7. ASSUME NEW i \in 1 .. n
        PROVE  (buffer \o w)[i] = Writer!Fields[i]
    <3>1. CASE i <= Len(buffer)
      <4>1. i \in 1 .. Len(buffer)
        BY <1>0, <3>1
      <4>2. buffer[i] = Writer!Fields[i]
        BY <1>n, <2>1, <4>1 DEF Putting, Stored
      <4> QED
        BY <2>5, <2>6, <3>1, <4>2
    <3>2. CASE ~(i <= Len(buffer))
      <4> DEFINE j == i - Len(buffer)
      <4>1. j \in 1 .. Word - bit_left /\ Len(buffer) + j = i
        BY <1>0, <2>2, <3>2
      <4>2. (buffer \o w)[i] = w[j]
        BY <2>5, <2>6, <3>2
      <4> HIDE DEF j
      <4>3. w[j] = Writer!Fields[i]
        BY <2>1, <2>4, <4>1 DEF Putting
      <4> QED
        BY <4>2, <4>3
    <3> QED
      BY <3>1, <3>2
  <2>8. buffer \o w = Writer!Fields
    BY <1>0, <1>n, <2>5, <2>6, <2>7, SeqEqual DEF BitKinds
  <2> QED
    BY <2>8 DEF w
<1>2. ASSUME state = "done"
      PROVE  buffer = Writer!Fields \o Writer!Zeros((8 - (Len(Writer!Fields) % 8)) % 8)
  <2> DEFINE p == (8 - (n % 8)) % 8
             z == Writer!Zeros(p)
             f == Writer!Fields
  <2>1. Written
    BY <1>2 DEF BitInv
  <2>2. Len(buffer) - n \in 0 .. 7 /\ n \in Nat
    BY <1>0, <1>n, <2>1 DEF Written
  <2>3. p \in Nat /\ Len(buffer) = n + p
    BY <1>0, <2>2
  <2>4. z \in Seq({0, 1}) /\ Len(z) = p /\ \A i \in 1 .. p : z[i] = 0
    BY <2>3, ZerosAt
  <2>5. f \in Seq({0, 1}) /\ Len(f) = n
    BY <1>0, <1>n DEF BitKinds
  <2>s. \A i \in 1 .. Len(buffer) : buffer[i] = IF i <= n THEN f[i] ELSE 0
    BY <1>n, <2>1 DEF Written, Stored
  <2> HIDE DEF p, z, f
  <2>6. /\ f \o z \in Seq({0, 1})
        /\ Len(f \o z) = Len(f) + Len(z)
        /\ \A i \in 1 .. Len(f) + Len(z) :
             (f \o z)[i] = IF i <= Len(f) THEN f[i] ELSE z[i - Len(f)]
    BY <2>4, <2>5, ConcatProperties
  <2>7. ASSUME NEW i \in 1 .. Len(buffer)
        PROVE  buffer[i] = (f \o z)[i]
    <3>1. CASE i <= n
      BY <2>2, <2>3, <2>4, <2>5, <2>6, <2>s, <3>1
    <3>2. CASE ~(i <= n)
      <4>1. i - n \in 1 .. p /\ i \in 1 .. Len(f) + Len(z)
        BY <2>2, <2>3, <2>4, <2>5, <3>2
      <4> QED
        BY <2>4, <2>5, <2>6, <2>s, <3>2, <4>1
    <3> QED
      BY <3>1, <3>2
  <2>8. Len(f \o z) = Len(buffer)
    BY <2>3, <2>4, <2>5, <2>6
  <2>9. buffer = f \o z
    BY <1>0, <2>6, <2>7, <2>8, SeqEqual DEF BitKinds
  <2> QED
    BY <1>n, <2>9 DEF p, z, f
<1> QED
  BY <1>1, <1>2 DEF Writer!NothingLost, Writer!WholeStream

-------------------------------------------------------------------------------
(* The header of a frame of l bytes, bit by bit, and that both ways to     *)
(* write it give these bits.                                               *)

\* The bit of weight 2 ^ j.
Bit(x, j) == (x \div 2 ^ j) % 2

HeaderBits(l) ==
  << 1, 1, 1, 1, 1, 1, 1, 1, 1, 1, 1, 1, 0, 0, 0, 1, 0, 1, 0, 1, 0, 0, 0, 0, 1, 0, 0, 0,
     0, 0, Bit(l, 12), Bit(l, 11), Bit(l, 10), Bit(l, 9), Bit(l, 8), Bit(l, 7), Bit(l, 6),
     Bit(l, 5), Bit(l, 4), Bit(l, 3), Bit(l, 2), Bit(l, 1), Bit(l, 0), 1,
     1, 1, 1, 1, 1, 1, 1, 1, 1, 1, 0, 0 >>
IsHeader(h, l) == h = HeaderBits(l)

\* The first k sequences of s, joined, are the first o bits of h.
BeginsWith(h, s, k, o) ==
  LET f == Writer!FlattenSeq(SubSeq(s, 1, k)) IN
  /\ f \in Seq({0, 1}) /\ Len(f) = o
  /\ \A i \in 1 .. o : f[i] = h[i]

\* The sequence at p, behind k others, has m elements, which end at q; they are those of h.
Adds(s, k, o, m, p, q) ==
  /\ s \in Seq(Seq({0, 1})) /\ k \in Nat /\ o \in Nat /\ m \in Nat
  /\ k < Len(s) /\ p = k + 1 /\ q = o + m
Fits(h, s, p, o, m) == Len(s[p]) = m /\ \A j \in 1 .. m : s[p][j] = h[o + j]

LEMMA BeginsNext ==
  ASSUME NEW h, NEW s, NEW k, NEW o, NEW m, NEW p, NEW q,
         BeginsWith(h, s, k, o), Adds(s, k, o, m, p, q), Fits(h, s, p, o, m)
  PROVE  BeginsWith(h, s, p, q)
<1>0. /\ s \in Seq(Seq({0, 1})) /\ k \in Nat /\ o \in Nat /\ m \in Nat
      /\ k < Len(s) /\ p = k + 1 /\ q = o + m
      /\ Len(s[p]) = m /\ \A j \in 1 .. m : s[p][j] = h[o + j]
  BY DEF Adds, Fits
<1> DEFINE f == Writer!FlattenSeq(SubSeq(s, 1, k))
           v == s[k + 1]
<1>1. f \in Seq({0, 1}) /\ Len(f) = o /\ \A i \in 1 .. o : f[i] = h[i]
  BY DEF BeginsWith
<1>2. v \in Seq({0, 1}) /\ Len(v) = m /\ \A j \in 1 .. m : v[j] = h[o + j]
  BY <1>0, ElementOfSeq
<1>3. Writer!FlattenSeq(SubSeq(s, 1, k + 1)) = f \o v
  BY <1>0, FlattenOneMore
<1> HIDE DEF f, v
<1>4. /\ f \o v \in Seq({0, 1})
      /\ Len(f \o v) = Len(f) + Len(v)
      /\ \A i \in 1 .. Len(f) + Len(v) : (f \o v)[i] = IF i <= Len(f) THEN f[i] ELSE v[i - Len(f)]
  BY <1>0, <1>1, <1>2, ConcatProperties, ZenonT(60)
<1>5. ASSUME NEW i \in 1 .. o + m
      PROVE  (f \o v)[i] = h[i]
  <2>1. CASE i <= o
    BY <1>0, <1>1, <1>2, <1>4, <2>1
  <2>2. CASE ~(i <= o)
    <3>1. i - o \in 1 .. m /\ o + (i - o) = i
      BY <1>0, <2>2
    <3>2. (f \o v)[i] = v[i - o]
      BY <1>0, <1>1, <1>2, <1>4, <2>2
    <3> QED
      BY <1>2, <3>1, <3>2
  <2> QED
    BY <2>1, <2>2
<1> QED
  BY <1>0, <1>1, <1>2, <1>3, <1>4, <1>5 DEF BeginsWith

LEMMA Powers ==
  /\ 2 ^ 0 = 1 /\ 2 ^ 1 = 2 /\ 2 ^ 2 = 4 /\ 2 ^ 3 = 8 /\ 2 ^ 4 = 16 /\ 2 ^ 5 = 32 /\ 2 ^ 6 = 64
  /\ 2 ^ 7 = 128 /\ 2 ^ 8 = 256 /\ 2 ^ 9 = 512 /\ 2 ^ 10 = 1024 /\ 2 ^ 11 = 2048 /\ 2 ^ 12 = 4096
  OBVIOUS

LEMMA BitsAt ==
  \A n \in Nat : \A x : /\ Len(Writer!Bits(n, x)) = n
                      /\ \A i \in 1 .. n : Writer!Bits(n, x)[i] = Bit(x, n - i)
  BY DEF Writer!Bits, Bit

LEMMA BitKind ==
  ASSUME NEW x \in Nat, NEW k \in 0 .. 12
  PROVE  Bit(x, k) \in {0, 1}
<1>1. \/ k = 0 \/ k = 1 \/ k = 2 \/ k = 3 \/ k = 4 \/ k = 5 \/ k = 6
      \/ k = 7 \/ k = 8 \/ k = 9 \/ k = 10 \/ k = 11 \/ k = 12
  OBVIOUS
<1>2. 2 ^ k \in Nat \ {0}
  <2>0. CASE k = 0
    BY <2>0, Powers
  <2>1. CASE k = 1
    BY <2>1, Powers
  <2>2. CASE k = 2
    BY <2>2, Powers
  <2>3. CASE k = 3
    BY <2>3, Powers
  <2>4. CASE k = 4
    BY <2>4, Powers
  <2>5. CASE k = 5
    BY <2>5, Powers
  <2>6. CASE k = 6
    BY <2>6, Powers
  <2>7. CASE k = 7
    BY <2>7, Powers
  <2>8. CASE k = 8
    BY <2>8, Powers
  <2>9. CASE k = 9
    BY <2>9, Powers
  <2>10. CASE k = 10
    BY <2>10, Powers
  <2>11. CASE k = 11
    BY <2>11, Powers
  <2>12. CASE k = 12
    BY <2>12, Powers
  <2> QED
    BY <1>1, <2>0, <2>1, <2>2, <2>3, <2>4, <2>5, <2>6, <2>7, <2>8, <2>9, <2>10, <2>11, <2>12
<1> QED
  BY <1>2 DEF Bit

LEMMA BitsKind ==
  ASSUME NEW n \in 1 .. 13, NEW x \in Nat
  PROVE  Writer!Bits(n, x) \in Seq({0, 1})
<1>1. \A i \in 1 .. n : n - i \in 0 .. 12
  OBVIOUS
<1>2. \A i \in 1 .. n : Bit(x, n - i) \in {0, 1}
  BY <1>1, BitKind
<1>3. Writer!Bits(n, x) = [i \in 1 .. n |-> Bit(x, n - i)]
  BY DEF Writer!Bits, Bit
<1> HIDE DEF Bit
<1> QED
  BY <1>2, <1>3

LEMMA FixedFields ==
  /\ Writer!Bits(12, 4095) = <<1, 1, 1, 1, 1, 1, 1, 1, 1, 1, 1, 1>>
  /\ Writer!Bits(1, 0) = <<0>>
  /\ Writer!Bits(2, 0) = <<0, 0>>
  /\ Writer!Bits(1, 1) = <<1>>
  /\ Writer!Bits(2, 1) = <<0, 1>>
  /\ Writer!Bits(4, 4) = <<0, 1, 0, 0>>
  /\ Writer!Bits(3, 2) = <<0, 1, 0>>
  /\ Writer!Bits(11, 2047) = <<1, 1, 1, 1, 1, 1, 1, 1, 1, 1, 1>>
  /\ Writer!Bits(8, 255) = <<1, 1, 1, 1, 1, 1, 1, 1>>
  /\ Writer!Bits(8, 241) = <<1, 1, 1, 1, 0, 0, 0, 1>>
  /\ Writer!Bits(8, 80) = <<0, 1, 0, 1, 0, 0, 0, 0>>
  /\ Writer!Bits(8, 252) = <<1, 1, 1, 1, 1, 1, 0, 0>>
<1>1. Writer!Bits(12, 4095) = <<1, 1, 1, 1, 1, 1, 1, 1, 1, 1, 1, 1>>
  BY Powers DEF Writer!Bits
<1>2. Writer!Bits(1, 0) = <<0>>
  BY Powers DEF Writer!Bits
<1>3. Writer!Bits(2, 0) = <<0, 0>>
  BY Powers DEF Writer!Bits
<1>4. Writer!Bits(1, 1) = <<1>>
  BY Powers DEF Writer!Bits
<1>5. Writer!Bits(2, 1) = <<0, 1>>
  BY Powers DEF Writer!Bits
<1>6. Writer!Bits(4, 4) = <<0, 1, 0, 0>>
  BY Powers DEF Writer!Bits
<1>7. Writer!Bits(3, 2) = <<0, 1, 0>>
  BY Powers DEF Writer!Bits
<1>8. Writer!Bits(11, 2047) = <<1, 1, 1, 1, 1, 1, 1, 1, 1, 1, 1>>
  BY Powers DEF Writer!Bits
<1>9. Writer!Bits(8, 255) = <<1, 1, 1, 1, 1, 1, 1, 1>>
  BY Powers DEF Writer!Bits
<1>10. Writer!Bits(8, 241) = <<1, 1, 1, 1, 0, 0, 0, 1>>
  BY Powers DEF Writer!Bits
<1>11. Writer!Bits(8, 80) = <<0, 1, 0, 1, 0, 0, 0, 0>>
  BY Powers DEF Writer!Bits
<1>12. Writer!Bits(8, 252) = <<1, 1, 1, 1, 1, 1, 0, 0>>
  BY Powers DEF Writer!Bits
<1> QED
  BY <1>1, <1>2, <1>3, <1>4, <1>5, <1>6, <1>7, <1>8, <1>9, <1>10, <1>11, <1>12

AdtsFields(s, n) == s = Writer!add_adts_header(n, 0)

LEMMA FieldsAreHeader ==
  ASSUME NEW n \in Nat, NEW l \in Nat, l = 7 + n, NEW s, AdtsFields(s, n),
         NEW h, IsHeader(h, l)
  PROVE  /\ s \in Seq(Seq({0, 1})) /\ Len(s) = 15
         /\ \A k \in 0 .. 15 : \E o \in 0 .. 56 : BeginsWith(h, s, k, o)
         /\ BeginsWith(h, s, 15, 56)
<1>1. 7 + n + 0 = l
  OBVIOUS
<1>2. s = << Writer!Bits(12, 4095), Writer!Bits(1, 0), Writer!Bits(2, 0), Writer!Bits(1, 1),
             Writer!Bits(2, 1), Writer!Bits(4, 4), Writer!Bits(1, 0), Writer!Bits(3, 2),
             Writer!Bits(1, 0), Writer!Bits(1, 0), Writer!Bits(1, 0), Writer!Bits(1, 0),
             Writer!Bits(13, l), Writer!Bits(11, 2047), Writer!Bits(2, 0) >>
  BY <1>1 DEF AdtsFields, Writer!add_adts_header
<1>3. /\ Writer!Bits(12, 4095) \in Seq({0, 1})
      /\ Writer!Bits(1, 0) \in Seq({0, 1})
      /\ Writer!Bits(2, 0) \in Seq({0, 1})
      /\ Writer!Bits(1, 1) \in Seq({0, 1})
      /\ Writer!Bits(2, 1) \in Seq({0, 1})
      /\ Writer!Bits(4, 4) \in Seq({0, 1})
      /\ Writer!Bits(3, 2) \in Seq({0, 1})
      /\ Writer!Bits(11, 2047) \in Seq({0, 1})
      /\ Writer!Bits(13, l) \in Seq({0, 1})
  <2>1. Writer!Bits(12, 4095) \in Seq({0, 1})
    <3>1. 12 \in 1 .. 13 /\ 4095 \in Nat
      OBVIOUS
    <3> QED
      BY <3>1, BitsKind
  <2>2. Writer!Bits(1, 0) \in Seq({0, 1})
    <3>1. 1 \in 1 .. 13 /\ 0 \in Nat
      OBVIOUS
    <3> QED
      BY <3>1, BitsKind, Zenon
  <2>3. Writer!Bits(2, 0) \in Seq({0, 1})
    <3>1. 2 \in 1 .. 13 /\ 0 \in Nat
      OBVIOUS
    <3> QED
      BY <3>1, BitsKind, Zenon
  <2>4. Writer!Bits(1, 1) \in Seq({0, 1})
    <3>1. 1 \in 1 .. 13 /\ 1 \in Nat
      OBVIOUS
    <3> QED
      BY <3>1, BitsKind, Zenon
  <2>5. Writer!Bits(2, 1) \in Seq({0, 1})
    <3>1. 2 \in 1 .. 13 /\ 1 \in Nat
      OBVIOUS
    <3> QED
      BY <3>1, BitsKind, Zenon
  <2>6. Writer!Bits(4, 4) \in Seq({0, 1})
    <3>1. 4 \in 1 .. 13 /\ 4 \in Nat
      OBVIOUS
    <3> QED
      BY <3>1, BitsKind, Zenon
  <2>7. Writer!Bits(3, 2) \in Seq({0, 1})
    <3>1. 3 \in 1 .. 13 /\ 2 \in Nat
      OBVIOUS
    <3> QED
      BY <3>1, BitsKind, Zenon
  <2>8. Writer!Bits(11, 2047) \in Seq({0, 1})
    <3>1. 11 \in 1 .. 13 /\ 2047 \in Nat
      OBVIOUS
    <3> QED
      BY <3>1, BitsKind
  <2>9. Writer!Bits(13, l) \in Seq({0, 1})
    <3>1. 13 \in 1 .. 13 /\ l \in Nat
      OBVIOUS
    <3> QED
      BY <3>1, BitsKind
  <2> QED
    BY <2>1, <2>2, <2>3, <2>4, <2>5, <2>6, <2>7, <2>8, <2>9
<1>4. Len(s) = 15
  BY <1>2
<1>5. s \in Seq(Seq({0, 1})) /\ Len(s) = 15
  BY <1>2, <1>3, <1>4
<1>6. BeginsWith(h, s, 0, 0)
  <2>1. Writer!FlattenSeq(SubSeq(s, 1, 0)) = <<>>
    BY <1>5, FlattenNone
  <2>2. <<>> \in Seq({0, 1}) /\ Len(<<>>) = 0
    OBVIOUS
  <2>3. \A i \in 1 .. 0 : FALSE
    OBVIOUS
  <2> QED
    BY <2>1, <2>2, <2>3, Zenon DEF BeginsWith
<1>7. BeginsWith(h, s, 1, 12)
  <2>1. s[1] = Writer!Bits(12, 4095)
    BY <1>2
  <2>2. Len(s[1]) = 12 /\ \A j \in 1 .. 12 : s[1][j] = h[0 + j]
    BY <2>1, FixedFields DEF IsHeader, HeaderBits
  <2>3. Adds(s, 0, 0, 12, 1, 12)
    BY <1>5 DEF Adds
  <2>4. Fits(h, s, 1, 0, 12)
    BY <2>2, Zenon DEF Fits
  <2> QED
    BY <1>6, <2>3, <2>4, BeginsNext
<1>8. BeginsWith(h, s, 2, 13)
  <2>1. s[2] = Writer!Bits(1, 0)
    BY <1>2
  <2>2. Len(s[2]) = 1 /\ \A j \in 1 .. 1 : s[2][j] = h[12 + j]
    BY <2>1, FixedFields DEF IsHeader, HeaderBits
  <2>3. Adds(s, 1, 12, 1, 2, 13)
    BY <1>5 DEF Adds
  <2>4. Fits(h, s, 2, 12, 1)
    BY <2>2, Zenon DEF Fits
  <2> QED
    BY <1>7, <2>3, <2>4, BeginsNext
<1>9. BeginsWith(h, s, 3, 15)
  <2>1. s[3] = Writer!Bits(2, 0)
    BY <1>2
  <2>2. Len(s[3]) = 2 /\ \A j \in 1 .. 2 : s[3][j] = h[13 + j]
    BY <2>1, FixedFields DEF IsHeader, HeaderBits
  <2>3. Adds(s, 2, 13, 2, 3, 15)
    BY <1>5 DEF Adds
  <2>4. Fits(h, s, 3, 13, 2)
    BY <2>2, Zenon DEF Fits
  <2> QED
    BY <1>8, <2>3, <2>4, BeginsNext
<1>10. BeginsWith(h, s, 4, 16)
  <2>1. s[4] = Writer!Bits(1, 1)
    BY <1>2
  <2>2. Len(s[4]) = 1 /\ \A j \in 1 .. 1 : s[4][j] = h[15 + j]
    BY <2>1, FixedFields DEF IsHeader, HeaderBits
  <2>3. Adds(s, 3, 15, 1, 4, 16)
    BY <1>5 DEF Adds
  <2>4. Fits(h, s, 4, 15, 1)
    BY <2>2, Zenon DEF Fits
  <2> QED
    BY <1>9, <2>3, <2>4, BeginsNext
<1>11. BeginsWith(h, s, 5, 18)
  <2>1. s[5] = Writer!Bits(2, 1)
    BY <1>2
  <2>2. Len(s[5]) = 2 /\ \A j \in 1 .. 2 : s[5][j] = h[16 + j]
    BY <2>1, FixedFields DEF IsHeader, HeaderBits
  <2>3. Adds(s, 4, 16, 2, 5, 18)
    BY <1>5 DEF Adds
  <2>4. Fits(h, s, 5, 16, 2)
    BY <2>2, Zenon DEF Fits
  <2> QED
    BY <1>10, <2>3, <2>4, BeginsNext
<1>12. BeginsWith(h, s, 6, 22)
  <2>1. s[6] = Writer!Bits(4, 4)
    BY <1>2
  <2>2. Len(s[6]) = 4 /\ \A j \in 1 .. 4 : s[6][j] = h[18 + j]
    BY <2>1, FixedFields DEF IsHeader, HeaderBits
  <2>3. Adds(s, 5, 18, 4, 6, 22)
    BY <1>5 DEF Adds
  <2>4. Fits(h, s, 6, 18, 4)
    BY <2>2, Zenon DEF Fits
  <2> QED
    BY <1>11, <2>3, <2>4, BeginsNext
<1>13. BeginsWith(h, s, 7, 23)
  <2>1. s[7] = Writer!Bits(1, 0)
    BY <1>2
  <2>2. Len(s[7]) = 1 /\ \A j \in 1 .. 1 : s[7][j] = h[22 + j]
    BY <2>1, FixedFields DEF IsHeader, HeaderBits
  <2>3. Adds(s, 6, 22, 1, 7, 23)
    BY <1>5 DEF Adds
  <2>4. Fits(h, s, 7, 22, 1)
    BY <2>2, Zenon DEF Fits
  <2> QED
    BY <1>12, <2>3, <2>4, BeginsNext
<1>14. BeginsWith(h, s, 8, 26)
  <2>1. s[8] = Writer!Bits(3, 2)
    BY <1>2
  <2>2. Len(s[8]) = 3 /\ \A j \in 1 .. 3 : s[8][j] = h[23 + j]
    BY <2>1, FixedFields DEF IsHeader, HeaderBits
  <2>3. Adds(s, 7, 23, 3, 8, 26)
    BY <1>5 DEF Adds
  <2>4. Fits(h, s, 8, 23, 3)
    BY <2>2, Zenon DEF Fits
  <2> QED
    BY <1>13, <2>3, <2>4, BeginsNext
<1>15. BeginsWith(h, s, 9, 27)
  <2>1. s[9] = Writer!Bits(1, 0)
    BY <1>2
  <2>2. Len(s[9]) = 1 /\ \A j \in 1 .. 1 : s[9][j] = h[26 + j]
    BY <2>1, FixedFields DEF IsHeader, HeaderBits
  <2>3. Adds(s, 8, 26, 1, 9, 27)
    BY <1>5 DEF Adds
  <2>4. Fits(h, s, 9, 26, 1)
    BY <2>2, Zenon DEF Fits
  <2> QED
    BY <1>14, <2>3, <2>4, BeginsNext
<1>16. BeginsWith(h, s, 10, 28)
  <2>1. s[10] = Writer!Bits(1, 0)
    BY <1>2
  <2>2. Len(s[10]) = 1 /\ \A j \in 1 .. 1 : s[10][j] = h[27 + j]
    BY <2>1, FixedFields DEF IsHeader, HeaderBits
  <2>3. Adds(s, 9, 27, 1, 10, 28)
    BY <1>5 DEF Adds
  <2>4. Fits(h, s, 10, 27, 1)
    BY <2>2, Zenon DEF Fits
  <2> QED
    BY <1>15, <2>3, <2>4, BeginsNext
<1>17. BeginsWith(h, s, 11, 29)
  <2>1. s[11] = Writer!Bits(1, 0)
    BY <1>2
  <2>2. Len(s[11]) = 1 /\ \A j \in 1 .. 1 : s[11][j] = h[28 + j]
    BY <2>1, FixedFields DEF IsHeader, HeaderBits
  <2>3. Adds(s, 10, 28, 1, 11, 29)
    BY <1>5 DEF Adds
  <2>4. Fits(h, s, 11, 28, 1)
    BY <2>2, Zenon DEF Fits
  <2> QED
    BY <1>16, <2>3, <2>4, BeginsNext
<1>18. BeginsWith(h, s, 12, 30)
  <2>1. s[12] = Writer!Bits(1, 0)
    BY <1>2
  <2>2. Len(s[12]) = 1 /\ \A j \in 1 .. 1 : s[12][j] = h[29 + j]
    BY <2>1, FixedFields DEF IsHeader, HeaderBits
  <2>3. Adds(s, 11, 29, 1, 12, 30)
    BY <1>5 DEF Adds
  <2>4. Fits(h, s, 12, 29, 1)
    BY <2>2, Zenon DEF Fits
  <2> QED
    BY <1>17, <2>3, <2>4, BeginsNext
<1>19. BeginsWith(h, s, 13, 43)
  <2>1. s[13] = Writer!Bits(13, l)
    BY <1>2
  <2>2. Len(s[13]) = 13 /\ \A j \in 1 .. 13 : s[13][j] = h[30 + j]
    <3>0. 13 \in Nat
      OBVIOUS
    <3>x. \A x : /\ Len(Writer!Bits(13, x)) = 13
                 /\ \A j \in 1 .. 13 : Writer!Bits(13, x)[j] = Bit(x, 13 - j)
      BY <3>0, BitsAt
    <3>1. Len(s[13]) = 13 /\ \A j \in 1 .. 13 : s[13][j] = Bit(l, 13 - j)
      BY <2>1, <3>x, Zenon
    <3>2. \A j \in 1 .. 13 : h[30 + j] = Bit(l, 13 - j)
      BY DEF IsHeader, HeaderBits
    <3> QED
      BY <3>1, <3>2
  <2>3. Adds(s, 12, 30, 13, 13, 43)
    BY <1>5 DEF Adds
  <2>4. Fits(h, s, 13, 30, 13)
    BY <2>2, Zenon DEF Fits
  <2> QED
    BY <1>18, <2>3, <2>4, BeginsNext
<1>20. BeginsWith(h, s, 14, 54)
  <2>1. s[14] = Writer!Bits(11, 2047)
    BY <1>2
  <2>2. Len(s[14]) = 11 /\ \A j \in 1 .. 11 : s[14][j] = h[43 + j]
    BY <2>1, FixedFields DEF IsHeader, HeaderBits
  <2>3. Adds(s, 13, 43, 11, 14, 54)
    BY <1>5 DEF Adds
  <2>4. Fits(h, s, 14, 43, 11)
    BY <2>2, Zenon DEF Fits
  <2> QED
    BY <1>19, <2>3, <2>4, BeginsNext
<1>21. BeginsWith(h, s, 15, 56)
  <2>1. s[15] = Writer!Bits(2, 0)
    BY <1>2
  <2>2. Len(s[15]) = 2 /\ \A j \in 1 .. 2 : s[15][j] = h[54 + j]
    BY <2>1, FixedFields DEF IsHeader, HeaderBits
  <2>3. Adds(s, 14, 54, 2, 15, 56)
    BY <1>5 DEF Adds
  <2>4. Fits(h, s, 15, 54, 2)
    BY <2>2, Zenon DEF Fits
  <2> QED
    BY <1>20, <2>3, <2>4, BeginsNext
<1> DEFINE Short(k) == \E o \in 0 .. 56 : BeginsWith(h, s, k, o)
<1>s. /\ Short(0) /\ Short(1) /\ Short(2) /\ Short(3) /\ Short(4) /\ Short(5) /\ Short(6) /\ Short(7)
      /\ Short(8) /\ Short(9) /\ Short(10) /\ Short(11) /\ Short(12) /\ Short(13) /\ Short(14) /\ Short(15)
  <2>1. \A o \in {0, 12, 13, 15, 16, 18, 22, 23, 26, 27, 28, 29, 30, 43, 54, 56} : o \in 0 .. 56
    OBVIOUS
  <2>2. Short(0)
    BY <1>6, <2>1, Zenon
  <2>3. Short(1)
    BY <1>7, <2>1, Zenon
  <2>4. Short(2)
    BY <1>8, <2>1, Zenon
  <2>5. Short(3)
    BY <1>9, <2>1, Zenon
  <2>6. Short(4)
    BY <1>10, <2>1, Zenon
  <2>7. Short(5)
    BY <1>11, <2>1, Zenon
  <2>8. Short(6)
    BY <1>12, <2>1, Zenon
  <2>9. Short(7)
    BY <1>13, <2>1, Zenon
  <2>10. Short(8)
    BY <1>14, <2>1, Zenon
  <2>11. Short(9)
    BY <1>15, <2>1, Zenon
  <2>12. Short(10)
    BY <1>16, <2>1, Zenon
  <2>13. Short(11)
    BY <1>17, <2>1, Zenon
  <2>14. Short(12)
    BY <1>18, <2>1, Zenon
  <2>15. Short(13)
    BY <1>19, <2>1, Zenon
  <2>16. Short(14)
    BY <1>20, <2>1, Zenon
  <2>17. Short(15)
    BY <1>21, <2>1, Zenon
  <2> QED
    BY <2>2, <2>3, <2>4, <2>5, <2>6, <2>7, <2>8, <2>9, <2>10, <2>11, <2>12, <2>13, <2>14, <2>15, <2>16, <2>17, Zenon
<1> HIDE DEF Short
<1>e. \A k \in 0 .. 15 : Short(k)
  BY <1>s
<1> QED
  BY <1>5, <1>e, <1>21 DEF Short

BytesOf(s, l) == s = [i \in 1 .. 7 |-> Writer!Bits(8, Writer!adts_bytes(l)[i])]

LEMMA BytesAreHeader ==
  ASSUME NEW l \in Nat, NEW s, BytesOf(s, l), NEW h, IsHeader(h, l)
  PROVE  s \in Seq(Seq({0, 1})) /\ Len(s) = 7 /\ BeginsWith(h, s, 7, 56)
<1> DEFINE t == (2 % 4) * 64
           q == (l \div 2048) % 4
           a == 240 + 1
           b == 1 * 64 + 4 * 4 + (2 \div 4)
           d == 128 + q
           e == (l \div 8) % 256
           g == (l % 8) * 32 + 31
<1>d. /\ Bit(d, 7) = 1 /\ Bit(d, 6) = 0 /\ Bit(d, 5) = 0 /\ Bit(d, 4) = 0
      /\ Bit(d, 3) = 0 /\ Bit(d, 2) = 0 /\ Bit(d, 1) = Bit(l, 12) /\ Bit(d, 0) = Bit(l, 11)
  <2>0. q \in 0 .. 3
    OBVIOUS
  <2>1. Bit(d, 7) = 1
    <3>1. \A m \in 0 .. 3 : ((128 + m) \div 128) % 2 = 1
      OBVIOUS
    <3> HIDE DEF q
    <3> QED
      BY <2>0, <3>1, Powers DEF Bit
  <2>2. Bit(d, 6) = 0
    <3>1. \A m \in 0 .. 3 : ((128 + m) \div 64) % 2 = 0
      OBVIOUS
    <3> HIDE DEF q
    <3> QED
      BY <2>0, <3>1, Powers DEF Bit
  <2>3. Bit(d, 5) = 0
    <3>1. \A m \in 0 .. 3 : ((128 + m) \div 32) % 2 = 0
      OBVIOUS
    <3> HIDE DEF q
    <3> QED
      BY <2>0, <3>1, Powers DEF Bit
  <2>4. Bit(d, 4) = 0
    <3>1. \A m \in 0 .. 3 : ((128 + m) \div 16) % 2 = 0
      OBVIOUS
    <3> HIDE DEF q
    <3> QED
      BY <2>0, <3>1, Powers DEF Bit
  <2>5. Bit(d, 3) = 0
    <3>1. \A m \in 0 .. 3 : ((128 + m) \div 8) % 2 = 0
      OBVIOUS
    <3> HIDE DEF q
    <3> QED
      BY <2>0, <3>1, Powers DEF Bit
  <2>6. Bit(d, 2) = 0
    <3>1. \A m \in 0 .. 3 : ((128 + m) \div 4) % 2 = 0
      OBVIOUS
    <3> HIDE DEF q
    <3> QED
      BY <2>0, <3>1, Powers DEF Bit
  <2>7. Bit(d, 1) = Bit(l, 12)
    BY Powers DEF Bit
  <2>8. Bit(d, 0) = Bit(l, 11)
    BY Powers DEF Bit
  <2> QED
    BY <2>1, <2>2, <2>3, <2>4, <2>5, <2>6, <2>7, <2>8
<1>e. /\ Bit(e, 7) = Bit(l, 10) /\ Bit(e, 6) = Bit(l, 9) /\ Bit(e, 5) = Bit(l, 8) /\ Bit(e, 4) = Bit(l, 7)
      /\ Bit(e, 3) = Bit(l, 6) /\ Bit(e, 2) = Bit(l, 5) /\ Bit(e, 1) = Bit(l, 4) /\ Bit(e, 0) = Bit(l, 3)
  <2>1. Bit(e, 7) = Bit(l, 10)
    BY Powers DEF Bit
  <2>2. Bit(e, 6) = Bit(l, 9)
    BY Powers DEF Bit
  <2>3. Bit(e, 5) = Bit(l, 8)
    BY Powers DEF Bit
  <2>4. Bit(e, 4) = Bit(l, 7)
    BY Powers DEF Bit
  <2>5. Bit(e, 3) = Bit(l, 6)
    BY Powers DEF Bit
  <2>6. Bit(e, 2) = Bit(l, 5)
    BY Powers DEF Bit
  <2>7. Bit(e, 1) = Bit(l, 4)
    BY Powers DEF Bit
  <2>8. Bit(e, 0) = Bit(l, 3)
    BY Powers DEF Bit
  <2> QED
    BY <2>1, <2>2, <2>3, <2>4, <2>5, <2>6, <2>7, <2>8
<1>g. /\ Bit(g, 7) = Bit(l, 2) /\ Bit(g, 6) = Bit(l, 1) /\ Bit(g, 5) = Bit(l, 0) /\ Bit(g, 4) = 1
      /\ Bit(g, 3) = 1 /\ Bit(g, 2) = 1 /\ Bit(g, 1) = 1 /\ Bit(g, 0) = 1
  <2>1. Bit(g, 7) = Bit(l, 2)
    <3>1. PICK r, k : r = l % 8 /\ k = l \div 8 /\ l = 8 * k + r /\ r \in 0 .. 7 /\ k \in Nat
      OBVIOUS
    <3>2. (g \div 128) % 2 = (r \div 4) % 2
      BY <3>1
    <3>3. (l \div 4) % 2 = (r \div 4) % 2
      BY <3>1
    <3> QED
      BY <3>2, <3>3, Powers DEF Bit
  <2>2. Bit(g, 6) = Bit(l, 1)
    BY Powers DEF Bit
  <2>3. Bit(g, 5) = Bit(l, 0)
    BY Powers DEF Bit
  <2>4. Bit(g, 4) = 1
    BY Powers DEF Bit
  <2>5. Bit(g, 3) = 1
    BY Powers DEF Bit
  <2>6. Bit(g, 2) = 1
    BY Powers DEF Bit
  <2>7. Bit(g, 1) = 1
    BY Powers DEF Bit
  <2>8. Bit(g, 0) = 1
    BY Powers DEF Bit
  <2> QED
    BY <2>1, <2>2, <2>3, <2>4, <2>5, <2>6, <2>7, <2>8
<1>a. d \in Nat /\ e \in Nat /\ g \in Nat
  OBVIOUS
<1>c. Writer!adts_bytes(l) = <<255, a, b, t + q, e, g, 252>>
  BY Zenon DEF Writer!adts_bytes
<1>k. a = 241 /\ b = 80
  <2>1. a = 241
    OBVIOUS
  <2>2. b = 80
    OBVIOUS
  <2> QED
    BY <2>1, <2>2
<1>t. t = 128
  OBVIOUS
<1> HIDE DEF t, q, a, b, e, g
<1>f. Writer!adts_bytes(l) = <<255, 241, 80, d, e, g, 252>>
  BY <1>c, <1>k, <1>t
<1> HIDE DEF d
<1>b. /\ \A j \in 1 .. 8 : Bit(d, 8 - j) = h[24 + j]
      /\ \A j \in 1 .. 8 : Bit(e, 8 - j) = h[32 + j]
      /\ \A j \in 1 .. 8 : Bit(g, 8 - j) = h[40 + j]
  <2>1. \A j \in 1 .. 8 : Bit(d, 8 - j) = h[24 + j]
    BY <1>d DEF IsHeader, HeaderBits
  <2>2. \A j \in 1 .. 8 : Bit(e, 8 - j) = h[32 + j]
    BY <1>e DEF IsHeader, HeaderBits
  <2>3. \A j \in 1 .. 8 : Bit(g, 8 - j) = h[40 + j]
    BY <1>g DEF IsHeader, HeaderBits
  <2> QED
    BY <2>1, <2>2, <2>3
<1>2. /\ s[1] = Writer!Bits(8, 255) /\ s[2] = Writer!Bits(8, 241) /\ s[3] = Writer!Bits(8, 80)
      /\ s[4] = Writer!Bits(8, d) /\ s[5] = Writer!Bits(8, e) /\ s[6] = Writer!Bits(8, g)
      /\ s[7] = Writer!Bits(8, 252)
  BY <1>f DEF BytesOf
<1>3. \A i \in 1 .. 7 : Writer!adts_bytes(l)[i] \in Nat
  BY <1>a, <1>f
<1>4. \A i \in 1 .. 7 : Writer!Bits(8, Writer!adts_bytes(l)[i]) \in Seq({0, 1})
  <2>1. 8 \in 1 .. 13
    OBVIOUS
  <2> QED
    BY <1>3, <2>1, BitsKind
<1>5. s \in Seq(Seq({0, 1})) /\ Len(s) = 7
  BY <1>4 DEF BytesOf
<1>w. \A x : /\ Len(Writer!Bits(8, x)) = 8
            /\ \A j \in 1 .. 8 : Writer!Bits(8, x)[j] = Bit(x, 8 - j)
  <2>1. 8 \in Nat
    OBVIOUS
  <2> QED
    BY <2>1, BitsAt
<1>6. BeginsWith(h, s, 0, 0)
  <2>1. Writer!FlattenSeq(SubSeq(s, 1, 0)) = <<>>
    BY <1>5, FlattenNone
  <2>2. <<>> \in Seq({0, 1}) /\ Len(<<>>) = 0
    OBVIOUS
  <2>3. \A i \in 1 .. 0 : FALSE
    OBVIOUS
  <2> QED
    BY <2>1, <2>2, <2>3, Zenon DEF BeginsWith
<1>7. BeginsWith(h, s, 1, 8)
  <2>1. s[1] = Writer!Bits(8, 255)
    BY <1>2
  <2>2. Len(s[1]) = 8 /\ \A j \in 1 .. 8 : s[1][j] = h[0 + j]
    BY <2>1, FixedFields DEF IsHeader, HeaderBits
  <2>3. Adds(s, 0, 0, 8, 1, 8)
    BY <1>5 DEF Adds
  <2>4. Fits(h, s, 1, 0, 8)
    BY <2>2, Zenon DEF Fits
  <2> QED
    BY <1>6, <2>3, <2>4, BeginsNext
<1>8. BeginsWith(h, s, 2, 16)
  <2>1. s[2] = Writer!Bits(8, 241)
    BY <1>2
  <2>2. Len(s[2]) = 8 /\ \A j \in 1 .. 8 : s[2][j] = h[8 + j]
    BY <2>1, FixedFields DEF IsHeader, HeaderBits
  <2>3. Adds(s, 1, 8, 8, 2, 16)
    BY <1>5 DEF Adds
  <2>4. Fits(h, s, 2, 8, 8)
    BY <2>2, Zenon DEF Fits
  <2> QED
    BY <1>7, <2>3, <2>4, BeginsNext
<1>9. BeginsWith(h, s, 3, 24)
  <2>1. s[3] = Writer!Bits(8, 80)
    BY <1>2
  <2>2. Len(s[3]) = 8 /\ \A j \in 1 .. 8 : s[3][j] = h[16 + j]
    BY <2>1, FixedFields DEF IsHeader, HeaderBits
  <2>3. Adds(s, 2, 16, 8, 3, 24)
    BY <1>5 DEF Adds
  <2>4. Fits(h, s, 3, 16, 8)
    BY <2>2, Zenon DEF Fits
  <2> QED
    BY <1>8, <2>3, <2>4, BeginsNext
<1>10. BeginsWith(h, s, 4, 32)
  <2>1. s[4] = Writer!Bits(8, d)
    BY <1>2
  <2>2. Len(s[4]) = 8 /\ \A j \in 1 .. 8 : s[4][j] = h[24 + j]
    <3>1. Len(s[4]) = 8 /\ \A j \in 1 .. 8 : s[4][j] = Bit(d, 8 - j)
      BY <1>w, <2>1, Zenon
    <3> QED
      BY <1>b, <3>1
  <2>3. Adds(s, 3, 24, 8, 4, 32)
    BY <1>5 DEF Adds
  <2>4. Fits(h, s, 4, 24, 8)
    BY <2>2, Zenon DEF Fits
  <2> QED
    BY <1>9, <2>3, <2>4, BeginsNext
<1>11. BeginsWith(h, s, 5, 40)
  <2>1. s[5] = Writer!Bits(8, e)
    BY <1>2
  <2>2. Len(s[5]) = 8 /\ \A j \in 1 .. 8 : s[5][j] = h[32 + j]
    <3>1. Len(s[5]) = 8 /\ \A j \in 1 .. 8 : s[5][j] = Bit(e, 8 - j)
      BY <1>w, <2>1, Zenon
    <3> QED
      BY <1>b, <3>1
  <2>3. Adds(s, 4, 32, 8, 5, 40)
    BY <1>5 DEF Adds
  <2>4. Fits(h, s, 5, 32, 8)
    BY <2>2, Zenon DEF Fits
  <2> QED
    BY <1>10, <2>3, <2>4, BeginsNext
<1>12. BeginsWith(h, s, 6, 48)
  <2>1. s[6] = Writer!Bits(8, g)
    BY <1>2
  <2>2. Len(s[6]) = 8 /\ \A j \in 1 .. 8 : s[6][j] = h[40 + j]
    <3>1. Len(s[6]) = 8 /\ \A j \in 1 .. 8 : s[6][j] = Bit(g, 8 - j)
      BY <1>w, <2>1, Zenon
    <3> QED
      BY <1>b, <3>1
  <2>3. Adds(s, 5, 40, 8, 6, 48)
    BY <1>5 DEF Adds
  <2>4. Fits(h, s, 6, 40, 8)
    BY <2>2, Zenon DEF Fits
  <2> QED
    BY <1>11, <2>3, <2>4, BeginsNext
<1>13. BeginsWith(h, s, 7, 56)
  <2>1. s[7] = Writer!Bits(8, 252)
    BY <1>2
  <2>2. Len(s[7]) = 8 /\ \A j \in 1 .. 8 : s[7][j] = h[48 + j]
    BY <2>1, FixedFields DEF IsHeader, HeaderBits
  <2>3. Adds(s, 6, 48, 8, 7, 56)
    BY <1>5 DEF Adds
  <2>4. Fits(h, s, 7, 48, 8)
    BY <2>2, Zenon DEF Fits
  <2> QED
    BY <1>12, <2>3, <2>4, BeginsNext
<1> QED
  BY <1>5, <1>13

\* Two ways to begin with the same bits are the same bits.
LEMMA SameBits ==
  ASSUME NEW h, NEW s, NEW t, NEW k, NEW m, NEW o \in Nat,
         BeginsWith(h, s, k, o), BeginsWith(h, t, m, o)
  PROVE  Writer!FlattenSeq(SubSeq(s, 1, k)) = Writer!FlattenSeq(SubSeq(t, 1, m))
<1> DEFINE f == Writer!FlattenSeq(SubSeq(s, 1, k))
           g == Writer!FlattenSeq(SubSeq(t, 1, m))
<1>1. f \in Seq({0, 1}) /\ Len(f) = o /\ \A i \in 1 .. o : f[i] = h[i]
  BY DEF BeginsWith
<1>2. g \in Seq({0, 1}) /\ Len(g) = o /\ \A i \in 1 .. o : g[i] = h[i]
  BY DEF BeginsWith
<1> HIDE DEF f, g
<1>3. f = g
  BY <1>1, <1>2, SeqEqual
<1> QED
  BY <1>3 DEF f, g

LEMMA EqualBits ==
  ASSUME NEW s \in Seq({0, 1}), NEW t \in Seq({0, 1}),
         Len(s) = Len(t), \A i \in 1 .. Len(s) : s[i] = t[i]
  PROVE  s = t
  BY SeqEqual

LEMMA HeaderKept ==
  ASSUME BitInv, NEW n \in Nat, AdtsFields(job.fields, n), job.bytes >= 7,
         NEW t, BytesOf(t, 7 + n)
  PROVE  state # "aborted" /\ (state = "done" => buffer = Writer!FlattenSeq(t))
<1>l. PICK l : l = 7 + n
  OBVIOUS
<1>h. PICK h : IsHeader(h, l)
  BY DEF IsHeader
<1>s. PICK s : s = job.fields
  OBVIOUS
<1>0. l \in Nat /\ l = 7 + n
  BY <1>l
<1>1. /\ s \in Seq(Seq({0, 1})) /\ Len(s) = 15
      /\ \A k \in 0 .. 15 : \E o \in 0 .. 56 : BeginsWith(h, s, k, o)
      /\ BeginsWith(h, s, 15, 56)
  BY <1>0, <1>h, <1>s, FieldsAreHeader
<1>2. t \in Seq(Seq({0, 1})) /\ Len(t) = 7 /\ BeginsWith(h, t, 7, 56)
  BY <1>0, <1>h, <1>l, BytesAreHeader, Zenon
<1>3. /\ job \in Jobs /\ job.bytes \in Nat /\ put \in 0 .. 15
      /\ Writer!Fields = Writer!FlattenSeq(SubSeq(s, 1, put))
  BY <1>1, <1>s, WriterConstants DEF BitInv, BitKinds, Writer!Fields
<1>4. state # "aborted"
  <2>1. PICK o \in 0 .. 56 : BeginsWith(h, s, put, o)
    BY <1>1, <1>3
  <2>2. Len(Writer!Fields) = o
    BY <1>3, <2>1 DEF BeginsWith
  <2> QED
    BY <1>3, <2>2 DEF BitInv
<1>5. ASSUME state = "done"
      PROVE  buffer = Writer!FlattenSeq(t)
  <2>1. Written /\ put = 15
    BY <1>1, <1>5, <1>s DEF BitInv, Written
  <2>2. 56 \in Nat
    OBVIOUS
  <2>3. Writer!FlattenSeq(SubSeq(s, 1, 15)) = Writer!FlattenSeq(SubSeq(t, 1, 7))
    BY <1>1, <1>2, <2>2, SameBits
  <2>4. SubSeq(t, 1, 7) = t
    BY <1>2, SubSeqFull
  <2>5. /\ Writer!Fields = Writer!FlattenSeq(t)
        /\ Writer!Fields \in Seq({0, 1}) /\ Len(Writer!Fields) = 56
    BY <1>1, <1>3, <2>1, <2>3, <2>4, Zenon DEF BeginsWith
  <2>6. buffer \in Seq({0, 1}) /\ Len(buffer) \in Nat /\ Len(buffer) % 8 = 0
    BY LenProperties DEF BitInv, BitKinds
  <2>7. Len(buffer) - 56 \in 0 .. 7
    BY <2>1, <2>5 DEF Written
  <2>8. Len(buffer) = 56
    <3>1. \A b \in Nat : b % 8 = 0 /\ b - 56 \in 0 .. 7 => b = 56
      OBVIOUS
    <3> QED
      BY <2>6, <2>7, <3>1, Zenon
  <2>f. PICK f : f = Writer!Fields
    OBVIOUS
  <2>9. \A i \in 1 .. 56 : buffer[i] = f[i]
    <3>1. Stored
      BY <2>1 DEF Written
    <3>2. Len(f) = 56
      BY <2>5, <2>f
    <3>3. \A i \in 1 .. 56 : buffer[i] = IF i <= 56 THEN f[i] ELSE 0
      BY <2>8, <2>f, <3>1, <3>2, Zenon DEF Stored
    <3> QED
      BY <3>3
  <2>10. buffer = f
    <3>1. buffer \in Seq({0, 1}) /\ f \in Seq({0, 1}) /\ Len(f) = 56
      BY <2>5, <2>6, <2>f
    <3>2. Len(buffer) = Len(f) /\ \A i \in 1 .. Len(buffer) : buffer[i] = f[i]
      BY <2>8, <2>9, <3>1, Zenon
    <3> QED
      BY <3>1, <3>2, EqualBits, ZenonT(60)
  <2> QED
    BY <2>5, <2>f, <2>10
<1> QED
  BY <1>4, <1>5

LEMMA HeadersKept == BitInv => Writer!HeadersAgree
<1> SUFFICES ASSUME BitInv, NEW n \in Sizes,
                    job.fields = Writer!add_adts_header(n, 0), job.bytes >= 7
             PROVE  /\ state # "aborted"
                    /\ state = "done" =>
                         buffer = Writer!FlattenSeq(
                           [i \in 1 .. 7 |-> Writer!Bits(8, Writer!adts_bytes(7 + n)[i])])
  BY DEF Writer!HeadersAgree
<1>1. n \in Nat
  <2>1. Sizes \subseteq 0 .. 8191 - 7
    <3>1. Writer!PutBitsAssumption
      BY RtpPacketsAssumption, Zenon
    <3> QED
      BY <3>1, SMTT(30) DEF Writer!PutBitsAssumption
  <2> QED
    BY <2>1, SMTT(30)
<1>2. AdtsFields(job.fields, n)
  BY DEF AdtsFields
<1>3. PICK t : t = [i \in 1 .. 7 |-> Writer!Bits(8, Writer!adts_bytes(7 + n)[i])]
  OBVIOUS
<1>4. BytesOf(t, 7 + n)
  BY <1>3, Zenon DEF BytesOf
<1>5. state # "aborted" /\ (state = "done" => buffer = Writer!FlattenSeq(t))
  BY <1>1, <1>2, <1>4, HeaderKept
<1> QED
  BY <1>3, <1>5, Zenon

\* The bit writer stores the fields it is given one after the other without a bit lost,
\* doubled or moved, filled up to a byte, and the header it writes for AAC is the one that
\* the other add_adts_header writes byte by byte, whatever the length.
THEOREM BitsExact == RtpSpec => []WholeStream
<1>1. RtpInit => BitInv
  BY BitInit DEF RtpInit
<1>2. BitInv /\ [RtpNext]_allVars => BitInv'
  <2> SUFFICES ASSUME BitInv, [RtpNext]_allVars
               PROVE  BitInv'
    OBVIOUS
  <2>1. [Writer!Next]_writerVars
    BY DEF RtpNext, ParseReordered, ParseLossy, ParseSound, WriteBits, allVars
  <2> QED
    BY <2>1, BitStep
<1>3. BitInv => WholeStream
  BY BitsKept, HeadersKept DEF WholeStream
<1> QED
  BY <1>1, <1>2, <1>3, PTL DEF RtpSpec
===============================================================================
