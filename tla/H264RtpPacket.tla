---------------------------- MODULE H264RtpPacket ----------------------------
(***************************************************************************)
(* H264RtpPacket of RtpPacket.cpp: parse_data puts the fragments of an     *)
(* H.264 picture together again and gives each picture to the decoder.     *)
(* Packets come from a camera over UDP: they are lost and, when Reorders   *)
(* is TRUE, also late and repeated.  Sequence numbers wrap.                *)
(*                                                                         *)
(* The camera is external.  As the code expects of it, a picture is cut    *)
(* into fragments of which the last carries the marker, and the parameter  *)
(* sets are packets of their own between two pictures.                     *)
(***************************************************************************)
EXTENDS Naturals, Sequences

CONSTANTS
  Stream,         \* what the camera sends: a sequence of packets
  FirstSeq,       \* the sequence number before that of Stream[1]
  SeqMod,         \* sequence numbers wrap at this value (2^16 in the code)
  InitialLen,     \* the first size of h264_buf (8090 in the code)
  Reorders,       \* whether packets overtake each other and are repeated
  MaxDeliveries   \* bound on the packets that arrive

\* What the first bytes of a payload say: 0x67, 0x68, 0x7c85, 0x5c81, others.
ParameterSets == {"sps", "pps"}
Slices == {"idr", "slice", "cont"}

\* size is what follows the RTP header, the two bytes of the fragment header
\* included; m is the marker.  A datagram fits in the receive buffer, which has
\* the size of h264_buf, after a header of at least 12 bytes.
Packet == [kind : ParameterSets \cup Slices, m : BOOLEAN, size : Nat]

StreamAssumption ==
  /\ Stream \in Seq(Packet)
  /\ \A i \in DOMAIN Stream : Stream[i].size \in 3 .. InitialLen - 12

\* A picture has at least two fragments, and only its last one carries the marker.
FragmentsAssumption ==
  \A i \in DOMAIN Stream :
    /\ Stream[i].kind \in {"idr", "slice"} => ~Stream[i].m
    /\ Stream[i].kind = "cont" =>
         i > 1 /\ Stream[i - 1].kind \in Slices /\ ~Stream[i - 1].m

RtpAssumption ==
  /\ SeqMod \in Nat \ {0}
  /\ FirstSeq \in 0 .. SeqMod - 1
  /\ InitialLen \in Nat
  /\ Reorders \in BOOLEAN
  /\ MaxDeliveries \in Nat

VARIABLES
  sps, pps,       \* whether the parameter sets were seen
  seq_no,         \* the last sequence number accepted
  start,          \* what the first bytes of h264_buf hold
  body,           \* the packets copied into h264_buf after them
  h264_buf_inx,   \* the bytes in use of h264_buf
  buffer_len,     \* the bytes allocated
  decoded,        \* history: what the decoder was given
  accepted,       \* history: the slices accepted since a parameter set was
  delivered,      \* history: the packets that arrived
  deliveries      \* how often one arrived

parserVars == <<sps, pps, seq_no, start, body, h264_buf_inx, buffer_len,
                decoded, accepted>>
vars == <<parserVars, delivered, deliveries>>

this_seq(i) == (FirstSeq + i) % SeqMod

\* The start code and the type of the NAL unit.
HeaderSize == 5

Init ==
  /\ sps = FALSE
  /\ pps = FALSE
  /\ seq_no \in 0 .. SeqMod - 1   \* start() passes it before setRTPInfo sets it
  /\ start = "none"
  /\ body = <<>>
  /\ h264_buf_inx = 0
  /\ buffer_len = InitialLen
  /\ decoded = <<>>
  /\ accepted = <<>>
  /\ delivered = {}
  /\ deliveries = 0

-------------------------------------------------------------------------------
(* parse_data.                                                             *)

\* A parameter set goes to the decoder at once, through the beginning of
\* h264_buf, and whatever its sequence number is.
ParameterSet(i) ==
  /\ Stream[i].kind \in ParameterSets
  /\ sps' = (sps \/ Stream[i].kind = "sps")
  /\ pps' = (pps \/ Stream[i].kind = "pps")
  /\ seq_no' = this_seq(i)
  /\ start' = Stream[i].kind
  /\ decoded' = Append(decoded, [start |-> Stream[i].kind, body |-> <<i>>])
  /\ accepted' = <<>>
  /\ UNCHANGED <<body, h264_buf_inx, buffer_len>>

\* Without both parameter sets, and when it is not new, a packet is dropped.
Drop(i) ==
  /\ Stream[i].kind \in Slices
  /\ ~sps \/ ~pps \/ this_seq(i) <= seq_no
  /\ UNCHANGED parserVars

\* A bug Accept could have: the packet accepted last is accepted again.
AcceptEqual(i) ==
  /\ Stream[i].kind \in Slices
  /\ sps /\ pps
  /\ this_seq(i) >= seq_no
  /\ seq_no' = this_seq(i)
  /\ accepted' = Append(accepted, i)

Accept(i) ==
  /\ Stream[i].kind \in Slices
  /\ sps /\ pps
  /\ this_seq(i) > seq_no
  /\ seq_no' = this_seq(i)
  /\ accepted' = Append(accepted, i)

\* The size of the buffer when size - 2 bytes were appended to inx.
Enlarged(inx, size) ==
  IF inx + size - 2 > buffer_len THEN inx + size - 2 + buffer_len ELSE buffer_len

\* The header the first fragment makes; the type stays what the byte was when
\* the fragment does not begin a picture.
Header(kind) ==
  IF kind \in {"idr", "slice"} THEN kind ELSE "stale"

\* m == 0: the fragment is copied behind the others, after a header if it is
\* the first.
Fragment(i) ==
  LET inx == IF h264_buf_inx = 0 THEN HeaderSize ELSE h264_buf_inx
  IN  /\ ~Stream[i].m
      /\ Accept(i)
      /\ start' = IF h264_buf_inx = 0 THEN Header(Stream[i].kind) ELSE start
      /\ body' = Append(body, i)
      /\ buffer_len' = Enlarged(inx, Stream[i].size)
      /\ h264_buf_inx' = inx + Stream[i].size - 2
      /\ UNCHANGED <<sps, pps, decoded>>

\* A bug LastFragment could have: the index is not set back.
LastFragmentKept(i) ==
  /\ Stream[i].m
  /\ Accept(i)
  /\ buffer_len' = Enlarged(h264_buf_inx, Stream[i].size)
  /\ decoded' = Append(decoded,
                       [start |-> IF h264_buf_inx = 0 THEN "none" ELSE start,
                        body |-> Append(body, i)])
  /\ start' = "none"
  /\ body' = Append(body, i)
  /\ h264_buf_inx' = h264_buf_inx + Stream[i].size - 2
  /\ UNCHANGED <<sps, pps>>

\* m > 0: the last fragment is copied, the decoder called, the buffer emptied.
LastFragment(i) ==
  /\ Stream[i].m
  /\ Accept(i)
  /\ buffer_len' = Enlarged(h264_buf_inx, Stream[i].size)
  /\ decoded' = Append(decoded,
                       [start |-> IF h264_buf_inx = 0 THEN "none" ELSE start,
                        body |-> Append(body, i)])
  /\ start' = "none"
  /\ body' = <<>>
  /\ h264_buf_inx' = 0
  /\ UNCHANGED <<sps, pps>>

parse_data(i) ==
  ParameterSet(i) \/ Drop(i) \/ Fragment(i) \/ LastFragment(i)

-------------------------------------------------------------------------------
(* The network.                                                            *)

CanArrive(i) == Reorders \/ \A j \in delivered : j < i

Deliver(i) ==
  /\ CanArrive(i)
  /\ deliveries < MaxDeliveries
  /\ deliveries' = deliveries + 1
  /\ delivered' = delivered \cup {i}
  /\ parse_data(i)

Next == \E i \in DOMAIN Stream : Deliver(i)

Spec == Init /\ [][Next]_vars

-------------------------------------------------------------------------------
(* Properties.                                                             *)

Starts == {"none", "stale", "idr", "slice"} \cup ParameterSets

\* The values the variables range over.
TypeOK ==
  /\ sps \in BOOLEAN
  /\ pps \in BOOLEAN
  /\ seq_no \in 0 .. SeqMod - 1
  /\ start \in Starts
  /\ body \in Seq(DOMAIN Stream)
  /\ h264_buf_inx \in Nat
  /\ buffer_len \in Nat
  /\ decoded \in Seq([start : Starts, body : Seq(DOMAIN Stream)])
  /\ accepted \in Seq(DOMAIN Stream)
  /\ delivered \subseteq DOMAIN Stream
  /\ deliveries \in 0 .. MaxDeliveries

\* parse_data never writes past h264_buf, and leaves in it what it counts.
BufferFits == h264_buf_inx <= buffer_len

\* Between two parameter sets no packet is copied twice, however often it
\* arrives, and even when sequence numbers wrap.
UsedOnce ==
  \A j, k \in DOMAIN accepted : j # k => accepted[j] # accepted[k]

Given(kind, n) == \E j \in 1 .. n : decoded[j].start = kind

\* The decoder is given no picture before it was given both parameter sets,
\* although the ones of the session description count for nothing.
PictureAfterParameterSets ==
  \A n \in DOMAIN decoded :
    decoded[n].start \notin ParameterSets => Given("sps", n) /\ Given("pps", n)

-------------------------------------------------------------------------------
\* Of the picture that ends with e: its first fragment, and whether nothing
\* of it was lost, nor the parameter sets, nor the end of the picture before it.
First(e) ==
  CHOOSE f \in 1 .. e :
    /\ Stream[f].kind \in {"idr", "slice"}
    /\ \A k \in f + 1 .. e : Stream[k].kind = "cont"

Complete(e) ==
  LET Before == {k \in delivered : k < First(e) /\ Stream[k].kind \in Slices}
  IN  /\ First(e) .. e - 1 \subseteq delivered
      /\ \A p \in ParameterSets : \E k \in delivered : k < First(e) /\ Stream[k].kind = p
      /\ \A k \in Before : (\A j \in Before : j <= k) => Stream[k].m

\* The buffer the decoder should get: the header, then every fragment.
Picture(e) ==
  [start |-> Stream[First(e)].kind,
   body |-> [k \in 1 .. e - First(e) + 1 |-> First(e) + k - 1]]

\* The packet that arrives completes no picture, or completes a picture of which
\* nothing was lost and the decoder is given it whole, behind the right header.
CompletePicturesWhole ==
  \A e \in delivered' \ delivered :
    (Stream[e].kind \in Slices /\ Stream[e].m /\ Complete(e))
      => decoded' = Append(decoded, Picture(e))
==============================================================================
