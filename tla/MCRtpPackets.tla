---------------------------- MODULE MCRtpPackets ----------------------------
(***************************************************************************)
(* The parsers and the writer of RtpPacket.cpp: pictures over a network    *)
(* that reorders and repeats packets, with numbers that wrap, pictures     *)
(* over one that only loses packets, sound, and the bit writer.  They      *)
(* share a file and no state: program says which one a behaviour is about, *)
(* the others stay as they were made.                                      *)
(***************************************************************************)
EXTENDS H264RtpPacket

CONSTANTS
  LossyStream, LossyFirstSeq, LossySeqMod, LossyDeliveries,   \* pictures that are lost
  Packets, SoundFirstSeq, SeqNumbers, SoundDeliveries,        \* of AACRtpPacket
  size_length, index_length, index_delta_length,
  Word, Jobs, Sizes                                           \* of PutBits

VARIABLES
  program,
  aac_seq_no, aac_delivered, aac_decoded,
  job, put, bit_buf, bit_left, buffer, state

Programs == {"reordered", "lossy", "aac", "bits"}

-----------------------------------------------------------------------------
(* Pictures.                                                               *)

Sps == [kind |-> "sps", m |-> FALSE, size |-> 4]
Pps == [kind |-> "pps", m |-> FALSE, size |-> 3]
Start(kind, bytes) == [kind |-> kind, m |-> FALSE, size |-> bytes]
Middle(bytes) == [kind |-> "cont", m |-> FALSE, size |-> bytes]
End(bytes) == [kind |-> "cont", m |-> TRUE, size |-> bytes]

\* A key picture and another one.
TwoPictures == <<Sps, Pps, Start("idr", 8), Middle(8), End(4), Start("slice", 5), End(4)>>

\* Four pictures, the parameter sets repeated before the third.
FourPictures ==
  <<Sps, Pps, Start("idr", 8), End(8), Start("slice", 6), Middle(8), End(5),
    Sps, Pps, Start("idr", 8), Middle(8), End(8), Start("slice", 4), End(3)>>

Lossy == INSTANCE H264RtpPacket WITH
  Stream <- LossyStream, FirstSeq <- LossyFirstSeq, SeqMod <- LossySeqMod,
  Reorders <- FALSE, MaxDeliveries <- LossyDeliveries

-----------------------------------------------------------------------------
(* Sound: one unit, a packet cut short, two units, a contributing source,  *)
(* an extension, one unit.                                                 *)

SoundPacket(cc, ext, units, missing) ==
  [cc |-> cc, ext |-> ext, units |-> units, missing |-> missing]

SoundPackets ==
  << SoundPacket(0, 0, <<5>>, 0), SoundPacket(0, 0, <<1>>, 2),
     SoundPacket(0, 0, <<6, 7>>, 0), SoundPacket(1, 0, <<8>>, 0),
     SoundPacket(0, 2, <<9>>, 0), SoundPacket(0, 0, <<10>>, 0) >>

AAC == INSTANCE AACRtpPacket WITH
  FirstSeq <- SoundFirstSeq, Deliveries <- SoundDeliveries,
  seq_no <- aac_seq_no, delivered <- aac_delivered, decoded <- aac_decoded

-----------------------------------------------------------------------------
(* Headers of units of several lengths, and up to three fields of every    *)
(* kind of width, also into too small a buffer.                            *)

Writer == INSTANCE PutBits

\* The headers are made without knowing which jobs there are.
Headers == INSTANCE PutBits WITH Jobs <- {}

Widths == {1, 7, 24, 31}
Values == UNION {{[i \in 1 .. n |-> 1], [i \in 1 .. n |-> i % 2]} : n \in Widths}

WriterJobs ==
  {[fields |-> Headers!add_adts_header(n, 0), bytes |-> 7] : n \in Sizes}
    \union {[fields |-> Headers!add_latm_header, bytes |-> b] : b \in 1 .. 2}
    \union {[fields |-> f, bytes |-> b] :
              f \in UNION {[1 .. k -> Values] : k \in 1 .. 3}, b \in {4, 12}}

-----------------------------------------------------------------------------

ASSUME RtpPacketsAssumption ==
  /\ StreamAssumption /\ RtpAssumption
  /\ Lossy!StreamAssumption /\ Lossy!RtpAssumption /\ Lossy!FragmentsAssumption
  /\ LossyFirstSeq + Len(LossyStream) < LossySeqMod
  /\ AAC!AACRtpPacketAssumption
  /\ Writer!PutBitsAssumption

aacVars == <<aac_seq_no, aac_delivered, aac_decoded>>
writerVars == <<job, put, bit_buf, bit_left, buffer, state>>
allVars == <<program, vars, aacVars, writerVars>>

AnyJob == CHOOSE j \in Jobs : TRUE

RtpInit ==
  /\ program \in Programs
  /\ CASE program = "reordered" -> Init
       [] program = "lossy" -> Lossy!Init
       [] OTHER -> Init /\ seq_no = 0
  /\ AAC!Init
  /\ Writer!Init /\ (program # "bits" => job = AnyJob)

ParseReordered ==
  /\ program = "reordered" /\ Next
  /\ UNCHANGED <<program, aacVars, writerVars>>

ParseLossy ==
  /\ program = "lossy" /\ Lossy!Next
  /\ UNCHANGED <<program, aacVars, writerVars>>

ParseSound ==
  /\ program = "aac" /\ AAC!Next
  /\ UNCHANGED <<program, vars, writerVars>>

WriteBits ==
  /\ program = "bits" /\ Writer!Next
  /\ UNCHANGED <<program, vars, aacVars>>

RtpNext == ParseReordered \/ ParseLossy \/ ParseSound \/ WriteBits

RtpSpec == RtpInit /\ [][RtpNext]_allVars

-----------------------------------------------------------------------------
\* Loss damages a picture only if a packet of it was lost, or the end of the
\* one before (see H264RtpPacket): every other picture reaches the decoder whole.
CompletePictureDecoded ==
  [][program = "lossy" => Lossy!CompletePicturesWhole]_allVars

\* AACRtpPacket::parse_data decodes the packets that are newer than all before,
\* once each, and a unit alone in its packet whole.
NewestAreDecoded == AAC!NewestAreDecoded /\ AAC!OneUnitIsWhole

\* put_bits and flush_put_bits write the fields one after the other without a
\* bit lost or moved, and both ways to write an ADTS header agree.
WholeStream == Writer!NothingLost /\ Writer!WholeStream /\ Writer!HeadersAgree
=============================================================================
