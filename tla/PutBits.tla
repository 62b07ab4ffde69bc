-------------------------------- MODULE PutBits --------------------------------
(***************************************************************************)
(* The bit writer of AACRtpPacket (RtpPacket.cpp) and the headers that are *)
(* written with it: fields of any width go through a word of 32 bits to a  *)
(* buffer of bytes.  A word is the sequence of its bits, highest first.    *)
(***************************************************************************)
EXTENDS Naturals, Sequences, SequencesExt

CONSTANTS
  Word,       \* the bits of bit_buf: 32
  Jobs,       \* what is written: [fields, bytes], the fields and the room there is
  Sizes       \* the lengths of the frames that are given a header

\* What the constants are: put_bits takes fields of fewer bits than a word, and an ADTS
\* header has 13 bits for the length of the frame with the header.
PutBitsAssumption ==
  /\ Word \in Nat /\ Word % 8 = 0 /\ Word > 0
  /\ \A j \in Jobs :
       /\ j.bytes \in Nat /\ j.fields \in Seq(Seq({0, 1}))
       /\ \A i \in DOMAIN j.fields : Len(j.fields[i]) \in 1 .. Word - 1
  /\ Sizes \subseteq 0 .. 8191 - 7

VARIABLES
  job,
  put,        \* how many of its fields were put
  bit_buf, bit_left,
  buffer,     \* the bytes before buf_ptr, as bits
  state       \* "put", "flush", "done" or "aborted" (an assertion failed)

vars == <<job, put, bit_buf, bit_left, buffer, state>>

Zeros(n) == [i \in 1 .. n |-> 0]

\* init_put_bits
Init ==
  /\ job \in Jobs
  /\ put = 0 /\ state = "put"
  /\ bit_buf = Zeros(Word) /\ bit_left = Word
  /\ buffer = <<>>

\* The word shifted left, and the first bits of a value.
Shifted(bits, n) == SubSeq(bits, n + 1, Word) \o Zeros(n)
High(value, n) == SubSeq(value, 1, n)

\* bits | value, for a value whose lowest bits are the word's lowest.
Or(bits, value) == High(bits, Word - Len(value)) \o value

Room(n) == Len(buffer) + n <= 8 * job.bytes

\* n < bit_left: the field goes below those before it.
Keep(value) ==
  /\ Len(value) < bit_left
  /\ bit_buf' = Or(Shifted(bit_buf, Len(value)), value)
  /\ bit_left' = bit_left - Len(value)
  /\ UNCHANGED <<buffer, state>>

\* The word is filled and stored, and the whole field is kept: its first bits are shifted
\* out later.
Store(value) ==
  /\ Len(value) >= bit_left
  /\ Room(Word)
  /\ buffer' = buffer \o Or(Shifted(bit_buf, bit_left), High(value, bit_left))
  /\ bit_buf' = Zeros(Word - Len(value)) \o value
  /\ bit_left' = bit_left + Word - Len(value)
  /\ UNCHANGED state

TooSmall(value) ==
  /\ Len(value) >= bit_left
  /\ ~Room(Word)
  /\ state' = "aborted"
  /\ UNCHANGED <<bit_buf, bit_left, buffer>>

put_bits ==
  /\ state = "put" /\ put < Len(job.fields)
  /\ LET value == job.fields[put + 1] IN Keep(value) \/ Store(value) \/ TooSmall(value)
  /\ put' = put + 1
  /\ UNCHANGED job

\* A bug StartFlush could have: the bits are not moved up to the top of the word.
StartFlushLow ==
  /\ state = "put" /\ put = Len(job.fields)
  /\ state' = "flush"
  /\ UNCHANGED <<bit_buf, job, put, bit_left, buffer>>

StartFlush ==
  /\ state = "put" /\ put = Len(job.fields)
  /\ state' = "flush"
  /\ bit_buf' = IF bit_left < Word THEN Shifted(bit_buf, bit_left) ELSE bit_buf
  /\ UNCHANGED <<job, put, bit_left, buffer>>

FlushByte ==
  /\ state = "flush" /\ bit_left < Word
  /\ IF Room(8)
       THEN /\ buffer' = buffer \o High(bit_buf, 8)
            /\ bit_buf' = Shifted(bit_buf, 8)
            /\ bit_left' = bit_left + 8
            /\ UNCHANGED state
       ELSE state' = "aborted" /\ UNCHANGED <<buffer, bit_buf, bit_left>>
  /\ UNCHANGED <<job, put>>

EndFlush ==
  /\ state = "flush" /\ bit_left >= Word
  /\ state' = "done"
  /\ bit_left' = Word /\ bit_buf' = Zeros(Word)
  /\ UNCHANGED <<job, put, buffer>>

flush_put_bits == StartFlush \/ FlushByte \/ EndFlush

Next == put_bits \/ flush_put_bits

Spec == Init /\ [][Next]_vars

-------------------------------------------------------------------------------
(* The headers that are written.                                           *)

\* The n bits of a number.
Bits(n, number) == [i \in 1 .. n |-> (number \div 2 ^ (n - i)) % 2]

\* add_adts_header: AAC LC, 44100 Hz, two channels, and the length of the frame with the
\* seven bytes of the header.
add_adts_header(size, pce_size) ==
  << Bits(12, 4095), Bits(1, 0), Bits(2, 0), Bits(1, 1), Bits(2, 1), Bits(4, 4), Bits(1, 0),
     Bits(3, 2), Bits(1, 0), Bits(1, 0), Bits(1, 0), Bits(1, 0),
     Bits(13, 7 + size + pce_size), Bits(11, 2047), Bits(2, 0) >>

\* add_latm_header: object type, rate and two bits of channels.
add_latm_header == << Bits(5, 2), Bits(4, 4), Bits(2, 2) >>

\* The other add_adts_header, which sets the seven bytes one after the other; frame_len is
\* that of the first call.
adts_bytes(frame_len) ==
  << 255, 240 + 1, 1 * 64 + 4 * 4 + (2 \div 4), (2 % 4) * 64 + ((frame_len \div 2048) % 4),
     (frame_len \div 8) % 256, (frame_len % 8) * 32 + 31, 252 >>

-------------------------------------------------------------------------------
\* The bits of the fields put so far, one after the other.
Fields == FlattenSeq(SubSeq(job.fields, 1, put))

\* The values the variables range over: whole words and bytes are stored, within the room.
TypeOK ==
  /\ put \in 0 .. Len(job.fields)
  /\ Len(bit_buf) = Word
  /\ state \in {"put", "done", "aborted"} => bit_left \in 1 .. Word
  /\ state = "flush" => bit_left \in 1 .. Word + 7
  /\ Len(buffer) % 8 = 0 /\ Room(0)

\* No bit is lost, doubled or moved: while fields are put, what is stored and the bits in
\* use of the word are the fields one after the other.
NothingLost ==
  state = "put" => buffer \o SubSeq(bit_buf, bit_left + 1, Word) = Fields

\* When the writer is done the buffer holds the fields, filled up to a byte with zeros.
WholeStream ==
  state = "done" =>
    buffer = Fields \o Zeros((8 - (Len(Fields) % 8)) % 8)

\* An ADTS header fits its seven bytes, whatever the length, and both ways of writing it
\* give the same header.
HeadersAgree ==
  \A n \in Sizes :
    job.fields = add_adts_header(n, 0) /\ job.bytes >= 7 =>
      /\ state # "aborted"
      /\ state = "done" => buffer = FlattenSeq([i \in 1 .. 7 |-> Bits(8, adts_bytes(7 + n)[i])])
==============================================================================
