----------------------------- MODULE AACRtpPacket -----------------------------
(***************************************************************************)
(* AACRtpPacket::parse_data of RtpPacket.cpp: the access units of an       *)
(* mpeg4-generic stream, over a network that loses, reorders and repeats   *)
(* packets.  A packet is the place of its parts in the datagram.           *)
(***************************************************************************)
EXTENDS Naturals, Sequences, SequencesExt, FiniteSetsExt

CONSTANTS
  Packets,      \* what the server sends, in its order: [cc, ext, units, missing]
  FirstSeq,     \* the sequence number of the first of them
  SeqNumbers,     \* how many sequence numbers there are: 2^16
  size_length, index_length, index_delta_length,   \* from the session description
  Deliveries    \* bound: how many datagrams arrive

\* What the constants are: a packet carries at least one unit.
AACRtpPacketAssumption ==
  /\ Packets \in Seq([cc : Nat, ext : Nat, units : Seq(Nat) \ {<<>>}, missing : Nat])
  /\ SeqNumbers \in Nat \ {0} /\ FirstSeq \in 0 .. SeqNumbers - 1
  /\ {size_length, index_length, index_delta_length} \subseteq Nat
  /\ Deliveries \in Nat

VARIABLES
  seq_no,       \* the last sequence number that was not too old
  delivered,    \* history: the packets that arrived
  decoded       \* history: what the decoder was given: packet, first byte, size

vars == <<seq_no, delivered, decoded>>

Init == seq_no = 0 /\ delivered = <<>> /\ decoded = <<>>

this_seq(k) == (FirstSeq + k - 1) % SeqNumbers

\* The fixed header, the contributing sources, and the words of the extension if any.
hlen(p) == 12 + 4 * p.cc + 4 * p.ext

Bytes(bits) == (bits + 7) \div 8

\* Every unit has a header; the first has an index, the others the distance to the last.
AU_headers_length(p) ==
  size_length + index_length + (Len(p.units) - 1) * (size_length + index_delta_length)

\* A packet as it was sent, or cut short.
size(p) ==
  hlen(p) + 2 + Bytes(AU_headers_length(p)) + FoldSeq(LAMBDA u, n : u + n, 0, p.units)
    - p.missing

WellFormed(p) ==
  /\ size_length > 0
  /\ size(p) - hlen(p) >= 2 + Bytes(AU_headers_length(p))

\* How many headers parse_data takes the section to hold.
au_headers_num(p) ==
  IF AU_headers_length(p) >= size_length + index_length
    THEN 1 + (AU_headers_length(p) - (size_length + index_length))
               \div (size_length + index_delta_length)
    ELSE 0

Newer(k) == this_seq(k) > seq_no

\* Where the unit is looked for: as many bytes into the datagram as the section has bits.
FirstByte(p) == AU_headers_length(p)

\* A packet that is not new, or one of a sequence number before the wrap, is ignored.
Ignore(k) ==
  /\ ~Newer(k)
  /\ UNCHANGED <<seq_no, decoded>>

\* A bug Reject could have: it is counted only when it is decoded.
RejectUncounted(k) ==
  /\ Newer(k)
  /\ ~WellFormed(Packets[k])
  /\ UNCHANGED <<seq_no, decoded>>

\* One that is cut short has been counted.
Reject(k) ==
  /\ Newer(k)
  /\ ~WellFormed(Packets[k])
  /\ seq_no' = this_seq(k)
  /\ UNCHANGED decoded

\* The first unit goes to the decoder behind an ADTS header; the others are copied into
\* the same buffer and left there.
Accept(k) ==
  /\ Newer(k)
  /\ WellFormed(Packets[k])
  /\ seq_no' = this_seq(k)
  /\ decoded' = IF au_headers_num(Packets[k]) > 0
                  THEN Append(decoded, <<k, FirstByte(Packets[k]), Packets[k].units[1]>>)
                  ELSE decoded

parse_data(k) ==
  /\ Len(delivered) < Deliveries
  /\ delivered' = Append(delivered, k)
  /\ Ignore(k) \/ Reject(k) \/ Accept(k)

Next == \E k \in DOMAIN Packets : parse_data(k)

Spec == Init /\ [][Next]_vars

-------------------------------------------------------------------------------
\* The values the variables range over, and no more is decoded than arrived.
TypeOK ==
  /\ seq_no \in 0 .. SeqNumbers - 1
  /\ Range(delivered) \subseteq DOMAIN Packets /\ Len(delivered) <= Deliveries
  /\ \A d \in Range(decoded) : d[1] \in Range(delivered) /\ d[3] \in Range(Packets[d[1]].units)
  /\ Len(decoded) <= Cardinality({this_seq(k) : k \in Range(delivered)})

\* What is decoded, whatever the network does: the packets whose number is above the
\* number of every packet before, those that were too short included, in the order of
\* their numbers and once each.
NewestAreDecoded ==
  LET newest(n) == \A m \in 0 .. n - 1 :
                     this_seq(delivered[n]) > IF m = 0 THEN 0 ELSE this_seq(delivered[m])
      whole == {n \in DOMAIN delivered : newest(n) /\ WellFormed(Packets[delivered[n]])}
  IN  /\ {decoded[n][1] : n \in DOMAIN decoded} = {delivered[n] : n \in whole}
      /\ \A m, n \in DOMAIN decoded :
           m < n => this_seq(decoded[m][1]) < this_seq(decoded[n][1])

\* A packet of one unit, with a header of sixteen bits and nothing between the fixed
\* header and the section, gives the decoder exactly the bytes of its unit.
OneUnitIsWhole ==
  \A d \in Range(decoded) :
    LET p == Packets[d[1]] IN
    Len(p.units) = 1 /\ p.cc = 0 /\ p.ext = 0 /\ AU_headers_length(p) = 16 =>
      d[2] = hlen(p) + 2 + Bytes(AU_headers_length(p)) /\ d[3] = p.units[1]
==============================================================================
