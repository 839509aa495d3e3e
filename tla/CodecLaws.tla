----------------------------- MODULE CodecLaws ------------------------------
(***************************************************************************)
(* The laws of the framing, about every buffer: one that starts empty and  *)
(* grows a byte at a time, or, to get beyond what an int holds, by a       *)
(* stretch of zeros.                                                       *)
(***************************************************************************)
EXTENDS Codec, SequencesExt

CONSTANTS MaxLen,     (* bound: the buffers considered, but for ...        *)
          Stretches   (* ... as many zeros at their end                    *)

ASSUME LawsAssumption == Stretches \subseteq Nat

VARIABLE bytes

NoBytes == bytes = <<>>

Zeros(n) == [i \in 1 .. n |-> 0]

OneMore == \E byte \in Byte : bytes' = Append(bytes, byte)

Stretched == \E n \in Stretches : bytes' = bytes \o Zeros(n)

BytesSpec == NoBytes /\ [][Len(bytes) < MaxLen /\ (OneMore \/ Stretched)]_bytes

Encoded(packets) == FlattenSeq([i \in DOMAIN packets |-> packet_to_buffer(packets[i])])

(* Protobuf serialises no message of 2^31 bytes or more.                   *)
Serialisable(packet) == packet # <<>> /\ 2 * Len(packet) < SizeModulus

(* The int is positive: less the last four sizes before 2^31.              *)
Fits(packet) == 2 * (Len(packet) + HeaderLen) < SizeModulus

InIntRange(buffer) == 2 * Len(buffer) < SizeModulus

(***************************************************************************)
(* What packets_from_buffer reports as read is the encoding of the packets *)
(* it returns, so that erasing the reported length (server.cpp:165,211)    *)
(* removes those packets and nothing else; of a buffer of 2^31 bytes or    *)
(* more it reports at most that, and of none more than there is, which     *)
(* Client main.cpp:68 relies on.  Only a size that wraps makes it return   *)
(* packets that nobody sent.                                               *)
(***************************************************************************)
ReadIsWhatWasParsed ==
    LET result == packets_from_buffer(bytes)
    IN  /\ result.len <= Len(bytes)
        /\ ~result.overruns =>
               /\ IsPrefix(Encoded(result.packets), bytes)
               /\ result.len <= Len(Encoded(result.packets))
               /\ InIntRange(bytes) => result.len = Len(Encoded(result.packets))

(***************************************************************************)
(* Where the network cuts the stream does not matter: parsing a prefix,    *)
(* keeping the unread rest IN FRONT of what comes later and parsing again  *)
(* gives the packets of the whole, even behind a size that wraps.  It is   *)
(* the law a read buffer of fewer than 2^31 bytes relies on                *)
(* (packet.cpp:41-67).                                                     *)
(***************************************************************************)
ChunkingDoesNotMatter ==
    LET whole == packets_from_buffer(bytes)
    IN  InIntRange(bytes) =>
            \A k \in 0 .. Len(bytes) :
                LET first == packets_from_buffer(SubSeq(bytes, 1, k))
                    later == packets_from_buffer(Rest(bytes, first.len))
                IN  /\ first.packets \o later.packets = whole.packets
                    /\ first.len + later.len = whole.len

(***************************************************************************)
(* What packet_to_buffer writes, packet_from_buffer reads back, whatever   *)
(* bytes follow it, for every non-empty packet there is: here, the         *)
(* beginnings of bytes, followed by their rests.  But its length is taken  *)
(* for that of a frame, a positive one, only if the packet is at least     *)
(* four bytes short of 2^31 (packet.cpp:5-39, 69-85).                      *)
(***************************************************************************)
RoundTrip ==
    \A k \in 0 .. Len(bytes) :
        LET packet == SubSeq(bytes, 1, k)
            result == packet_from_buffer(packet_to_buffer(packet) \o Rest(bytes, k))
        IN  Serialisable(packet) => /\ result.packet = packet
                                    /\ result.len = ToInt(k + HeaderLen)
                                    /\ result.len > 0 <=> Fits(packet)
=============================================================================
