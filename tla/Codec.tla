------------------------------- MODULE Codec -------------------------------
(***************************************************************************)
(* The framing of Protocol/src/packet.cpp: a packet travels as a header of *)
(* four bytes that holds the size of its serialised form, least            *)
(* significant byte first, followed by that form.                          *)
(*                                                                         *)
(* A serialised packet is a sequence of bytes; protobuf's own encoding is  *)
(* not modelled.  A byte has ByteBase values, 256 in the program; it is a  *)
(* parameter so that all buffers of a few bytes can be enumerated.         *)
(***************************************************************************)
EXTENDS Integers, Sequences

CONSTANT ByteBase

ASSUME CodecAssumption == ByteBase \in Nat \ {0, 1}

Byte == 0 .. ByteBase - 1

HeaderLen == 4

(* Sizes are uint32_t: they are counted modulo 2^32.                       *)
SizeModulus == ByteBase * ByteBase * ByteBase * ByteBase

(* Mutant: the most significant byte first.                                *)
HeaderReversed(size) ==
    << (size \div (ByteBase * ByteBase * ByteBase)) % ByteBase,
       (size \div (ByteBase * ByteBase)) % ByteBase,
       (size \div ByteBase) % ByteBase,
       size % ByteBase >>

Header(size) ==
    << size % ByteBase,
       (size \div ByteBase) % ByteBase,
       (size \div (ByteBase * ByteBase)) % ByteBase,
       (size \div (ByteBase * ByteBase * ByteBase)) % ByteBase >>

packet_to_buffer(packet) == Header(Len(packet)) \o packet

HeaderSize(buffer) ==
    buffer[1] + ByteBase * (buffer[2] + ByteBase * (buffer[3] + ByteBase * buffer[4]))

(* What an int holds after the uint32_t n, or an int sum that overflows    *)
(* (undefined behaviour, which wraps in the builds), is stored in it.      *)
ToInt(n) == IF 2 * n < SizeModulus THEN n ELSE n - SizeModulus

(***************************************************************************)
(* "size + 4" is a uint32_t sum.  When it wraps, the test of packet.cpp:23 *)
(* succeeds whatever the buffer holds: the vector of almost 2^32 bytes may *)
(* not be had, and the copy into it runs past the end of the buffer.       *)
(* Either may end the process; where they do not, packet_from_buffer       *)
(* returns the wrapped length and an empty packet.                         *)
(***************************************************************************)
SizeWraps(buffer) ==
    /\ Len(buffer) >= HeaderLen
    /\ HeaderSize(buffer) + HeaderLen >= SizeModulus

(* The size is an int to protobuf, which parses nothing of a negative one. *)
ParseFromArray(buffer, size) ==
    IF ToInt(size) < 0 THEN <<>> ELSE SubSeq(buffer, HeaderLen + 1, HeaderLen + size)

NoPacket == [len |-> 0, packet |-> <<>>]

(* Mutants: a frame that ends the buffer is left for later; the header is  *)
(* not counted.                                                            *)
packet_from_bufferStrict(buffer) ==
    LET size == HeaderSize(buffer)
        end  == (size + HeaderLen) % SizeModulus
    IN  IF Len(buffer) >= HeaderLen /\ size > 0 /\ Len(buffer) > end
        THEN [len |-> ToInt(end), packet |-> ParseFromArray(buffer, size)]
        ELSE NoPacket

packet_from_bufferHeaderless(buffer) ==
    LET size == HeaderSize(buffer)
        end  == (size + HeaderLen) % SizeModulus
    IN  IF Len(buffer) >= HeaderLen /\ size > 0 /\ Len(buffer) >= end
        THEN [len |-> ToInt(size), packet |-> ParseFromArray(buffer, size)]
        ELSE NoPacket

packet_from_buffer(buffer) ==
    LET size == HeaderSize(buffer)
        end  == (size + HeaderLen) % SizeModulus
    IN  IF Len(buffer) >= HeaderLen /\ size > 0 /\ Len(buffer) >= end
        THEN [len |-> ToInt(end), packet |-> ParseFromArray(buffer, size)]
        ELSE NoPacket

(* What is left of buffer behind its first readLength bytes.               *)
Rest(buffer, readLength) == SubSeq(buffer, readLength + 1, Len(buffer))

(* The values readLength, an int, can have while the loop goes on.         *)
ReadLengths(buffer) == {n \in 0 .. Len(buffer) : 2 * n < SizeModulus}

(* Mutant: what is left over counts as read.                               *)
packets_from_bufferToTheEnd(buffer) ==
    LET cut[readLength \in ReadLengths(buffer)] ==
            LET rest   == Rest(buffer, readLength)
                result == packet_from_buffer(rest)
                next   == ToInt(readLength + result.len)
                found  == IF result.len > 0 THEN <<result.packet>> ELSE <<>>
            IN  IF result.len > 0 /\ next >= 0
                THEN LET more == cut[next]
                     IN  [len      |-> more.len,
                          packets  |-> found \o more.packets,
                          overruns |-> SizeWraps(rest) \/ more.overruns]
                ELSE [len |-> Len(buffer), packets |-> found, overruns |-> SizeWraps(rest)]
    IN  cut[0]

(***************************************************************************)
(* The loop of packets_from_buffer as a function of readLength: packets    *)
(* are cut off the front until none is found or readLength overflows, and  *)
(* then even what was found may come with a length that is not positive.   *)
(* overruns, no part of the result, tells that some size on the way wraps. *)
(***************************************************************************)
packets_from_buffer(buffer) ==
    LET cut[readLength \in ReadLengths(buffer)] ==
            LET rest   == Rest(buffer, readLength)
                result == packet_from_buffer(rest)
                next   == ToInt(readLength + result.len)
                found  == IF result.len > 0 THEN <<result.packet>> ELSE <<>>
            IN  IF result.len > 0 /\ next >= 0
                THEN LET more == cut[next]
                     IN  [len      |-> more.len,
                          packets  |-> found \o more.packets,
                          overruns |-> SizeWraps(rest) \/ more.overruns]
                ELSE [len |-> next, packets |-> found, overruns |-> SizeWraps(rest)]
    IN  cut[0]
=============================================================================
