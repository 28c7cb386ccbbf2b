-------------------------------- MODULE Packet --------------------------------
(***************************************************************************)
(* tju_packet.c: a packet as the bytes that travel.  create_packet_buf     *)
(* lays the header and the data out in network byte order; the get_...     *)
(* operators read a field back at its offset.  Arguments are converted to  *)
(* the widths of the C parameters, that is, truncated.                     *)
(*                                                                         *)
(* The other modules carry the fields of a packet in records: the theorems *)
(* of PacketProofs say when that is right.                                 *)
(***************************************************************************)
EXTENDS Integers

DEFAULT_HEADER_LEN == 20
MAX_DLEN == 1375
MAX_LEN == 1400

UInt8 == {x \in Nat : x < 256}
UInt16 == {x \in Nat : x < 65536}
UInt32 == {x \in Nat : x < 4294967296}

SYN_FLAG_MASK == 8
ACK_FLAG_MASK == 4
FIN_FLAG_MASK == 2

\* Conversion to a parameter of 16 bits.
ToUInt16(x) == x % 65536

\* htons and htonl, and memcpy: byte k of a number in network order.
Byte16(x, k) == IF k = 0 THEN x \div 256 ELSE x % 256
Byte32(x, k) ==
    IF k < 2 THEN Byte16(x \div 65536, k) ELSE Byte16(x % 65536, k - 2)

\* ntohs and ntohl of the bytes of msg at an offset.
Get16(msg, offset) == 256 * msg[offset] + msg[offset + 1]
Get32(msg, offset) == 65536 * Get16(msg, offset) + Get16(msg, offset + 2)

\* The fields of tju_header_t.
Headers ==
    [src : UInt16, dst : UInt16, seq : UInt32, ack : UInt32, hlen : UInt16,
     plen : UInt16, flags : UInt8, adv_window : UInt16, ext : UInt8]

\* header_in_char: byte i of the header.
header_in_char(h, i) ==
    CASE i \in 0..1   -> Byte16(h.src, i)
      [] i \in 2..3   -> Byte16(h.dst, i - 2)
      [] i \in 4..7   -> Byte32(h.seq, i - 4)
      [] i \in 8..11  -> Byte32(h.ack, i - 8)
      [] i \in 12..13 -> Byte16(h.hlen, i - 12)
      [] i \in 14..15 -> Byte16(h.plen, i - 14)
      [] i = 16       -> h.flags
      [] i \in 17..18 -> Byte16(h.adv_window, i - 17)
      [] i = 19       -> h.ext

\* packet_to_buf: plen bytes; the data, numbered from 0, are copied to hlen on.
packet_to_buf(h, data) ==
    [i \in 0..(h.plen - 1) |->
        IF i >= h.hlen THEN data[i - h.hlen] ELSE header_in_char(h, i)]

\* create_packet and create_packet_buf, as every caller uses them: the header
\* has its default length, ext is 0, len is what plen says.
create_packet_buf(src, dst, seq, ack, flags, adv_window, data, len) ==
    packet_to_buf(
        [src |-> src, dst |-> dst, seq |-> seq, ack |-> ack,
         hlen |-> DEFAULT_HEADER_LEN, plen |-> DEFAULT_HEADER_LEN + len,
         flags |-> flags, adv_window |-> ToUInt16(adv_window), ext |-> 0],
        data)

get_src(msg) == Get16(msg, 0)
get_dst(msg) == Get16(msg, 2)
get_seq(msg) == Get32(msg, 4)
get_ack(msg) == Get32(msg, 8)
get_hlen(msg) == Get16(msg, 12)
get_plen(msg) == Get16(msg, 14)
get_flags(msg) == msg[16]
get_advertised_window(msg) == Get16(msg, 17)
get_ext(msg) == msg[19]

\* What the receiver of a data segment copies: dlen bytes from hlen on.
Payload(msg) ==
    [i \in 0..(get_plen(msg) - get_hlen(msg) - 1) |-> msg[get_hlen(msg) + i]]
=============================================================================
