----------------------------- MODULE PacketProofs -----------------------------
(***************************************************************************)
(* What is put into a packet is what is read out of it, for every value    *)
(* that fits its field.                                                    *)
(***************************************************************************)
EXTENDS Packet, TLAPS

\* Two bytes in network order give back the number.
LEMMA Bytes16 ==
    ASSUME NEW x \in UInt16
    PROVE  256 * Byte16(x, 0) + Byte16(x, 1) = x
<1>1. x = 256 * (x \div 256) + (x % 256)
  BY SMT DEF UInt16
<1> QED
  BY <1>1 DEF Byte16

\* And four bytes.
LEMMA Bytes32 ==
    ASSUME NEW x \in UInt32
    PROVE  65536 * (256 * Byte32(x, 0) + Byte32(x, 1))
              + (256 * Byte32(x, 2) + Byte32(x, 3)) = x
<1> DEFINE h == x \div 65536
           l == x % 65536
<1>1. h \in UInt16 /\ l \in UInt16 /\ x = 65536 * h + l
  BY SMT DEF UInt16, UInt32
<1>2. 256 * Byte16(h, 0) + Byte16(h, 1) = h /\ 256 * Byte16(l, 0) + Byte16(l, 1) = l
  BY <1>1, Bytes16
<1>3. /\ Byte32(x, 0) = Byte16(h, 0) /\ Byte32(x, 1) = Byte16(h, 1)
      /\ Byte32(x, 2) = Byte16(l, 0) /\ Byte32(x, 3) = Byte16(l, 1)
  BY DEF Byte32
<1> HIDE DEF h, l
<1> QED
  BY <1>1, <1>2, <1>3

\* The header of a packet, byte by byte.
LEMMA HeaderBytes ==
    ASSUME NEW h \in Headers, NEW data, h.hlen = 20, h.plen >= 20
    PROVE  LET msg == packet_to_buf(h, data) IN
             /\ msg[0] = Byte16(h.src, 0) /\ msg[1] = Byte16(h.src, 1)
             /\ msg[2] = Byte16(h.dst, 0) /\ msg[3] = Byte16(h.dst, 1)
             /\ msg[4] = Byte32(h.seq, 0) /\ msg[5] = Byte32(h.seq, 1)
             /\ msg[6] = Byte32(h.seq, 2) /\ msg[7] = Byte32(h.seq, 3)
             /\ msg[8] = Byte32(h.ack, 0) /\ msg[9] = Byte32(h.ack, 1)
             /\ msg[10] = Byte32(h.ack, 2) /\ msg[11] = Byte32(h.ack, 3)
             /\ msg[12] = Byte16(h.hlen, 0) /\ msg[13] = Byte16(h.hlen, 1)
             /\ msg[14] = Byte16(h.plen, 0) /\ msg[15] = Byte16(h.plen, 1)
             /\ msg[16] = h.flags
             /\ msg[17] = Byte16(h.adv_window, 0) /\ msg[18] = Byte16(h.adv_window, 1)
             /\ msg[19] = h.ext
<1> DEFINE msg == packet_to_buf(h, data)
<1>1. h.plen \in Nat
  BY DEF Headers, UInt16
<1>2. ASSUME NEW i \in 0..19 PROVE msg[i] = header_in_char(h, i)
  <2>1. i \in 0..(h.plen - 1) /\ ~(i >= h.hlen)
    BY <1>1, <1>2
  <2> QED
    BY <2>1 DEF packet_to_buf
<1> HIDE DEF msg
<1>3. /\ msg[0] = Byte16(h.src, 0) /\ msg[1] = Byte16(h.src, 1)
      /\ msg[2] = Byte16(h.dst, 0) /\ msg[3] = Byte16(h.dst, 1)
  BY <1>2 DEF header_in_char
<1>4. /\ msg[4] = Byte32(h.seq, 0) /\ msg[5] = Byte32(h.seq, 1)
      /\ msg[6] = Byte32(h.seq, 2) /\ msg[7] = Byte32(h.seq, 3)
  BY <1>2 DEF header_in_char
<1>5. /\ msg[8] = Byte32(h.ack, 0) /\ msg[9] = Byte32(h.ack, 1)
      /\ msg[10] = Byte32(h.ack, 2) /\ msg[11] = Byte32(h.ack, 3)
  BY <1>2 DEF header_in_char
<1>6. /\ msg[12] = Byte16(h.hlen, 0) /\ msg[13] = Byte16(h.hlen, 1)
      /\ msg[14] = Byte16(h.plen, 0) /\ msg[15] = Byte16(h.plen, 1)
  BY <1>2 DEF header_in_char
<1>7. /\ msg[16] = h.flags /\ msg[19] = h.ext
      /\ msg[17] = Byte16(h.adv_window, 0) /\ msg[18] = Byte16(h.adv_window, 1)
  BY <1>2 DEF header_in_char
<1> QED
  BY <1>3, <1>4, <1>5, <1>6, <1>7 DEF msg

\* Every get_ operator returns the field it is named for.
LEMMA FieldsRead ==
    ASSUME NEW h \in Headers, NEW data, h.hlen = 20, h.plen >= 20
    PROVE  LET msg == packet_to_buf(h, data) IN
             /\ get_src(msg) = h.src /\ get_dst(msg) = h.dst
             /\ get_seq(msg) = h.seq /\ get_ack(msg) = h.ack
             /\ get_hlen(msg) = h.hlen /\ get_plen(msg) = h.plen
             /\ get_flags(msg) = h.flags /\ get_ext(msg) = h.ext
             /\ get_advertised_window(msg) = h.adv_window
<1> DEFINE msg == packet_to_buf(h, data)
<1>1. /\ msg[0] = Byte16(h.src, 0) /\ msg[1] = Byte16(h.src, 1)
      /\ msg[2] = Byte16(h.dst, 0) /\ msg[3] = Byte16(h.dst, 1)
      /\ msg[4] = Byte32(h.seq, 0) /\ msg[5] = Byte32(h.seq, 1)
      /\ msg[6] = Byte32(h.seq, 2) /\ msg[7] = Byte32(h.seq, 3)
      /\ msg[8] = Byte32(h.ack, 0) /\ msg[9] = Byte32(h.ack, 1)
      /\ msg[10] = Byte32(h.ack, 2) /\ msg[11] = Byte32(h.ack, 3)
      /\ msg[12] = Byte16(h.hlen, 0) /\ msg[13] = Byte16(h.hlen, 1)
      /\ msg[14] = Byte16(h.plen, 0) /\ msg[15] = Byte16(h.plen, 1)
      /\ msg[16] = h.flags
      /\ msg[17] = Byte16(h.adv_window, 0) /\ msg[18] = Byte16(h.adv_window, 1)
      /\ msg[19] = h.ext
  BY HeaderBytes
<1> HIDE DEF msg
<1>2. /\ h.src \in UInt16 /\ h.dst \in UInt16 /\ h.hlen \in UInt16 /\ h.plen \in UInt16
      /\ h.adv_window \in UInt16 /\ h.seq \in UInt32 /\ h.ack \in UInt32
  BY DEF Headers
<1>3. get_src(msg) = h.src /\ get_dst(msg) = h.dst
  BY <1>1, <1>2, Bytes16 DEF get_src, get_dst, Get16
<1>4. get_seq(msg) = h.seq
  BY <1>1, <1>2, Bytes32 DEF get_seq, Get32, Get16
<1>5. get_ack(msg) = h.ack
  BY <1>1, <1>2, Bytes32 DEF get_ack, Get32, Get16
<1>6. get_hlen(msg) = h.hlen /\ get_plen(msg) = h.plen
  BY <1>1, <1>2, Bytes16 DEF get_hlen, get_plen, Get16
<1>7. get_flags(msg) = h.flags /\ get_ext(msg) = h.ext
  BY <1>1 DEF get_flags, get_ext
<1>8. get_advertised_window(msg) = h.adv_window
  BY <1>1, <1>2, Bytes16 DEF get_advertised_window, Get16
<1> QED
  BY <1>3, <1>4, <1>5, <1>6, <1>7, <1>8 DEF msg

\* A packet built by create_packet_buf reads back as what was put in, its data
\* included; of the window, what 16 bits hold.
THEOREM PacketRoundTrip ==
    ASSUME NEW src \in UInt16, NEW dst \in UInt16, NEW seq \in UInt32,
           NEW ack \in UInt32, NEW flags \in UInt8, NEW adv \in Nat,
           NEW len \in Nat, len <= MAX_DLEN, NEW data \in [0..(len - 1) -> UInt8]
    PROVE  LET msg == create_packet_buf(src, dst, seq, ack, flags, adv, data, len) IN
             /\ get_src(msg) = src /\ get_dst(msg) = dst
             /\ get_seq(msg) = seq /\ get_ack(msg) = ack
             /\ get_flags(msg) = flags
             /\ get_advertised_window(msg) = adv % 65536
             /\ get_plen(msg) = 20 + len /\ get_plen(msg) <= MAX_LEN
             /\ Payload(msg) = data
<1> DEFINE h == [src |-> src, dst |-> dst, seq |-> seq, ack |-> ack,
                 hlen |-> DEFAULT_HEADER_LEN, plen |-> DEFAULT_HEADER_LEN + len,
                 flags |-> flags, adv_window |-> ToUInt16(adv), ext |-> 0]
           msg == packet_to_buf(h, data)
<1>1. ToUInt16(adv) \in UInt16
  BY SMT DEF ToUInt16, UInt16
<1>2. len \in Nat /\ len <= 1375
  BY DEF MAX_DLEN
<1>3. DEFAULT_HEADER_LEN \in UInt16 /\ DEFAULT_HEADER_LEN + len \in UInt16 /\ 0 \in UInt8
  BY <1>2 DEF DEFAULT_HEADER_LEN, UInt16, UInt8
<1>4. h \in Headers
  BY <1>1, <1>3 DEF Headers
<1>5. h.hlen = 20 /\ h.plen = 20 + len /\ h.plen >= 20
  BY <1>2 DEF DEFAULT_HEADER_LEN
<1>6. h.src = src /\ h.dst = dst /\ h.seq = seq /\ h.ack = ack /\ h.flags = flags
      /\ h.adv_window = adv % 65536
  BY DEF ToUInt16
<1> HIDE DEF h
<1>7. /\ get_src(msg) = h.src /\ get_dst(msg) = h.dst
      /\ get_seq(msg) = h.seq /\ get_ack(msg) = h.ack
      /\ get_hlen(msg) = h.hlen /\ get_plen(msg) = h.plen
      /\ get_flags(msg) = h.flags
      /\ get_advertised_window(msg) = h.adv_window
  BY <1>4, <1>5, FieldsRead
<1>8. ASSUME NEW i \in 0..(len - 1) PROVE msg[20 + i] = data[i]
  <2>1. 20 + i \in 0..(h.plen - 1) /\ 20 + i >= h.hlen /\ (20 + i) - h.hlen = i
    BY <1>2, <1>5, <1>8
  <2>2. msg[20 + i] = data[(20 + i) - h.hlen]
    BY <2>1 DEF packet_to_buf
  <2> QED
    BY <2>1, <2>2
<1> HIDE DEF msg
<1>9. Payload(msg) = [i \in 0..(len - 1) |-> msg[20 + i]]
  <2>1. get_plen(msg) - get_hlen(msg) - 1 = len - 1 /\ get_hlen(msg) = 20
    BY <1>2, <1>5, <1>7
  <2> QED
    BY <2>1 DEF Payload
<1>10. Payload(msg) = data
  BY <1>8, <1>9
<1>11. create_packet_buf(src, dst, seq, ack, flags, adv, data, len) = msg
  BY DEF create_packet_buf, msg, h
<1>12. get_plen(msg) = 20 + len /\ get_plen(msg) <= MAX_LEN
  BY <1>2, <1>5, <1>7 DEF MAX_LEN
<1> QED
  BY <1>6, <1>7, <1>10, <1>11, <1>12

\* The window of n segments that a receiver starts with reaches the sender as
\* it is up to 47 segments; the code has 32.  From 48 to 64, sizes the throughput
\* scripts name, the 16 bits of the field cut it to less than half of itself.
THEOREM WindowFits ==
    ASSUME NEW src \in UInt16, NEW dst \in UInt16, NEW seq \in UInt32,
           NEW ack \in UInt32, NEW flags \in UInt8, NEW n \in Nat, 0 < n, n <= 64,
           NEW len \in Nat, len <= MAX_DLEN, NEW data \in [0..(len - 1) -> UInt8]
    PROVE  LET window == get_advertised_window(
                    create_packet_buf(src, dst, seq, ack, flags, n * MAX_DLEN, data, len)) IN
             /\ n <= 47 => window = n * MAX_DLEN
             /\ n >= 48 => 2 * window < n * MAX_DLEN
<1> DEFINE w == n * MAX_DLEN
<1>1. w \in Nat /\ w = 1375 * n
  BY DEF MAX_DLEN
<1> HIDE DEF w
<1>2. get_advertised_window(create_packet_buf(src, dst, seq, ack, flags, w, data, len)) = w % 65536
  BY <1>1, PacketRoundTrip
<1>3. n <= 47 => w % 65536 = w
  BY <1>1
<1>4. n >= 48 => w % 65536 = w - 65536 /\ w <= 88000
  BY <1>1
<1> QED
  BY <1>1, <1>2, <1>3, <1>4 DEF w
=============================================================================
