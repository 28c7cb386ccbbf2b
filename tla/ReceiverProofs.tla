--------------------------- MODULE ReceiverProofs ---------------------------
(***************************************************************************)
(* Proofs about Receiver, for every window and buffer size, every stream   *)
(* length and every set of readers that satisfy SizesAssumption.           *)
(***************************************************************************)
EXTENDS Receiver, SequenceTheorems, TLAPS

\* The bytes the handler moves out of the window: as many as it counted, and
\* they continue the stream after those already delivered.
LEMMA HeadBytesContinue ==
    ASSUME ReceiverInv, hpc = "deliver"
    PROVE  /\ HeadBytes \in Seq(Nat)
           /\ Len(HeadBytes) = hfree
           /\ \A i \in 1..hfree : HeadBytes[i] = expect_seq + i - 1
           /\ expect_seq + hfree <= written + 1
<1>1. hfree \in 1..(MAX_RWINDOW_SIZE - 1)
  BY SizesAssumption DEF ReceiverInv, TypeOK, DeliverReady
<1>2. \A i \in 1..hfree : win[i - 1] \in Nat
  BY <1>1, SizesAssumption DEF ReceiverInv, TypeOK, Slots
<1>3. \A i \in 1..hfree : win[i - 1] = expect_seq + (i - 1) /\ win[i - 1] <= written
  BY <1>1, SizesAssumption
  DEF ReceiverInv, TypeOK, DeliverReady, WindowAligned, Slots
<1>4. HeadBytes \in Seq(Nat) /\ Len(HeadBytes) = hfree
  BY <1>1, <1>2 DEF HeadBytes
<1>5. \A i \in 1..hfree : HeadBytes[i] = win[i - 1]
  BY <1>1 DEF HeadBytes
<1>6. expect_seq + (hfree - 1) <= written
  BY <1>1, <1>3
<1>7. expect_seq \in Nat /\ written \in Nat
  BY SizesAssumption DEF ReceiverInv, TypeOK
<1>8. \A i \in 1..hfree : HeadBytes[i] = expect_seq + i - 1
  BY <1>1, <1>3, <1>5, <1>7
<1>9. expect_seq + hfree <= written + 1
  BY <1>1, <1>6, <1>7
<1> QED
  BY <1>4, <1>8, <1>9

\* Storing the payload of a segment of the peer keeps the window aligned, its
\* last slot unmarked and every marked slot marked.
LEMMA StoredAligned ==
    ASSUME ReceiverInv,
           NEW p \in DataSegments \cup Probes, p.seq >= expect_seq
    PROVE  /\ Stored(p) \in [Slots -> Nat]
           /\ \A i \in Slots : Stored(p)[i] # 0 =>
                Stored(p)[i] = expect_seq + i /\ Stored(p)[i] <= written
           /\ Stored(p)[MAX_RWINDOW_SIZE - 1] = 0
           /\ \A i \in Slots : win[i] # 0 => Stored(p)[i] = win[i]
<1>1. p \in DataSegments /\ p.seq \in Nat /\ p.off = p.seq
          /\ p.dlen \in Nat /\ p.seq + p.dlen <= written + 1
  BY SizesAssumption DEF DataSegments, Probes, ReceiverInv, TypeOK
<1>2. CASE ~WindowHolds(p)
  BY <1>2 DEF Stored, ReceiverInv, TypeOK, WindowAligned, ScanStops
<1>3. CASE WindowHolds(p)
  <2>. DEFINE last == MAX_RWINDOW_SIZE - 1
  <2>0. last \in Slots /\ last \in Nat /\ expect_seq \in Nat /\ written \in Nat
    BY SizesAssumption DEF Slots, ReceiverInv, TypeOK
  <2>1. \A i \in Slots : Stored(p)[i] =
            IF p.seq <= expect_seq + i /\ expect_seq + i < p.seq + p.dlen
            THEN p.off + (expect_seq + i - p.seq) ELSE win[i]
    BY <1>3 DEF Stored
  <2>2. \A i \in Slots : Stored(p)[i] =
            IF p.seq <= expect_seq + i /\ expect_seq + i < p.seq + p.dlen
            THEN expect_seq + i ELSE win[i]
    <3> TAKE i \in Slots
    <3>1. i \in Nat
      BY SizesAssumption DEF Slots
    <3>2. p.off + (expect_seq + i - p.seq) = expect_seq + i
      BY <1>1, <2>0, <3>1
    <3> QED
      BY <2>1, <3>2
  <2>3. Stored(p) \in [Slots -> Nat]
    <3>1. ASSUME NEW i \in Slots PROVE Stored(p)[i] \in Nat
      <4>1. i \in Nat
        BY SizesAssumption DEF Slots
      <4>2. win[i] \in Nat /\ expect_seq + i \in Nat
        BY <2>0, <4>1 DEF ReceiverInv, TypeOK
      <4> QED
        BY <2>2, <4>2
    <3> QED
      BY <1>3, <3>1 DEF Stored
  <2>4. Stored(p)[last] = 0
    <3>1. ~(expect_seq + last < p.seq + p.dlen)
      BY <1>1, <1>3, <2>0, SizesAssumption DEF WindowHolds
    <3>2. Stored(p)[last] = win[last]
      BY <3>1, <2>0, <2>2
    <3> QED
      BY <3>2 DEF ReceiverInv, ScanStops
  <2>5. \A i \in Slots : Stored(p)[i] # 0 =>
            Stored(p)[i] = expect_seq + i /\ Stored(p)[i] <= written
    <3> TAKE i \in Slots
    <3>1. i \in Nat
      BY SizesAssumption DEF Slots
    <3>2. CASE p.seq <= expect_seq + i /\ expect_seq + i < p.seq + p.dlen
      BY <1>1, <2>0, <2>2, <3>1, <3>2
    <3>3. CASE ~(p.seq <= expect_seq + i /\ expect_seq + i < p.seq + p.dlen)
      BY <2>2, <3>3 DEF ReceiverInv, WindowAligned
    <3> QED
      BY <3>2, <3>3
  <2>6. \A i \in Slots : win[i] # 0 => Stored(p)[i] = win[i]
    BY <2>2 DEF ReceiverInv, WindowAligned
  <2> QED
    BY <2>3, <2>4, <2>5, <2>6
<1> QED
  BY <1>2, <1>3

\* Reading n bytes: what is returned and what is kept continue the stream.
LEMMA ReadContinues ==
    ASSUME ReceiverInv, NEW n \in 0..Len(received_buf)
    PROVE  LET ret == app \o SubSeq(received_buf, 1, n)
               rest == SubSeq(received_buf, n + 1, Len(received_buf)) IN
           /\ ret \in Seq(Nat) /\ rest \in Seq(Nat)
           /\ Len(ret) = Len(app) + n /\ Len(rest) = Len(received_buf) - n
           /\ \A i \in 1..Len(ret) : ret[i] = i
           /\ \A i \in 1..Len(rest) : rest[i] = Len(ret) + i
<1> DEFINE head == SubSeq(received_buf, 1, n)
           rest == SubSeq(received_buf, n + 1, Len(received_buf))
           ret == app \o head
<1>1. received_buf \in Seq(Nat) /\ app \in Seq(Nat)
          /\ Len(received_buf) \in Nat /\ Len(app) \in Nat /\ n \in Nat
  BY DEF ReceiverInv, TypeOK
<1>2. head \in Seq(Nat) /\ Len(head) = n
          /\ \A i \in 1..n : head[i] = received_buf[i]
  BY <1>1
<1>3. rest \in Seq(Nat) /\ Len(rest) = Len(received_buf) - n
          /\ \A i \in 1..(Len(received_buf) - n) : rest[i] = received_buf[n + i]
  BY <1>1, SubSeqProperties
<1>4. ret \in Seq(Nat) /\ Len(ret) = Len(app) + n
  BY <1>1, <1>2
<1>5. \A i \in 1..Len(app) : app[i] = i
  BY DEF ReceiverInv, InOrder
<1>6. \A i \in 1..Len(received_buf) : received_buf[i] = Len(app) + i
  BY DEF ReceiverInv, InOrder
<1>7. ASSUME NEW i \in 1..Len(ret) PROVE ret[i] = i
  <2> HIDE DEF head
  <2>1. CASE i <= Len(app)
    BY <1>1, <1>2, <1>4, <1>5, <2>1
  <2>2. CASE i > Len(app)
    <3>1. i - Len(app) \in 1..n
      BY <1>1, <1>4, <2>2
    <3>2. ret[i] = head[i - Len(app)]
      BY <1>1, <1>2, <1>4, <2>2
    <3>3. head[i - Len(app)] = received_buf[i - Len(app)]
      BY <1>2, <3>1
    <3> QED
      BY <1>1, <1>4, <1>6, <3>1, <3>2, <3>3
  <2> QED
    BY <1>1, <1>4, <2>1, <2>2
<1>8. ASSUME NEW i \in 1..Len(rest) PROVE rest[i] = Len(ret) + i
  <2>1. n + i \in 1..Len(received_buf) /\ i \in 1..(Len(received_buf) - n)
    BY <1>1, <1>3
  <2>2. rest[i] = received_buf[n + i]
    BY <1>3, <2>1
  <2>3. received_buf[n + i] = Len(app) + (n + i)
    BY <1>6, <2>1
  <2> HIDE DEF rest, ret
  <2> QED
    BY <1>1, <1>3, <1>4, <2>1, <2>2, <2>3
<1> QED
  BY <1>3, <1>4, <1>7, <1>8

LEMMA InitInv == Init => ReceiverInv
<1> SUFFICES ASSUME Init PROVE ReceiverInv
  OBVIOUS
<1> USE DEF Init
<1>1. TypeOK
  <2>1. win \in [Slots -> Nat]
    OBVIOUS
  <2>2. received_buf \in Seq(Nat) /\ app \in Seq(Nat)
    OBVIOUS
  <2>3. MAX_RWINDOW_SIZE \in 1..MAX_RWINDOW_SIZE /\ 0 \in 0..(MAX_RWINDOW_SIZE - 1)
    BY SizesAssumption
  <2>4. ack_sent \in [ack : Nat, wnd : 1..MAX_RWINDOW_SIZE]
    BY <2>3
  <2>5. rpc \in [Readers -> {"out", "copy"}] /\ rlen \in [Readers -> Nat]
    OBVIOUS
  <2>6. written \in 0..StreamLen
    BY SizesAssumption
  <2> QED
    BY <2>1, <2>2, <2>3, <2>4, <2>5, <2>6 DEF TypeOK
<1>2. InOrder /\ WindowAligned /\ DeliverReady
  BY DEF InOrder, WindowAligned, DeliverReady
<1>3. ScanStops
  BY SizesAssumption DEF ScanStops, Slots
<1>4. /\ ack_sent.ack <= expect_seq
      /\ expect_seq <= written + 1
      /\ Len(received_buf) <= MAX_SOCK_BUF_SIZE
  BY SizesAssumption
<1> QED
  BY <1>1, <1>2, <1>3, <1>4 DEF ReceiverInv

\* One lemma per action: each preserves the inductive invariant.
LEMMA PeerWriteInv == ReceiverInv /\ PeerWrite => ReceiverInv'
<1> SUFFICES ASSUME ReceiverInv, PeerWrite PROVE ReceiverInv'
  OBVIOUS
<1> USE DEF PeerWrite, winVars, readVars
<1>0. written \in Nat /\ written' \in Nat /\ written <= written' /\ written' \in 0..StreamLen
  BY SizesAssumption DEF ReceiverInv, TypeOK
<1>1. TypeOK'
  BY <1>0 DEF ReceiverInv, TypeOK
<1>2. InOrder' /\ ScanStops' /\ DeliverReady'
  BY DEF ReceiverInv, InOrder, ScanStops, DeliverReady
<1>3. WindowAligned'
  <2>1. ASSUME NEW i \in Slots, win[i] # 0 PROVE win[i] = expect_seq + i /\ win[i] <= written'
    <3>1. win[i] \in Nat /\ win[i] = expect_seq + i /\ win[i] <= written
      BY <2>1 DEF ReceiverInv, TypeOK, WindowAligned
    <3> QED
      BY <1>0, <3>1
  <2> QED
    BY <2>1 DEF WindowAligned
<1>4. ack_sent' = ack_sent /\ expect_seq' = expect_seq /\ received_buf' = received_buf
  OBVIOUS
<1>5. expect_seq' <= written' + 1
  <2>1. expect_seq \in Nat
    BY DEF ReceiverInv, TypeOK
  <2>2. expect_seq <= written + 1
    BY DEF ReceiverInv
  <2>3. \A w \in Nat : written <= w => expect_seq <= w + 1
    BY <1>0, <2>1, <2>2
  <2>4. expect_seq <= written' + 1
    BY <1>0, <2>3, Zenon
  <2> QED
    BY <1>4, <2>4, Zenon
<1>6. ack_sent'.ack <= expect_seq' /\ Len(received_buf') <= MAX_SOCK_BUF_SIZE
  BY <1>4 DEF ReceiverInv
<1> QED
  BY <1>1, <1>2, <1>3, <1>5, <1>6 DEF ReceiverInv

LEMMA HandleInv ==
    ASSUME ReceiverInv, NEW p \in DataSegments \cup Probes, Handle(p)
    PROVE  ReceiverInv'
<1>0. /\ expect_seq \in Nat /\ remain_size \in 1..MAX_RWINDOW_SIZE
      /\ hfree \in 0..(MAX_RWINDOW_SIZE - 1)
  BY DEF ReceiverInv, TypeOK
<1>1. CASE HandleOld(p)
  <2> USE DEF HandleOld, winVars, readVars, SendAck
  <2>1. TypeOK'
    BY <1>0, <1>1 DEF ReceiverInv, TypeOK
  <2>2. InOrder' /\ WindowAligned' /\ ScanStops' /\ DeliverReady'
    BY <1>1 DEF ReceiverInv, InOrder, WindowAligned, ScanStops, DeliverReady
  <2> QED
    BY <1>0, <1>1, <2>1, <2>2 DEF ReceiverInv
<1>2. CASE HandleGap(p) \/ HandleBlocked(p) \/ HandleFits(p)
  <2>1. /\ hpc = "idle"
        /\ p.seq >= expect_seq
        /\ win' = Stored(p)
        /\ UNCHANGED <<written, expect_seq, received_buf, rpc, rlen, app>>
    BY <1>2 DEF HandleGap, HandleBlocked, HandleFits, readVars
  <2>2. /\ win' \in [Slots -> Nat]
        /\ WindowAligned'
        /\ ScanStops'
    BY <2>1, StoredAligned DEF WindowAligned, ScanStops
  <2>3. InOrder'
    BY <2>1 DEF ReceiverInv, InOrder
  <2>4. /\ hpc' \in {"idle", "deliver"}
        /\ hfree' \in 0..(MAX_RWINDOW_SIZE - 1)
        /\ remain_size' \in 1..MAX_RWINDOW_SIZE
        /\ ack_sent' \in [ack : Nat, wnd : 1..MAX_RWINDOW_SIZE]
        /\ ack_sent'.ack <= expect_seq'
        /\ DeliverReady'
    <3>1. CASE HandleGap(p)
      BY <1>0, <3>1 DEF HandleGap, SendAck, readVars, DeliverReady
    <3>2. CASE HandleBlocked(p)
      <4>1. PICK n \in Slots \ {0} : remain_size' = MAX_RWINDOW_SIZE - n
        BY <3>2 DEF HandleBlocked, RemainBlocked
      <4>2. remain_size' \in 1..MAX_RWINDOW_SIZE
        BY <4>1, SizesAssumption DEF Slots
      <4>3. /\ UNCHANGED <<hpc, hfree, expect_seq>>
            /\ ack_sent' = [ack |-> expect_seq', wnd |-> remain_size']
        BY <3>2 DEF HandleBlocked, SendAck
      <4> QED
        BY <1>0, <2>1, <4>2, <4>3 DEF DeliverReady
    <3>3. CASE HandleFits(p)
      <4>1. PICK n \in Slots \ {0} :
              /\ hfree' = n
              /\ \A i \in 0..(n - 1) : win'[i] # 0
              /\ ~NoRoom(n)
        BY <3>3 DEF HandleFits, IsFreeLen
      <4>2. n \in Nat /\ n > 0 /\ n \in 0..(MAX_RWINDOW_SIZE - 1)
        BY <4>1, SizesAssumption DEF Slots
      <4>3. Len(received_buf) \in Nat /\ Len(received_buf) + n <= MAX_SOCK_BUF_SIZE
        BY <4>1, <4>2, SizesAssumption DEF NoRoom, ReceiverInv, TypeOK
      <4>4. DeliverReady'
        BY <2>1, <4>1, <4>2, <4>3 DEF DeliverReady
      <4>5. /\ hpc' = "deliver" /\ remain_size' = MAX_RWINDOW_SIZE
            /\ ack_sent' = ack_sent /\ expect_seq' = expect_seq
        BY <3>3 DEF HandleFits
      <4>6. ack_sent \in [ack : Nat, wnd : 1..MAX_RWINDOW_SIZE] /\ ack_sent.ack <= expect_seq
        BY DEF ReceiverInv, TypeOK
      <4> QED
        BY <4>1, <4>2, <4>4, <4>5, <4>6, SizesAssumption
    <3> QED
      BY <1>2, <3>1, <3>2, <3>3
  <2>5. TypeOK'
    BY <2>1, <2>2, <2>4 DEF ReceiverInv, TypeOK
  <2>6. expect_seq' <= written' + 1 /\ Len(received_buf') <= MAX_SOCK_BUF_SIZE
    BY <2>1 DEF ReceiverInv
  <2> QED
    BY <2>2, <2>3, <2>4, <2>5, <2>6 DEF ReceiverInv
<1> QED
  BY <1>1, <1>2 DEF Handle

LEMMA DeliverInv == ReceiverInv /\ Deliver => ReceiverInv'
<1> SUFFICES ASSUME ReceiverInv, Deliver PROVE ReceiverInv'
  OBVIOUS
<1>1. /\ hpc = "deliver"
      /\ received_buf' = received_buf \o HeadBytes
      /\ win' = Shifted(win, hfree)
      /\ expect_seq' = expect_seq + hfree
      /\ hpc' = "idle" /\ hfree' = 0
      /\ UNCHANGED <<written, remain_size, rpc, rlen, app>>
      /\ ack_sent' = [ack |-> expect_seq', wnd |-> remain_size']
  BY DEF Deliver, SendAck, readVars
<1>2. /\ expect_seq \in Nat \ {0} /\ hfree \in Nat /\ hfree > 0
      /\ hfree \in 0..(MAX_RWINDOW_SIZE - 1)
      /\ received_buf \in Seq(Nat) /\ Len(received_buf) \in Nat /\ Len(app) \in Nat
      /\ expect_seq = Len(app) + Len(received_buf) + 1
      /\ Len(received_buf) + hfree <= MAX_SOCK_BUF_SIZE
  BY <1>1, SizesAssumption DEF ReceiverInv, TypeOK, InOrder, DeliverReady
<1>3. /\ HeadBytes \in Seq(Nat)
      /\ Len(HeadBytes) = hfree
      /\ \A i \in 1..hfree : HeadBytes[i] = expect_seq + i - 1
      /\ expect_seq + hfree <= written + 1
  BY <1>1, HeadBytesContinue
<1>4. received_buf' \in Seq(Nat) /\ Len(received_buf') = Len(received_buf) + hfree
  BY <1>1, <1>2, <1>3, ConcatProperties
<1>5. InOrder'
  <2>1. expect_seq' = Len(app') + Len(received_buf') + 1
    BY <1>1, <1>2, <1>4
  <2>2. \A i \in 1..Len(app') : app'[i] = i
    BY <1>1 DEF ReceiverInv, InOrder
  <2>3. ASSUME NEW i \in 1..Len(received_buf') PROVE received_buf'[i] = Len(app) + i
    <3>1. CASE i <= Len(received_buf)
      <4>1. received_buf'[i] = received_buf[i]
        BY <1>1, <1>2, <1>3, <1>4, <3>1
      <4> QED
        BY <1>2, <1>4, <3>1, <4>1 DEF ReceiverInv, InOrder
    <3>2. CASE i > Len(received_buf)
      <4>1. i - Len(received_buf) \in 1..hfree
        BY <1>2, <1>4, <3>2
      <4>2. received_buf'[i] = HeadBytes[i - Len(received_buf)]
        BY <1>1, <1>2, <1>3, <1>4, <3>2
      <4>3. HeadBytes[i - Len(received_buf)] = expect_seq + (i - Len(received_buf)) - 1
        BY <1>3, <4>1
      <4> QED
        BY <1>2, <1>4, <4>2, <4>3
    <3> QED
      BY <1>2, <1>4, <3>1, <3>2
  <2> QED
    BY <1>1, <2>1, <2>2, <2>3 DEF InOrder
<1>6. /\ win' \in [Slots -> Nat]
      /\ WindowAligned'
      /\ ScanStops'
  <2>1. ASSUME NEW i \in Slots
        PROVE  /\ win'[i] \in Nat
               /\ win'[i] # 0 => win'[i] = expect_seq' + i /\ win'[i] <= written'
    <3>1. CASE i + hfree \in Slots
      <4>1. win'[i] = win[i + hfree]
        BY <1>1, <3>1 DEF Shifted
      <4>2. win[i + hfree] \in Nat
        BY <3>1 DEF ReceiverInv, TypeOK
      <4>3. win[i + hfree] # 0 =>
              win[i + hfree] = expect_seq + (i + hfree) /\ win[i + hfree] <= written
        BY <3>1 DEF ReceiverInv, WindowAligned
      <4>4. expect_seq + (i + hfree) = expect_seq' + i
        BY <1>1, <1>2, SizesAssumption DEF Slots
      <4> QED
        BY <1>1, <4>1, <4>2, <4>3, <4>4
    <3>2. CASE i + hfree \notin Slots
      BY <1>1, <3>2 DEF Shifted
    <3> QED
      BY <3>1, <3>2
  <2>2. win' \in [Slots -> Nat]
    BY <1>1, <2>1 DEF Shifted
  <2>3. MAX_RWINDOW_SIZE - 1 \in Slots /\ (MAX_RWINDOW_SIZE - 1) + hfree \notin Slots
    BY <1>2, SizesAssumption DEF Slots
  <2>4. win'[MAX_RWINDOW_SIZE - 1] = 0
    BY <1>1, <2>3 DEF Shifted
  <2> QED
    BY <2>1, <2>2, <2>4 DEF WindowAligned, ScanStops
<1>7. TypeOK'
  <2>1. expect_seq' \in Nat \ {0} /\ hfree' \in 0..(MAX_RWINDOW_SIZE - 1)
    BY <1>1, <1>2, SizesAssumption
  <2>2. remain_size' \in 1..MAX_RWINDOW_SIZE
    BY <1>1 DEF ReceiverInv, TypeOK
  <2>3. ack_sent' \in [ack : Nat, wnd : 1..MAX_RWINDOW_SIZE]
    BY <1>1, <2>1, <2>2
  <2> QED
    BY <1>1, <1>4, <1>6, <2>1, <2>2, <2>3 DEF ReceiverInv, TypeOK
<1>8. ack_sent'.ack <= expect_seq'
  BY <1>1, <1>2
<1>9. expect_seq' <= written' + 1 /\ Len(received_buf') <= MAX_SOCK_BUF_SIZE
  BY <1>1, <1>2, <1>3, <1>4
<1>10. DeliverReady'
  BY <1>1 DEF DeliverReady
<1> QED
  BY <1>5, <1>6, <1>7, <1>8, <1>9, <1>10 DEF ReceiverInv

LEMMA RecvInv ==
    ASSUME ReceiverInv, NEW r \in Readers, Recv(r)
    PROVE  ReceiverInv'
<1>0. RecvLens \subseteq Nat \ {0}
  BY SizesAssumption
<1>1. CASE RecvSee(r)
  <2>1. UNCHANGED <<written, expect_seq, win, received_buf, remain_size,
                    ack_sent, hpc, hfree, app>>
    BY <1>1 DEF RecvSee, winVars
  <2>2. rpc' \in [Readers -> {"out", "copy"}] /\ rlen' \in [Readers -> Nat]
    BY <1>0, <1>1 DEF RecvSee, ReceiverInv, TypeOK
  <2>3. TypeOK'
    BY <2>1, <2>2 DEF ReceiverInv, TypeOK
  <2>4. InOrder' /\ WindowAligned' /\ ScanStops' /\ DeliverReady'
    BY <2>1 DEF ReceiverInv, InOrder, WindowAligned, ScanStops, DeliverReady
  <2> QED
    BY <2>1, <2>3, <2>4 DEF ReceiverInv
<1>2. CASE RecvCopy(r)
  <2> DEFINE n == ReadLen(rlen[r])
  <2>1. /\ app' = app \o SubSeq(received_buf, 1, n)
        /\ received_buf' = SubSeq(received_buf, n + 1, Len(received_buf))
        /\ UNCHANGED <<written, expect_seq, win, remain_size, ack_sent, hpc, hfree>>
    BY <1>2 DEF RecvCopy
  <2>2. rpc' \in [Readers -> {"out", "copy"}] /\ rlen' \in [Readers -> Nat]
    BY <1>2 DEF RecvCopy, ReceiverInv, TypeOK
  <2>3. n \in 0..Len(received_buf) /\ Len(received_buf) \in Nat /\ Len(app) \in Nat
    BY DEF ReadLen, ReceiverInv, TypeOK
  <2> HIDE DEF n
  <2>4. /\ app' \in Seq(Nat) /\ received_buf' \in Seq(Nat)
        /\ Len(app') = Len(app) + n /\ Len(received_buf') = Len(received_buf) - n
        /\ \A i \in 1..Len(app') : app'[i] = i
        /\ \A i \in 1..Len(received_buf') : received_buf'[i] = Len(app') + i
    BY <2>1, <2>3, ReadContinues
  <2>5. Len(received_buf') <= MAX_SOCK_BUF_SIZE
    BY <2>3, <2>4, SizesAssumption DEF ReceiverInv
  <2>6. TypeOK'
    BY <2>1, <2>2, <2>4 DEF ReceiverInv, TypeOK
  <2>7. InOrder'
    <3>1. expect_seq = Len(app) + Len(received_buf) + 1
      BY DEF ReceiverInv, InOrder
    <3>2. n \in Nat /\ expect_seq' = expect_seq
      BY <2>1, <2>3
    <3>3. expect_seq' = Len(app') + Len(received_buf') + 1
      BY <2>3, <2>4, <3>1, <3>2
    <3> QED
      BY <2>4, <3>3 DEF InOrder
  <2>8. WindowAligned' /\ ScanStops'
    BY <2>1 DEF ReceiverInv, WindowAligned, ScanStops
  <2>9. DeliverReady'
    <3> SUFFICES ASSUME hpc' = "deliver"
                 PROVE  Len(received_buf') + hfree <= MAX_SOCK_BUF_SIZE
      BY <2>1 DEF ReceiverInv, DeliverReady
    <3>1. hpc = "deliver" /\ hfree \in Nat
      BY <2>1, SizesAssumption DEF ReceiverInv, TypeOK
    <3>2. Len(received_buf) + hfree <= MAX_SOCK_BUF_SIZE
      BY <3>1 DEF ReceiverInv, DeliverReady
    <3> QED
      BY <2>3, <2>4, <3>1, <3>2, SizesAssumption
  <2> QED
    BY <2>1, <2>5, <2>6, <2>7, <2>8, <2>9 DEF ReceiverInv
<1> QED
  BY <1>1, <1>2 DEF Recv

LEMMA StutterInv == ReceiverInv /\ UNCHANGED vars => ReceiverInv'
  BY DEF vars, ReceiverInv, TypeOK, InOrder, WindowAligned, ScanStops, DeliverReady

\* Every step preserves the inductive invariant.
LEMMA ReceiverStep == ReceiverInv /\ [Next]_vars => ReceiverInv'
  BY PeerWriteInv, HandleInv, DeliverInv, RecvInv, StutterInv DEF Next

\* Every reachable state satisfies the inductive invariant: the receive path
\* delivers in order, keeps its window aligned and never overflows.
THEOREM ReceiverCorrect == Spec => []ReceiverInv
  BY InitInv, ReceiverStep, PTL DEF Spec

\* The variables keep their types.
THEOREM ReceiverTypes == Spec => []TypeOK
<1>1. ReceiverInv => TypeOK
  BY DEF ReceiverInv
<1> QED
  BY <1>1, ReceiverCorrect, PTL

\* The scan of get_wnd_free_len never leaves the mark array.
THEOREM ScanStaysInside == Spec => []ScanStops
<1>1. ReceiverInv => ScanStops
  BY DEF ReceiverInv
<1> QED
  BY <1>1, ReceiverCorrect, PTL

\* No byte is acknowledged that is not with the application or in
\* received_buf.
THEOREM AckedBytesAreHeld == Spec => []AckedIsHeld
<1>1. ReceiverInv => AckedIsHeld
  BY DEF ReceiverInv, TypeOK, InOrder, AckedIsHeld
<1> QED
  BY <1>1, ReceiverCorrect, PTL

\* Deliver is the abstract Accept of the bytes counted by the handler.
LEMMA DeliverAccepts ==
    ReceiverInv /\ Deliver => \E n \in 0..MAX_SOCK_BUF_SIZE : Stream!Accept(n)
<1> SUFFICES ASSUME ReceiverInv, Deliver
             PROVE  \E n \in 0..MAX_SOCK_BUF_SIZE : Stream!Accept(n)
  OBVIOUS
<1>1. /\ hpc = "deliver"
      /\ received_buf' = received_buf \o HeadBytes
      /\ UNCHANGED <<written, app>>
  BY DEF Deliver, readVars
<1>2. /\ hfree \in Nat /\ expect_seq \in Nat /\ written \in Nat
      /\ Len(received_buf) \in Nat /\ Len(app) \in Nat
      /\ expect_seq = Len(app) + Len(received_buf) + 1
      /\ Len(received_buf) + hfree <= MAX_SOCK_BUF_SIZE
  BY <1>1, SizesAssumption DEF ReceiverInv, TypeOK, InOrder, DeliverReady
<1>3. /\ \A i \in 1..hfree : HeadBytes[i] = expect_seq + i - 1
      /\ expect_seq + hfree <= written + 1
  BY <1>1, HeadBytesContinue
<1>4. HeadBytes = [i \in 1..hfree |-> Len(app) + Len(received_buf) + i]
  <2>1. \A i \in 1..hfree : HeadBytes[i] = Len(app) + Len(received_buf) + i
    BY <1>2, <1>3
  <2> QED
    BY <2>1 DEF HeadBytes
<1>5. hfree \in 0..MAX_SOCK_BUF_SIZE
  BY <1>2, SizesAssumption
<1>6. Len(app) + Len(received_buf) + hfree <= written
  BY <1>2, <1>3
<1>7. Stream!Accept(hfree)
  BY <1>1, <1>2, <1>4, <1>6 DEF Stream!Accept
<1> QED
  BY <1>5, <1>7

\* The critical section of tju_recv is the abstract Return.
LEMMA CopyReturns ==
    ASSUME ReceiverInv, NEW r \in Readers, RecvCopy(r)
    PROVE  \E n \in 0..MAX_SOCK_BUF_SIZE : Stream!Return(n)
<1> DEFINE n == ReadLen(rlen[r])
<1>1. /\ app' = app \o SubSeq(received_buf, 1, n)
      /\ received_buf' = SubSeq(received_buf, n + 1, Len(received_buf))
      /\ UNCHANGED written
  BY DEF RecvCopy
<1>2. n \in 0..Len(received_buf) /\ Len(received_buf) \in Nat
  BY DEF ReadLen, ReceiverInv, TypeOK
<1>3. n \in 0..MAX_SOCK_BUF_SIZE
  BY <1>2, SizesAssumption DEF ReceiverInv
<1>4. Stream!Return(n)
  BY <1>1, <1>2 DEF Stream!Return
<1> QED
  BY <1>3, <1>4

\* Every step of the threads is a step of ByteStream or leaves its three
\* variables alone.
LEMMA StepOfStream == ReceiverInv /\ [Next]_vars => [Stream!BNext]_(Stream!bvars)
<1> SUFFICES ASSUME ReceiverInv, [Next]_vars PROVE [Stream!BNext]_(Stream!bvars)
  OBVIOUS
<1>1. CASE PeerWrite
  <2>1. /\ written' \in (written + 1)..StreamLen
        /\ UNCHANGED <<received_buf, app>>
    BY <1>1 DEF PeerWrite, winVars, readVars
  <2>2. written \in Nat /\ StreamLen \in Nat
    BY SizesAssumption DEF ReceiverInv, TypeOK
  <2>3. \A w \in (written + 1)..StreamLen : w \in Nat /\ w > written
    BY <2>2
  <2>4. Stream!Write
    BY <2>1, <2>3 DEF Stream!Write
  <2> QED
    BY <2>4 DEF Stream!BNext
<1>2. CASE \E p \in DataSegments \cup Probes : Handle(p)
  <2>1. UNCHANGED <<written, received_buf, app>>
    BY <1>2 DEF Handle, HandleOld, HandleGap, HandleBlocked, HandleFits,
                winVars, readVars
  <2> QED
    BY <2>1 DEF Stream!bvars
<1>3. CASE Deliver
  BY <1>3, DeliverAccepts DEF Stream!BNext
<1>4. ASSUME NEW r \in Readers, Recv(r)
      PROVE  [Stream!BNext]_(Stream!bvars)
  <2>1. CASE RecvSee(r)
    BY <2>1 DEF RecvSee, winVars, Stream!bvars
  <2>2. CASE RecvCopy(r)
    BY <2>2, CopyReturns DEF Stream!BNext
  <2> QED
    BY <1>4, <2>1, <2>2 DEF Recv
<1>5. CASE UNCHANGED vars
  BY <1>5 DEF vars, Stream!bvars
<1> QED
  BY <1>1, <1>2, <1>3, <1>4, <1>5 DEF Next

\* The receive path implements the byte stream.
THEOREM ReceiverImplementsStream == Spec => ImplementsStream
<1>1. Init => Stream!BInit
  BY DEF Init, Stream!BInit
<1> QED
  BY <1>1, StepOfStream, ReceiverCorrect, PTL DEF Spec, ImplementsStream, Stream!BSpec

-----------------------------------------------------------------------------
(* A byte that was kept is never dropped.                                  *)

\* The bytes below expect_seq and those marked in the window.
Kept == (1..(expect_seq - 1)) \cup { expect_seq + i : i \in { j \in Slots : win[j] # 0 } }

LEMMA HeldAreKept == ReceiverInv => HeldBytes = Kept
<1> SUFFICES ASSUME ReceiverInv PROVE HeldBytes = Kept
  OBVIOUS
<1>1. /\ expect_seq = Len(app) + Len(received_buf) + 1
      /\ Len(app) \in Nat /\ Len(received_buf) \in Nat
      /\ \A i \in 1..Len(app) : app[i] = i
      /\ \A i \in 1..Len(received_buf) : received_buf[i] = Len(app) + i
  BY DEF ReceiverInv, TypeOK, InOrder
<1>2. { app[i] : i \in 1..Len(app) } = 1..Len(app)
  BY <1>1
<1>3. { received_buf[i] : i \in 1..Len(received_buf) } = (Len(app) + 1)..(expect_seq - 1)
  <2>1. ASSUME NEW x \in (Len(app) + 1)..(expect_seq - 1)
        PROVE  x \in { received_buf[i] : i \in 1..Len(received_buf) }
    <3>1. x - Len(app) \in 1..Len(received_buf)
      BY <1>1
    <3>2. received_buf[x - Len(app)] = x
      BY <1>1, <3>1
    <3> QED
      BY <3>1, <3>2
  <2>2. \A i \in 1..Len(received_buf) : received_buf[i] \in (Len(app) + 1)..(expect_seq - 1)
    BY <1>1
  <2> QED
    BY <2>1, <2>2
<1>4. { win[i] : i \in Slots } \ {0}
          = { expect_seq + i : i \in { j \in Slots : win[j] # 0 } }
  <2>1. \A i \in Slots : win[i] # 0 => win[i] = expect_seq + i
    BY DEF ReceiverInv, WindowAligned
  <2>2. \A i \in Slots : expect_seq + i # 0
    BY <1>1 DEF Slots
  <2> QED
    BY <2>1, <2>2
<1>5. 1..(expect_seq - 1) = (1..Len(app)) \cup ((Len(app) + 1)..(expect_seq - 1))
  BY <1>1
<1> QED
  BY <1>2, <1>3, <1>4, <1>5 DEF HeldBytes, Kept

\* A step that leaves expect_seq and unmarks no slot drops nothing.
LEMMA MarksStay ==
    ASSUME UNCHANGED expect_seq, \A i \in Slots : win[i] # 0 => win'[i] # 0
    PROVE  Kept \subseteq Kept'
  BY DEF Kept, Slots

LEMMA KeptStep ==
    ASSUME ReceiverInv, [Next]_vars
    PROVE  Kept \subseteq Kept'
<1>1. CASE PeerWrite \/ (\E r \in Readers : Recv(r)) \/ UNCHANGED vars
  BY <1>1, MarksStay DEF PeerWrite, Recv, RecvSee, RecvCopy, vars, winVars
<1>2. ASSUME NEW p \in DataSegments \cup Probes, Handle(p)
      PROVE  Kept \subseteq Kept'
  <2>1. CASE HandleOld(p)
    BY <2>1, MarksStay DEF HandleOld, winVars
  <2>2. CASE HandleGap(p) \/ HandleBlocked(p) \/ HandleFits(p)
    <3>1. p.seq >= expect_seq /\ win' = Stored(p) /\ UNCHANGED expect_seq
      BY <2>2 DEF HandleGap, HandleBlocked, HandleFits
    <3> QED
      BY <3>1, StoredAligned, MarksStay
  <2> QED
    BY <1>2, <2>1, <2>2 DEF Handle
<1>3. CASE Deliver
  <2>1. /\ win' = Shifted(win, hfree) /\ expect_seq' = expect_seq + hfree
        /\ expect_seq \in Nat /\ hfree \in Nat /\ MAX_RWINDOW_SIZE \in Nat
    BY <1>3, SizesAssumption DEF Deliver, ReceiverInv, TypeOK
  <2>2. 1..(expect_seq - 1) \subseteq 1..(expect_seq' - 1)
    BY <2>1
  <2>3. ASSUME NEW i \in Slots, win[i] # 0 PROVE expect_seq + i \in Kept'
    <3>1. i \in Nat
      BY DEF Slots
    <3>2. CASE i < hfree
      <4>1. expect_seq + i \in 1..(expect_seq' - 1) \/ expect_seq + i = 0
        BY <2>1, <3>1, <3>2
      <4>2. expect_seq # 0
        BY DEF ReceiverInv, TypeOK
      <4> QED
        BY <2>1, <3>1, <4>1, <4>2 DEF Kept
    <3>3. CASE i >= hfree
      <4>1. /\ i - hfree \in Slots /\ i - hfree + hfree = i
            /\ expect_seq + i = expect_seq' + (i - hfree)
        BY <2>1, <3>1, <3>3 DEF Slots
      <4>2. win'[i - hfree] # 0
        BY <2>1, <2>3, <4>1 DEF Shifted
      <4> QED
        BY <4>1, <4>2 DEF Kept, Slots
    <3> QED
      BY <2>1, <3>1, <3>2, <3>3
  <2> QED
    BY <2>2, <2>3 DEF Kept
<1> QED
  BY <1>1, <1>2, <1>3 DEF Next

\* The receiver never reneges: a byte once kept, out of order or not, stays in
\* the window, in received_buf or with the application.
THEOREM ReceiverNeverReneges == Spec => NeverReneges
<1>1. Spec => [](HeldBytes = Kept)
  BY HeldAreKept, ReceiverCorrect, PTL
<1>2. /\ ReceiverInv /\ [Next]_vars
      /\ HeldBytes = Kept /\ (HeldBytes = Kept)'
      => [HeldBytes \subseteq HeldBytes']_vars
  BY KeptStep
<1> QED
  BY <1>1, <1>2, ReceiverCorrect, PTL DEF Spec, NeverReneges
=============================================================================
