--------------------------- MODULE SendCallProofs ---------------------------
(***************************************************************************)
(* Proofs about SendCall, for any number of callers, calls of any lengths  *)
(* and every size of the buffer and of its compaction threshold.           *)
(***************************************************************************)
EXTENDS SendCall, SequenceTheorems, TLAPS

\* Short for Len(sending_buf), and never opaque below.
USE DEF sending_len

Elements == Callers \X (Nat \ {0}) \X Lens

-----------------------------------------------------------------------------
(* The inductive invariant.  The properties are not inductive alone: that  *)
(* bytes are repeated from the first on, and that a caller with bytes to   *)
(* queue stays inside its call, is because a call that did not fit comes   *)
(* nowhere, tmp_buffer and tmp_len being what they were when it began.     *)

Nowhere == \A c \in Callers : tmp_len[c] = len[c]

SendCallInv ==
    /\ TypeOK
    /\ Nowhere
    /\ CallsAreWhole
    /\ OnlyRestarts
    /\ ReturnedIsQueued

\* What tju_send appends: the first n bytes of its call, since tmp_buffer has
\* never advanced.
LEMMA Grow ==
    ASSUME TypeOK, Nowhere, NEW c \in Callers, pc[c] # "out",
           NEW n \in Nat, n <= len[c],
           sending_buf' = sending_buf \o Bytes(c, n)
    PROVE  /\ sending_buf' \in Seq(Elements)
           /\ sending_len' = sending_len + n /\ sending_len \in Nat
           /\ \A i \in 1..sending_len : sending_buf'[i] = sending_buf[i]
           /\ \A i \in (sending_len + 1)..(sending_len + n) :
                sending_buf'[i] = <<c, i - sending_len, len[c]>>
<1> DEFINE t == Bytes(c, n)
<1>1. sending_buf \in Seq(Elements) /\ len[c] \in Lens /\ len[c] \in Nat /\ tmp_len[c] = len[c]
  BY DEF TypeOK, Elements, Nowhere
<1>2. t = [i \in 1..n |-> <<c, i, len[c]>>]
  BY <1>1 DEF Bytes
<1>3. t \in [1..n -> Elements]
  BY <1>1, <1>2 DEF Elements
<1>4. t \in Seq(Elements) /\ Len(t) = n
  BY <1>3, IsASeq, LenProperties, SMT
<1>5. sending_len \in Nat
  BY <1>1, LenProperties
<1> HIDE DEF t
<1>6. /\ sending_buf \o t \in Seq(Elements)
      /\ Len(sending_buf \o t) = Len(sending_buf) + n
      /\ \A i \in 1..(Len(sending_buf) + n) :
            (sending_buf \o t)[i] = IF i <= Len(sending_buf) THEN sending_buf[i]
                                                            ELSE t[i - Len(sending_buf)]
  BY <1>1, <1>4, ConcatProperties
<1>7. sending_buf' = sending_buf \o t
  BY DEF t
<1>8. ASSUME NEW i \in (sending_len + 1)..(sending_len + n)
      PROVE  sending_buf'[i] = <<c, i - sending_len, len[c]>>
  <2>1. i - sending_len \in 1..n /\ i \in 1..(sending_len + n) /\ ~(i <= sending_len)
    BY <1>5, <1>8
  <2> QED
    BY <1>2, <1>6, <1>7, <2>1
<1>9. ASSUME NEW i \in 1..sending_len PROVE sending_buf'[i] = sending_buf[i]
  <2>1. i \in 1..(sending_len + n) /\ i <= sending_len
    BY <1>5, <1>9
  <2> QED
    BY <1>6, <1>7, <2>1
<1>10. sending_buf' \in Seq(Elements) /\ sending_len' = sending_len + n
  BY <1>6, <1>7
<1> QED
  BY <1>5, <1>8, <1>9, <1>10

\* An appended piece starts with the first byte of its call.
LEMMA GrowRestarts ==
    ASSUME TypeOK, Nowhere, OnlyRestarts, NEW c \in Callers, pc[c] # "out",
           NEW n \in Nat, n <= len[c],
           sending_buf' = sending_buf \o Bytes(c, n)
    PROVE  OnlyRestarts'
<1>1. /\ sending_len' = sending_len + n /\ sending_len \in Nat
      /\ \A i \in 1..sending_len : sending_buf'[i] = sending_buf[i]
      /\ \A i \in (sending_len + 1)..(sending_len + n) :
            sending_buf'[i] = <<c, i - sending_len, len[c]>>
  BY Grow
<1>2. len[c] \in Nat
  BY DEF TypeOK
<1>3. SUFFICES ASSUME NEW i \in 1..(sending_len' - 1)
               PROVE  \/ sending_buf'[i + 1][2] = 1
                      \/ Follows(sending_buf'[i], sending_buf'[i + 1])
  BY Zenon DEF OnlyRestarts
<1>4. CASE i + 1 <= sending_len
  <2>1. i \in 1..(sending_len - 1) /\ i \in 1..sending_len /\ i + 1 \in 1..sending_len
    BY <1>1, <1>3, <1>4
  <2> QED
    BY <2>1, <1>1 DEF OnlyRestarts
<1>5. CASE i = sending_len
  <2>1. sending_len + 1 \in (sending_len + 1)..(sending_len + n)
    BY <1>1, <1>3, <1>5
  <2>2. sending_buf'[i + 1] = <<c, (sending_len + 1) - sending_len, len[c]>>
    BY <1>1, <1>5, <2>1
  <2> QED
    BY <1>1, <2>2
<1>6. CASE i > sending_len
  <2>1. /\ i \in (sending_len + 1)..(sending_len + n)
        /\ i + 1 \in (sending_len + 1)..(sending_len + n)
        /\ i - sending_len < n
    BY <1>1, <1>3, <1>6
  <2>2. /\ sending_buf'[i] = <<c, i - sending_len, len[c]>>
        /\ sending_buf'[i + 1] = <<c, (i + 1) - sending_len, len[c]>>
    BY <1>1, <2>1
  <2>3. i - sending_len # len[c] /\ (i + 1) - sending_len = (i - sending_len) + 1
    BY <1>1, <1>2, <2>1
  <2> QED
    BY <2>2, <2>3 DEF Follows
<1> QED
  BY <1>1, <1>3, <1>4, <1>5, <1>6

\* A call that is appended as a whole leaves whole calls.
LEMMA GrowWhole ==
    ASSUME TypeOK, Nowhere, NEW c \in Callers, pc[c] # "out",
           CallsAreWhole, ~cut,
           sending_buf' = sending_buf \o Bytes(c, len[c])
    PROVE  CallsAreWhole'
<1> DEFINE n == len[c]
<1>1. n \in Nat /\ n <= len[c] /\ sending_buf' = sending_buf \o Bytes(c, n)
  BY DEF TypeOK
<1>2. /\ sending_len' = sending_len + n /\ sending_len \in Nat
      /\ \A i \in 1..sending_len : sending_buf'[i] = sending_buf[i]
      /\ \A i \in (sending_len + 1)..(sending_len + n) :
            sending_buf'[i] = <<c, i - sending_len, n>>
  BY <1>1, Grow
<1> HIDE DEF n
<1>3. ASSUME NEW i \in 1..(sending_len' - 1)
      PROVE  Follows(sending_buf'[i], sending_buf'[i + 1])
  <2>1. CASE i + 1 <= sending_len
    <3>1. i \in 1..(sending_len - 1) /\ i \in 1..sending_len /\ i + 1 \in 1..sending_len
      BY <1>2, <1>3, <2>1
    <3> QED
      BY <3>1, <1>2 DEF CallsAreWhole
  <2>2. CASE i = sending_len
    <3>1. sending_len + 1 \in (sending_len + 1)..(sending_len + n) /\ sending_len \in 1..sending_len
      BY <1>1, <1>2, <1>3, <2>2
    <3>2. sending_buf'[i + 1] = <<c, (sending_len + 1) - sending_len, n>>
      BY <1>2, <2>2, <3>1
    <3>3. sending_buf'[i] = sending_buf[sending_len]
      BY <1>2, <2>2, <3>1
    <3>4. sending_buf[sending_len][2] = sending_buf[sending_len][3]
      BY <1>2, <1>3, <2>2 DEF CallsAreWhole
    <3> QED
      BY <1>2, <3>2, <3>3, <3>4 DEF Follows
  <2>3. CASE i > sending_len
    <3>1. /\ i \in (sending_len + 1)..(sending_len + n)
          /\ i + 1 \in (sending_len + 1)..(sending_len + n)
          /\ i - sending_len < n
      BY <1>1, <1>2, <1>3, <2>3
    <3>2. /\ sending_buf'[i] = <<c, i - sending_len, n>>
          /\ sending_buf'[i + 1] = <<c, (i + 1) - sending_len, n>>
      BY <1>2, <3>1
    <3>3. i - sending_len # n /\ (i + 1) - sending_len = (i - sending_len) + 1
      BY <1>1, <1>2, <3>1
    <3> QED
      BY <3>2, <3>3 DEF Follows
  <2> QED
    BY <1>1, <1>2, <1>3, <2>1, <2>2, <2>3
<1>4. ASSUME sending_len' > 0
      PROVE  sending_buf'[sending_len'][2] = sending_buf'[sending_len'][3]
  <2>1. CASE n = 0
    <3>1. sending_len' = sending_len /\ sending_len \in 1..sending_len /\ sending_len > 0
      BY <1>2, <1>4, <2>1
    <3> QED
      BY <1>2, <3>1 DEF CallsAreWhole
  <2>2. CASE n # 0
    <3>1. sending_len' \in (sending_len + 1)..(sending_len + n) /\ sending_len' - sending_len = n
      BY <1>1, <1>2, <2>2
    <3>2. sending_buf'[sending_len'] = <<c, n, n>>
      BY <1>2, <3>1
    <3> QED
      BY <3>2
  <2> QED
    BY <2>1, <2>2
<1> QED
  BY <1>3, <1>4, Zenon DEF CallsAreWhole

\* The bytes of a caller stay unfinished only while it is inside its call.
LEMMA GrowQueued ==
    ASSUME TypeOK, Nowhere, ReturnedIsQueued,
           NEW c \in Callers, pc[c] # "out", NEW n \in Nat, n <= len[c],
           sending_buf' = sending_buf \o Bytes(c, n),
           \A d \in Callers \ {c} : pc'[d] = pc[d] /\ tmp_len'[d] = tmp_len[d],
           n = len[c] \/ (pc'[c] # "out" /\ tmp_len'[c] > 0)
    PROVE  ReturnedIsQueued'
<1>1. /\ sending_buf' \in Seq(Elements)
      /\ sending_len' = sending_len + n /\ sending_len \in Nat
      /\ \A i \in 1..sending_len : sending_buf'[i] = sending_buf[i]
      /\ \A i \in (sending_len + 1)..(sending_len + n) :
            sending_buf'[i] = <<c, i - sending_len, len[c]>>
  BY Grow
<1>2. len[c] \in Nat /\ tmp_len[c] = len[c]
  BY DEF TypeOK, Nowhere
<1>3. SUFFICES ASSUME NEW i \in 1..sending_len',
                      sending_buf'[i][2] # sending_buf'[i][3],
                      ~(pc'[sending_buf'[i][1]] # "out" /\ tmp_len'[sending_buf'[i][1]] > 0)
               PROVE  \E j \in (i + 1)..sending_len' : sending_buf'[j][1] = sending_buf'[i][1]
  BY Zenon DEF ReturnedIsQueued
<1>4. sending_buf'[i] \in Elements
  BY <1>1, <1>3, ElementOfSeq
<1>5. CASE sending_buf'[i][1] = c
  <2>1. n = len[c]
    BY <1>3, <1>5
  <2>2. CASE n = 0
    <3>1. sending_len' = sending_len /\ i \in 1..sending_len
      BY <1>1, <1>3, <2>2
    <3>2. PICK j \in (i + 1)..sending_len : sending_buf[j][1] = sending_buf[i][1]
      BY <3>1, <1>1, <1>2, <1>3, <1>5, <2>1, <2>2 DEF ReturnedIsQueued
    <3>3. j \in 1..sending_len
      BY <3>1, <3>2, <1>1
    <3> QED
      BY <1>1, <3>1, <3>2, <3>3
  <2>3. CASE n # 0 /\ i < sending_len'
    <3>1. /\ sending_len' \in (sending_len + 1)..(sending_len + n)
          /\ sending_len' \in (i + 1)..sending_len'
      BY <1>1, <1>3, <2>3
    <3>2. sending_buf'[sending_len'] = <<c, sending_len' - sending_len, len[c]>>
      BY <1>1, <3>1
    <3>3. sending_buf'[sending_len'][1] = sending_buf'[i][1]
      BY <1>5, <3>2
    <3> QED
      BY <3>1, <3>3, Zenon
  <2>4. CASE n # 0 /\ ~(i < sending_len')
    <3>1. i = sending_len' /\ i \in (sending_len + 1)..(sending_len + n) /\ i - sending_len = n
      BY <1>1, <1>3, <2>4
    <3>2. sending_buf'[i] = <<c, n, n>>
      BY <1>1, <2>1, <3>1
    <3> QED
      BY <1>3, <3>2
  <2> QED
    BY <2>2, <2>3, <2>4
<1>6. CASE sending_buf'[i][1] # c
  <2> DEFINE d == sending_buf'[i][1]
  <2>1. d \in Callers \ {c}
    BY <1>4, <1>6 DEF Elements
  <2>2. i \in 1..sending_len
    <3>1. ASSUME i \in (sending_len + 1)..(sending_len + n) PROVE FALSE
      <4>1. sending_buf'[i] = <<c, i - sending_len, len[c]>>
        BY <1>1, <3>1
      <4> QED
        BY <4>1, <1>6
    <3> QED
      BY <3>1, <1>1, <1>3
  <2>3. sending_buf'[i] = sending_buf[i]
    BY <1>1, <2>2
  <2>4. ~(pc[d] # "out" /\ tmp_len[d] > 0)
    BY <1>3, <2>1
  <2>5. PICK j \in (i + 1)..sending_len : sending_buf[j][1] = d
    BY <1>3, <2>2, <2>3, <2>4 DEF ReturnedIsQueued
  <2>6. j \in 1..sending_len /\ j \in (i + 1)..sending_len'
    BY <1>1, <2>2, <2>5
  <2> QED
    BY <1>1, <2>5, <2>6
<1> QED
  BY <1>5, <1>6

\* What compaction leaves.
LEMMA Shrink ==
    ASSUME TypeOK, sending_buf' = Kept
    PROVE  /\ sending_buf' \in Seq(Elements)
           /\ sending_len' = sending_len - ack_cnt
           /\ sending_len \in Nat /\ ack_cnt \in Nat /\ ack_cnt <= sending_len
           /\ \A i \in 1..sending_len' : sending_buf'[i] = sending_buf[ack_cnt + i]
<1>1. sending_buf \in Seq(Elements) /\ sending_len \in Nat /\ ack_cnt \in 0..sending_len
  BY LenProperties DEF TypeOK, Elements
<1>2. \A i \in (ack_cnt + 1)..sending_len : sending_buf[i] \in Elements
  BY <1>1, ElementOfSeq
<1>3. /\ Kept \in Seq(Elements)
      /\ Len(Kept) = IF ack_cnt + 1 <= sending_len THEN sending_len - (ack_cnt + 1) + 1 ELSE 0
      /\ \A i \in 1..(sending_len - (ack_cnt + 1) + 1) :
            Kept[i] = sending_buf[(ack_cnt + 1) + i - 1]
  <2>1. ack_cnt + 1 \in Int /\ sending_len \in Int
    BY <1>1
  <2> QED
    BY <1>2, <2>1, SubSeqProperties DEF Kept
<1>4. sending_len' = Len(Kept)
  OBVIOUS
<1>5. sending_len' = sending_len - ack_cnt
  BY <1>1, <1>3, <1>4
<1>6. ASSUME NEW i \in 1..sending_len' PROVE sending_buf'[i] = sending_buf[ack_cnt + i]
  <2>1. i \in 1..(sending_len - (ack_cnt + 1) + 1) /\ (ack_cnt + 1) + i - 1 = ack_cnt + i
    BY <1>1, <1>5, <1>6
  <2> QED
    BY <1>3, <2>1
<1> QED
  BY <1>1, <1>3, <1>5, <1>6

\* Compaction keeps what the buffer's end says.
LEMMA ShrinkInv ==
    ASSUME SendCallInv, Compact
    PROVE  SendCallInv'
<1>1. /\ sending_buf' \in Seq(Elements)
      /\ sending_len' = sending_len - ack_cnt
      /\ sending_len \in Nat /\ ack_cnt \in Nat /\ ack_cnt <= sending_len
      /\ \A i \in 1..sending_len' : sending_buf'[i] = sending_buf[ack_cnt + i]
  BY Shrink DEF SendCallInv, Compact
<1>2. TypeOK'
  BY <1>1, SendCallAssumption DEF SendCallInv, TypeOK, Compact, Elements
<1>3. Nowhere'
  BY DEF SendCallInv, Nowhere, Compact
<1>4. ASSUME NEW i \in 1..(sending_len' - 1)
      PROVE  /\ ack_cnt + i \in 1..(sending_len - 1)
             /\ sending_buf'[i] = sending_buf[ack_cnt + i]
             /\ sending_buf'[i + 1] = sending_buf[(ack_cnt + i) + 1]
  <2>1. /\ ack_cnt + i \in 1..(sending_len - 1)
        /\ i \in 1..sending_len' /\ i + 1 \in 1..sending_len'
        /\ ack_cnt + (i + 1) = (ack_cnt + i) + 1
    BY <1>1, <1>4
  <2> QED
    BY <1>1, <2>1
<1>5. CallsAreWhole'
  <2>1. SUFFICES ASSUME ~cut
                 PROVE  /\ \A i \in 1..(sending_len' - 1) :
                              Follows(sending_buf'[i], sending_buf'[i + 1])
                        /\ sending_len' > 0 =>
                              sending_buf'[sending_len'][2] = sending_buf'[sending_len'][3]
    BY Zenon DEF CallsAreWhole, Compact
  <2>2. ASSUME NEW i \in 1..(sending_len' - 1)
        PROVE  Follows(sending_buf'[i], sending_buf'[i + 1])
    BY <1>4, <2>1, <2>2 DEF SendCallInv, CallsAreWhole
  <2>3. ASSUME sending_len' > 0
        PROVE  sending_buf'[sending_len'][2] = sending_buf'[sending_len'][3]
    <3>1. /\ sending_len' \in 1..sending_len' /\ sending_len > 0
          /\ ack_cnt + sending_len' = sending_len
      BY <1>1, <2>3
    <3>2. sending_buf'[sending_len'] = sending_buf[sending_len]
      BY <1>1, <3>1
    <3> QED
      BY <2>1, <3>1, <3>2 DEF SendCallInv, CallsAreWhole
  <2> QED
    BY <2>2, <2>3
<1>6. OnlyRestarts'
  BY <1>4 DEF SendCallInv, OnlyRestarts
<1>7. ReturnedIsQueued'
  <2>1. SUFFICES ASSUME NEW i \in 1..sending_len',
                        sending_buf'[i][2] # sending_buf'[i][3],
                        ~(pc'[sending_buf'[i][1]] # "out" /\ tmp_len'[sending_buf'[i][1]] > 0)
                 PROVE  \E j \in (i + 1)..sending_len' : sending_buf'[j][1] = sending_buf'[i][1]
    BY Zenon DEF ReturnedIsQueued
  <2>2. ack_cnt + i \in 1..sending_len /\ sending_buf'[i] = sending_buf[ack_cnt + i]
    BY <1>1, <2>1
  <2>3. PICK j \in ((ack_cnt + i) + 1)..sending_len :
                sending_buf[j][1] = sending_buf[ack_cnt + i][1]
    BY <2>1, <2>2 DEF SendCallInv, ReturnedIsQueued, Compact
  <2>4. /\ j - ack_cnt \in (i + 1)..sending_len' /\ j - ack_cnt \in 1..sending_len'
        /\ ack_cnt + (j - ack_cnt) = j
    BY <1>1, <2>1, <2>3
  <2>5. sending_buf'[j - ack_cnt] = sending_buf[j]
    BY <1>1, <2>4
  <2> QED
    BY <2>2, <2>3, <2>4, <2>5
<1> QED
  BY <1>2, <1>3, <1>5, <1>6, <1>7 DEF SendCallInv

\* A step that leaves the buffer alone and at most lets a caller in, or lets
\* one out whose call is empty.
LEMMA KeepInv ==
    ASSUME SendCallInv, TypeOK', Nowhere',
           sending_buf' = sending_buf, cut' = cut,
           \A c \in Callers :
              pc[c] # "out" /\ tmp_len[c] > 0 => pc'[c] # "out" /\ tmp_len'[c] > 0
    PROVE  SendCallInv'
<1>1. CallsAreWhole' /\ OnlyRestarts'
  BY DEF SendCallInv, CallsAreWhole, OnlyRestarts
<1>2. \A i \in 1..sending_len : sending_buf[i][1] \in Callers
  BY ElementOfSeq DEF SendCallInv, TypeOK
<1>3. ReturnedIsQueued'
  BY <1>2 DEF SendCallInv, ReturnedIsQueued
<1> QED
  BY <1>1, <1>3 DEF SendCallInv

\* A call that fits is queued whole.
LEMMA FitInv ==
    ASSUME SendCallInv, NEW c \in Callers, Fit(c)
    PROVE  SendCallInv'
<1>1. /\ TypeOK /\ Nowhere /\ CallsAreWhole /\ OnlyRestarts /\ ReturnedIsQueued
      /\ pc[c] = "lock" /\ pc[c] # "out"
      /\ len[c] \in Nat /\ len[c] <= len[c] /\ tmp_len[c] = len[c] /\ len[c] <= Room
  BY SendCallAssumption, LenProperties DEF SendCallInv, Fit, Nowhere, TypeOK, Room
<1>2. /\ sending_buf' = sending_buf \o Bytes(c, len[c])
      /\ pc' = [pc EXCEPT ![c] = "out"] /\ returns' = 1 - returns
      /\ UNCHANGED <<len, tmp_len, ack_cnt, kpc, cut>>
  BY <1>1 DEF Fit, Return
<1>3. /\ sending_buf' \in Seq(Elements)
      /\ sending_len' = sending_len + len[c] /\ sending_len \in Nat
  BY <1>1, <1>2, Grow
<1>4. TypeOK'
  <2>1. sending_len' <= MAX_SOCK_BUF_SIZE /\ ack_cnt' \in 0..sending_len'
    BY <1>1, <1>2, <1>3, SendCallAssumption DEF TypeOK, Room
  <2> QED
    BY <1>1, <1>2, <1>3, <2>1 DEF TypeOK, Elements
<1>5. Nowhere'
  BY <1>1, <1>2 DEF Nowhere
<1>6. OnlyRestarts'
  BY <1>1, <1>2, GrowRestarts
<1>7. CallsAreWhole'
  <2>1. CASE cut
    BY <2>1, <1>2 DEF CallsAreWhole
  <2>2. CASE ~cut
    BY <2>2, <1>1, <1>2, GrowWhole
  <2> QED
    BY <2>1, <2>2
<1>8. ReturnedIsQueued'
  <2>1. \A d \in Callers \ {c} : pc'[d] = pc[d] /\ tmp_len'[d] = tmp_len[d]
    BY <1>1, <1>2 DEF TypeOK
  <2> QED
    BY <1>1, <1>2, <2>1, GrowQueued
<1> QED
  BY <1>4, <1>5, <1>6, <1>7, <1>8 DEF SendCallInv

\* A call that does not fit fills the buffer, comes nowhere and goes on.
LEMMA CutInv ==
    ASSUME SendCallInv, NEW c \in Callers, Cut(c)
    PROVE  SendCallInv'
<1>1. /\ TypeOK /\ Nowhere /\ CallsAreWhole /\ OnlyRestarts /\ ReturnedIsQueued
      /\ pc[c] = "lock" /\ pc[c] # "out"
      /\ len[c] \in Nat /\ tmp_len[c] = len[c] /\ Room < len[c]
  BY DEF SendCallInv, Cut, Nowhere, TypeOK
<1>2. sending_len \in Nat /\ Room \in Nat /\ Room <= len[c] /\ MAX_SOCK_BUF_SIZE \in Nat
  BY <1>1, LenProperties, SendCallAssumption DEF TypeOK, Room
<1>3. /\ sending_buf' = sending_buf \o Bytes(c, Room)
      /\ tmp_len' = [tmp_len EXCEPT ![c] = tmp_len[c] - Advance(c)]
      /\ pc' = [pc EXCEPT ![c] = "wait"]
      /\ UNCHANGED <<ack_cnt, len, kpc, returns>>
  BY DEF Cut
<1>4. cut' = (cut \/ Room > 0)
  BY DEF Cut
<1>5. sending_buf' \in Seq(Elements) /\ sending_len' = sending_len + Room
  BY <1>1, <1>2, <1>3, Grow
<1>6. Advance(c) = 0
  BY <1>2, <1>5 DEF Advance, Room
<1>7. tmp_len' = tmp_len
  <2>1. tmp_len[c] - Advance(c) = tmp_len[c]
    BY <1>1, <1>6
  <2> QED
    BY <1>1, <1>3, <2>1 DEF TypeOK
<1>8. TypeOK'
  <2>1. sending_len' <= MAX_SOCK_BUF_SIZE /\ ack_cnt' \in 0..sending_len'
    BY <1>1, <1>2, <1>3, <1>5 DEF TypeOK, Room
  <2>2. cut' \in BOOLEAN
    BY <1>4, Zenon
  <2> QED
    BY <1>1, <1>3, <1>5, <1>7, <2>1, <2>2 DEF TypeOK, Elements
<1>9. Nowhere'
  BY <1>1, <1>3, <1>7 DEF Nowhere
<1>10. OnlyRestarts'
  BY <1>1, <1>2, <1>3, GrowRestarts
<1>11. CallsAreWhole'
  <2>1. CASE cut'
    BY <2>1 DEF CallsAreWhole
  <2>2. CASE ~cut'
    <3>1. ~cut /\ ~(Room > 0)
      BY <1>4, <2>2, Zenon
    <3>2. Room = 0
      BY <1>2, <3>1
    <3>3. sending_len' = sending_len /\ \A i \in 1..sending_len : sending_buf'[i] = sending_buf[i]
      <4>1. /\ sending_len' = sending_len + Room
            /\ \A i \in 1..sending_len : sending_buf'[i] = sending_buf[i]
        BY <1>1, <1>2, <1>3, Grow
      <4> QED
        BY <4>1, <3>2, <1>2
    <3>4. \A i \in 1..(sending_len - 1) : i \in 1..sending_len /\ i + 1 \in 1..sending_len
      BY <1>2
    <3>5. sending_len > 0 => sending_len \in 1..sending_len
      BY <1>2
    <3> QED
      BY <1>1, <3>1, <3>3, <3>4, <3>5 DEF CallsAreWhole
  <2> QED
    BY <2>1, <2>2
<1>12. ReturnedIsQueued'
  <2>1. \A d \in Callers \ {c} : pc'[d] = pc[d] /\ tmp_len'[d] = tmp_len[d]
    BY <1>1, <1>3, <1>7 DEF TypeOK
  <2>2. pc'[c] # "out" /\ tmp_len'[c] > 0
    BY <1>1, <1>2, <1>3, <1>7 DEF TypeOK
  <2> QED
    BY <1>1, <1>2, <1>3, <2>1, <2>2, GrowQueued
<1> QED
  BY <1>8, <1>9, <1>10, <1>11, <1>12 DEF SendCallInv

\* Everything that does not touch the buffer.
LEMMA QuietInv ==
    ASSUME SendCallInv,
           \/ \E c \in Callers : (\E n \in Lens : Call(c, n)) \/ Leave(c) \/ See(c)
           \/ \E n \in 1..MAX_SOCK_BUF_SIZE : Acknowledge(n)
           \/ Test
    PROVE  SendCallInv'
<1>1. TypeOK /\ Nowhere
  BY DEF SendCallInv
<1>2. sending_len \in Nat
  BY <1>1, LenProperties DEF TypeOK
<1>3. ASSUME NEW c \in Callers, NEW n \in Lens, Call(c, n) PROVE SendCallInv'
  <2>1. /\ pc[c] = "out" /\ n \in Nat
        /\ pc' = [pc EXCEPT ![c] = "wait"]
        /\ len' = [len EXCEPT ![c] = n]
        /\ tmp_len' = [tmp_len EXCEPT ![c] = n]
        /\ UNCHANGED <<sending_buf, ack_cnt, kpc, cut, returns>>
    BY <1>3, SendCallAssumption DEF Call
  <2>2. TypeOK'
    BY <1>1, <2>1 DEF TypeOK
  <2>3. Nowhere'
    BY <1>1, <2>1 DEF TypeOK, Nowhere
  <2>4. \A d \in Callers :
            pc[d] # "out" /\ tmp_len[d] > 0 => pc'[d] # "out" /\ tmp_len'[d] > 0
    BY <1>1, <2>1 DEF TypeOK
  <2> QED
    BY <2>1, <2>2, <2>3, <2>4, KeepInv
<1>4. ASSUME NEW c \in Callers, Leave(c) PROVE SendCallInv'
  <2>1. /\ tmp_len[c] = 0
        /\ pc' = [pc EXCEPT ![c] = "out"] /\ returns' = 1 - returns
        /\ UNCHANGED <<sending_buf, ack_cnt, len, tmp_len, kpc, cut>>
    BY <1>4 DEF Leave, Return
  <2>2. TypeOK'
    BY <1>1, <2>1 DEF TypeOK
  <2>3. Nowhere'
    BY <1>1, <2>1 DEF Nowhere
  <2>4. \A d \in Callers :
            pc[d] # "out" /\ tmp_len[d] > 0 => pc'[d] # "out" /\ tmp_len'[d] > 0
    BY <1>1, <2>1 DEF TypeOK
  <2> QED
    BY <2>1, <2>2, <2>3, <2>4, KeepInv
<1>5. ASSUME NEW c \in Callers, See(c) PROVE SendCallInv'
  <2>1. /\ pc[c] = "wait" /\ pc' = [pc EXCEPT ![c] = "lock"]
        /\ UNCHANGED <<sending_buf, ack_cnt, len, tmp_len, kpc, cut, returns>>
    BY <1>5 DEF See
  <2>2. TypeOK'
    BY <1>1, <2>1 DEF TypeOK
  <2>3. Nowhere'
    BY <1>1, <2>1 DEF Nowhere
  <2>4. \A d \in Callers :
            pc[d] # "out" /\ tmp_len[d] > 0 => pc'[d] # "out" /\ tmp_len'[d] > 0
    BY <1>1, <2>1 DEF TypeOK
  <2> QED
    BY <2>1, <2>2, <2>3, <2>4, KeepInv
<1>6. ASSUME NEW n \in 1..MAX_SOCK_BUF_SIZE, Acknowledge(n) PROVE SendCallInv'
  <2>1. /\ ack_cnt + n <= sending_len /\ ack_cnt' = ack_cnt + n /\ kpc' = "test"
        /\ UNCHANGED <<sending_buf, pc, len, tmp_len, cut, returns>>
    BY <1>6 DEF Acknowledge
  <2>2. ack_cnt' \in 0..sending_len'
    BY <1>1, <1>2, <2>1, SendCallAssumption DEF TypeOK
  <2>3. TypeOK'
    BY <1>1, <2>1, <2>2 DEF TypeOK
  <2>4. Nowhere'
    BY <1>1, <2>1 DEF Nowhere
  <2> QED
    BY <2>1, <2>3, <2>4, KeepInv
<1>7. ASSUME Test PROVE SendCallInv'
  <2>1. /\ kpc' \in {"compact", "idle"}
        /\ UNCHANGED <<sending_buf, ack_cnt, pc, len, tmp_len, cut, returns>>
    BY <1>7 DEF Test
  <2>2. TypeOK' /\ Nowhere'
    BY <1>1, <2>1 DEF TypeOK, Nowhere
  <2> QED
    BY <2>1, <2>2, KeepInv
<1> QED
  BY <1>3, <1>4, <1>5, <1>6, <1>7

\* The empty buffer is in order.
LEMMA InitSendCallInv == Init => SendCallInv
<1> SUFFICES ASSUME Init PROVE SendCallInv
  OBVIOUS
<1>1. sending_buf \in Seq(Callers \X (Nat \ {0}) \X Lens) /\ sending_len = 0
  BY DEF Init
<1>2. Nowhere /\ ack_cnt \in 0..sending_len /\ sending_len <= MAX_SOCK_BUF_SIZE
  BY <1>1, SendCallAssumption DEF Init, Nowhere
<1>3. TypeOK
  BY <1>1, <1>2 DEF Init, TypeOK
<1>4. CallsAreWhole /\ OnlyRestarts /\ ReturnedIsQueued
  BY <1>1 DEF CallsAreWhole, OnlyRestarts, ReturnedIsQueued
<1> QED
  BY <1>2, <1>3, <1>4 DEF SendCallInv

\* Every step keeps the inductive invariant.
LEMMA StepSendCallInv == SendCallInv /\ [Next]_vars => SendCallInv'
<1> SUFFICES ASSUME SendCallInv, [Next]_vars PROVE SendCallInv'
  OBVIOUS
<1>1. ASSUME NEW c \in Callers, Caller(c) PROVE SendCallInv'
  BY <1>1, QuietInv, FitInv, CutInv DEF Caller
<1>2. CASE ReceiveThread
  BY <1>2, QuietInv, ShrinkInv DEF ReceiveThread
<1>3. CASE UNCHANGED vars
  <2>1. UNCHANGED <<sending_buf, ack_cnt, pc, len, tmp_len, kpc, cut, returns>>
    BY <1>3 DEF vars
  <2>2. TypeOK' /\ Nowhere'
    BY <2>1 DEF SendCallInv, TypeOK, Nowhere
  <2> QED
    BY <2>1, <2>2, KeepInv
<1> QED
  BY <1>1, <1>2, <1>3 DEF Next

LEMMA SendCallIsInvariant == Spec => []SendCallInv
  BY InitSendCallInv, StepSendCallInv, PTL DEF Spec

\* tju_send never writes beyond sending_buf, however many callers saw the same room
\* before they took the lock, and what is acknowledged is in the buffer.
THEOREM SendCallTypes == Spec => []TypeOK
<1>1. SendCallInv => TypeOK
  BY DEF SendCallInv
<1> QED
  BY <1>1, SendCallIsInvariant, PTL

\* Calls that find room are queued whole, once and one after the other.
THEOREM FittingCallsAreWhole == Spec => []CallsAreWhole
<1>1. SendCallInv => CallsAreWhole
  BY DEF SendCallInv
<1> QED
  BY <1>1, SendCallIsInvariant, PTL

\* Whatever does not fit, only beginnings of calls are repeated.
THEOREM PrefixesRepeat == Spec => []OnlyRestarts
<1>1. SendCallInv => OnlyRestarts
  BY DEF SendCallInv
<1> QED
  BY <1>1, SendCallIsInvariant, PTL

\* tju_send returns only when its last byte is queued.
THEOREM ReturnMeansQueued == Spec => []ReturnedIsQueued
<1>1. SendCallInv => ReturnedIsQueued
  BY DEF SendCallInv
<1> QED
  BY <1>1, SendCallIsInvariant, PTL
=============================================================================
