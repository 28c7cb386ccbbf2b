--------------------------- MODULE TransferProofs ---------------------------
(***************************************************************************)
(* Proofs about Transfer.  The invariants of the two halves come from      *)
(* SenderProofs and ReceiverProofs, whose theorems are about any system    *)
(* that steps as Sender and Receiver do; what is proved here is that the   *)
(* composition does, which takes an invariant on what is in flight.        *)
(***************************************************************************)
EXTENDS Transfer, TLAPS

SP == INSTANCE SenderProofs WITH AdvWindows <- 0..MAX_RWINDOW_SIZE
RP == INSTANCE ReceiverProofs WITH rpc <- reader_pc

-----------------------------------------------------------------------------
(* The theorems of the parts.  Each part is instantiated once in Transfer  *)
(* and once, with its proofs, here: the two instances are the same.        *)

LEMMA SameSender ==
    /\ SP!SenderInv <=> S!SenderInv
    /\ SP!SenderInv' <=> S!SenderInv'
  BY
     DEF SP!SenderInv, S!SenderInv, SP!DataInv, S!DataInv, SP!CoverInv,
         S!CoverInv, SP!NothingForgotten, S!NothingForgotten, SP!Requested,
         S!Requested, SP!Retransmitting, S!Retransmitting, SP!PassIsCurrent,
         S!PassIsCurrent, SP!VerdictInv, S!VerdictInv, SP!TypeOK, S!TypeOK,
         SP!LockHolder,
         S!LockHolder, SP!NextseqInv, S!NextseqInv, SP!BufferInv,
         S!BufferInv, SP!BaseInv, S!BaseInv, SP!ReachedInv, S!ReachedInv,
         SP!SnapshotInv, S!SnapshotInv, SP!AckedInBuffer, S!AckedInBuffer,
         SP!Unaccounted, S!Unaccounted, SP!SendSegment, S!SendSegment,
         SP!SegmentLen, S!SegmentLen, SP!Lesser, S!Lesser, SP!LimitInv,
         S!LimitInv, SP!LastAck, S!LastAck

LEMMA SameSenderNext == [SP!Next]_(SP!vars) <=> [S!Next]_(S!vars)
  BY
     DEF SP!vars, S!vars, SP!bufVars, S!bufVars, SP!wndVars, S!wndVars,
         SP!congVars, S!congVars, SP!flagVars, S!flagVars, SP!sndVars,
         S!sndVars, SP!rtVars, S!rtVars, SP!ackVars, S!ackVars, SP!StartTimer,
         S!StartTimer, SP!Requested, S!Requested, SP!SegmentLen, S!SegmentLen,
         SP!Lesser, S!Lesser, SP!Greater, S!Greater, SP!Transmit, S!Transmit,
         SP!AppSend, S!AppSend, SP!MaySend, S!MaySend, SP!Limit, S!Limit,
         SP!S_Guard, S!S_Guard,
         SP!S_ReadBase, S!S_ReadBase, SP!S_Lock, S!S_Lock, SP!SendSegment,
         S!SendSegment, SP!S_Send, S!S_Send, SP!S_Start, S!S_Start,
         SP!S_Account, S!S_Account, SP!S_Finish, S!S_Finish, SP!R_Wake,
         S!R_Wake, SP!R_Probe, S!R_Probe, SP!R_Open, S!R_Open, SP!R_Begin,
         S!R_Begin, SP!R_Clear, S!R_Clear, SP!R_Recheck, S!R_Recheck,
         SP!HalfCwnd, S!HalfCwnd, SP!R_Lock, S!R_Lock, SP!R_Collapse,
         S!R_Collapse, SP!R_ReadAck, S!R_ReadAck, SP!R_ReadBase, S!R_ReadBase,
         SP!ResendSegment, S!ResendSegment, SP!R_Resend, S!R_Resend,
         SP!R_Rearm, S!R_Rearm, SP!R_Finish, S!R_Finish, SP!K_Old, S!K_Old,
         SP!CountDuplicate, S!CountDuplicate, SP!K_Dup, S!K_Dup, SP!Grow,
         S!Grow, SP!AckCntAfter, S!AckCntAfter, SP!K_New, S!K_New, SP!K_Base,
         S!K_Base, SP!K_Test, S!K_Test, SP!K_Stop, S!K_Stop, SP!K_Unmark,
         S!K_Unmark, SP!K_Restart, S!K_Restart, SP!K_Mark, S!K_Mark,
         SP!Compactable, S!Compactable, SP!K_CompactTest, S!K_CompactTest,
         SP!Dropped, S!Dropped, SP!K_Compact, S!K_Compact, SP!K_Clear,
         S!K_Clear, SP!K_ZeroTest, S!K_ZeroTest, SP!K_Zero, S!K_Zero, SP!Ack,
         S!Ack, SP!Timeout, S!Timeout, SP!Next, S!Next

LEMMA SameReceiver ==
    /\ RP!ReceiverInv <=> R!ReceiverInv
    /\ RP!ReceiverInv' <=> R!ReceiverInv'
  BY
     DEF RP!ReceiverInv, R!ReceiverInv, RP!TypeOK, R!TypeOK, RP!InOrder,
         R!InOrder, RP!WindowAligned, R!WindowAligned, RP!ScanStops,
         R!ScanStops, RP!DeliverReady, R!DeliverReady, RP!Slots, R!Slots

LEMMA SameReceiverNext == [RP!Next]_(RP!vars) <=> [R!Next]_(R!vars)
  BY
     DEF RP!vars, R!vars, RP!winVars, R!winVars, RP!readVars, R!readVars,
         RP!Slots, R!Slots, RP!DataSegments, R!DataSegments, RP!Probes,
         R!Probes, RP!PeerWrite, R!PeerWrite, RP!WindowHolds,
         R!WindowHolds, RP!Stored, R!Stored, RP!IsFreeLen, R!IsFreeLen,
         RP!NoRoom, R!NoRoom, RP!RemainBlocked, R!RemainBlocked,
         RP!SendAck, R!SendAck, RP!HandleOld, R!HandleOld, RP!HandleGap,
         R!HandleGap, RP!HandleBlocked, R!HandleBlocked, RP!HandleFits,
         R!HandleFits, RP!Shifted, R!Shifted, RP!HeadBytes, R!HeadBytes,
         RP!Deliver, R!Deliver, RP!Handle, R!Handle, RP!RecvSee,
         R!RecvSee, RP!ReadLen, R!ReadLen, RP!RecvCopy, R!RecvCopy,
         RP!Recv, R!Recv, RP!Next, R!Next

\* A step of the sending half keeps its invariant,
LEMMA SenderKeeps == S!SenderInv /\ [S!Next]_(S!vars) => S!SenderInv'
  BY TransferAssumption, SameSender, SameSenderNext, SP!SenderStep
     DEF SP!SenderStep, SP!SenderAssumption, S!SenderAssumption

\* a step of the receiving half keeps its own,
LEMMA ReceiverKeeps == R!ReceiverInv /\ [R!Next]_(R!vars) => R!ReceiverInv'
  BY TransferAssumption, SameReceiver, SameReceiverNext, RP!ReceiverStep
     DEF RP!ReceiverStep, RP!SizesAssumption, R!SizesAssumption

\* and is a step of the byte stream.
LEMMA StreamStep ==
    R!ReceiverInv /\ [R!Next]_(R!vars) => [Stream!BNext]_(Stream!bvars)
  BY TransferAssumption, SameReceiver, SameReceiverNext, RP!StepOfStream
     DEF RP!StepOfStream, RP!SizesAssumption, R!SizesAssumption,
     RP!Stream!Write, Stream!Write, RP!Stream!Accept, Stream!Accept,
         RP!Stream!Return, Stream!Return, RP!Stream!BNext, Stream!BNext,
         RP!Stream!bvars, Stream!bvars

-----------------------------------------------------------------------------
(* What a step of the sending half may change of what the rest relies on.  *)

\* The steps of the threads and the timer that neither send nor take an ACK,
\* and with them the application's.
Works ==
    \/ S!S_Guard \/ S!S_ReadBase \/ S!S_Lock \/ S!S_Start \/ S!S_Account \/ S!S_Finish
    \/ S!R_Wake \/ S!R_Open \/ S!R_Begin \/ S!R_Clear \/ S!R_Recheck \/ S!R_Lock
    \/ S!R_Collapse \/ S!R_ReadAck \/ S!R_ReadBase \/ S!R_Rearm \/ S!R_Finish
    \/ S!K_Base \/ S!K_Test \/ S!K_Stop \/ S!K_Unmark \/ S!K_Restart \/ S!K_Mark
    \/ S!K_CompactTest \/ S!K_Compact \/ S!K_Clear \/ S!K_ZeroTest \/ S!K_Zero
    \/ S!Timeout
Silent == Works \/ \E n \in 1..StreamLen : S!AppSend(n)

\* The steps that send, with the segment they send.
Sends(p) ==
    \/ S!S_Send /\ p = S!SendSegment
    \/ S!R_Probe /\ p = [seq |-> base - 1, off |-> 0, dlen |-> 0]
    \/ S!R_Resend /\ p = S!ResendSegment

TakesAck(m) == S!K_Old(m.ack, m.wnd) \/ S!K_Dup(m.ack, m.wnd) \/ S!K_New(m.ack, m.wnd)

\* The invariant but for the parts that the halves' own proofs keep.
Shared ==
    /\ ReceivedWasSent
    /\ AcksAreDelivered
    /\ FlightIsSent
    /\ NothingBeforeFirst

LEMMA SilentReaches ==
    ASSUME Silent
    PROVE  /\ reached' = reached
           /\ S!LastAck' = S!LastAck
           /\ base' = base \/ base' = S!LastAck
<1> USE DEF S!LastAck, S!bufVars, S!wndVars, S!congVars, S!flagVars, S!sndVars,
            S!rtVars, S!ackVars
<1>1. CASE \E n \in 1..StreamLen : S!AppSend(n)
  BY <1>1 DEF S!AppSend
<1>2. CASE S!S_Guard \/ S!S_ReadBase \/ S!S_Lock \/ S!S_Start \/ S!S_Account \/ S!S_Finish
  BY <1>2 DEF S!S_Guard, S!S_ReadBase, S!S_Lock, S!S_Start, S!S_Account, S!S_Finish
<1>3. CASE S!R_Wake \/ S!R_Open \/ S!R_Begin \/ S!R_Clear \/ S!R_Recheck \/ S!R_Lock
  BY <1>3 DEF S!R_Wake, S!R_Open, S!R_Begin, S!R_Clear, S!R_Recheck, S!R_Lock
<1>4. CASE S!R_Collapse \/ S!R_ReadAck \/ S!R_ReadBase \/ S!R_Rearm \/ S!R_Finish \/ S!Timeout
  BY <1>4 DEF S!R_Collapse, S!R_ReadAck, S!R_ReadBase, S!R_Rearm, S!R_Finish, S!Timeout
<1>5. CASE S!K_Base \/ S!K_Test \/ S!K_Stop \/ S!K_Unmark \/ S!K_Restart \/ S!K_Mark
  BY <1>5 DEF S!K_Base, S!K_Test, S!K_Stop, S!K_Unmark, S!K_Restart, S!K_Mark
<1>6. CASE S!K_CompactTest \/ S!K_Compact \/ S!K_Clear \/ S!K_ZeroTest \/ S!K_Zero
  BY <1>6 DEF S!K_CompactTest, S!K_Compact, S!K_Clear, S!K_ZeroTest, S!K_Zero
<1> QED
  BY <1>1, <1>2, <1>3, <1>4, <1>5, <1>6 DEF Silent, Works

LEMMA SilentBeforeFirst ==
    ASSUME Silent, NothingBeforeFirst, reached = 1
    PROVE  /\ ~timer' /\ ~RETRANS' /\ ~overlap'
           /\ spc' \notin {"start", "account"} /\ rpc' = "idle" /\ kpc' = "idle"
<1> USE DEF S!bufVars, S!wndVars, S!congVars, S!flagVars, S!sndVars,
            S!rtVars, S!ackVars, NothingBeforeFirst
<1>1. CASE \E n \in 1..StreamLen : S!AppSend(n)
  BY <1>1 DEF S!AppSend
<1>2. CASE S!S_Guard \/ S!S_ReadBase \/ S!S_Lock \/ S!S_Start \/ S!S_Account \/ S!S_Finish
  BY <1>2 DEF S!S_Guard, S!S_ReadBase, S!S_Lock, S!S_Start, S!S_Account, S!S_Finish
<1>3. CASE S!R_Wake \/ S!R_Open \/ S!R_Begin \/ S!R_Clear \/ S!R_Recheck \/ S!R_Lock
  BY <1>3 DEF S!R_Wake, S!R_Open, S!R_Begin, S!R_Clear, S!R_Recheck, S!R_Lock
<1>4. CASE S!R_Collapse \/ S!R_ReadAck \/ S!R_ReadBase \/ S!R_Rearm \/ S!R_Finish \/ S!Timeout
  BY <1>4 DEF S!R_Collapse, S!R_ReadAck, S!R_ReadBase, S!R_Rearm, S!R_Finish, S!Timeout
<1>5. CASE S!K_Base \/ S!K_Test \/ S!K_Stop \/ S!K_Unmark \/ S!K_Restart \/ S!K_Mark
  BY <1>5 DEF S!K_Base, S!K_Test, S!K_Stop, S!K_Unmark, S!K_Restart, S!K_Mark
<1>6. CASE S!K_CompactTest \/ S!K_Compact \/ S!K_Clear \/ S!K_ZeroTest \/ S!K_Zero
  BY <1>6 DEF S!K_CompactTest, S!K_Compact, S!K_Clear, S!K_ZeroTest, S!K_Zero
<1> QED
  BY <1>1, <1>2, <1>3, <1>4, <1>5, <1>6 DEF Silent, Works

\* Whatever is silent leaves the shared part of the invariant alone.
LEMMA SilentShared ==
    ASSUME Shared, Silent, UNCHANGED <<recvVars, data, acks>>
    PROVE  Shared'
<1>1. ReceivedWasSent'
  BY SilentReaches DEF Shared, ReceivedWasSent, recvVars, R!Slots
<1>2. AcksAreDelivered'
  BY SilentReaches DEF Shared, AcksAreDelivered, recvVars
<1>3. FlightIsSent'
  BY SilentReaches DEF Shared, FlightIsSent
<1>4. NothingBeforeFirst'
  BY SilentReaches, SilentBeforeFirst DEF Shared, NothingBeforeFirst, recvVars
<1> QED
  BY <1>1, <1>2, <1>3, <1>4 DEF Shared

\* A segment that is sent can be acknowledged from then on.
LEMMA SendReaches ==
    ASSUME S!SenderInv, NEW p, Sends(p)
    PROVE  /\ p.seq \in Int /\ p.dlen \in Int
           /\ reached \in Nat /\ reached' \in Nat /\ reached <= reached'
           /\ p.seq + p.dlen <= reached'
           /\ UNCHANGED <<base, kpc, kack>>
<1> USE DEF S!bufVars, S!wndVars, S!congVars, S!flagVars, S!sndVars, S!rtVars,
            S!ackVars
<1>1. /\ {compacted, have_send_len, tmp_len, wnd_nextseq, r_ack_cnt, r_base} \subseteq Int
      /\ base \in Nat /\ reached \in Nat /\ MAX_DLEN \in Nat
  BY TransferAssumption DEF S!SenderInv, S!DataInv, S!TypeOK, S!SenderAssumption
<1>2. p.seq \in Int /\ p.dlen \in Int /\ S!Transmit(p)
  <2>1. CASE S!S_Send /\ p = S!SendSegment
    BY <1>1, <2>1 DEF S!S_Send, S!SendSegment, S!SegmentLen, S!Lesser
  <2>2. CASE S!R_Probe /\ p = [seq |-> base - 1, off |-> 0, dlen |-> 0]
    BY <1>1, <2>2 DEF S!R_Probe
  <2>3. CASE S!R_Resend /\ p = S!ResendSegment
    BY <1>1, <2>3 DEF S!R_Resend, S!ResendSegment, S!SegmentLen, S!Lesser
  <2> QED
    BY <2>1, <2>2, <2>3 DEF Sends
<1>3. UNCHANGED <<base, kpc, kack>>
  BY DEF Sends, S!S_Send, S!R_Probe, S!R_Resend
<1> QED
  BY <1>1, <1>2, <1>3 DEF S!Transmit, S!Greater

\* The first segment is not empty, so that no later state looks like the first.
LEMMA FirstReaches ==
    ASSUME S!SenderInv, NothingBeforeFirst, NEW p, Sends(p), expect_seq \in Nat \ {0},
           expect_seq <= reached
    PROVE  reached' # 1
<1>1. reached \in Nat /\ reached >= 1 /\ reached' \in Nat /\ reached' >= reached
  BY SendReaches DEF S!SenderInv, S!DataInv, S!TypeOK
<1>2. ASSUME reached = 1 PROVE reached' >= 2
  <2>1. ~overlap /\ ~RETRANS /\ rpc = "idle"
    BY <1>2 DEF NothingBeforeFirst
  <2>2. S!S_Send /\ p = S!SendSegment
    BY <2>1 DEF Sends, S!R_Probe, S!R_Resend
  <2>3. /\ compacted \in Nat /\ have_send_len \in Nat /\ tmp_len \in Int
        /\ have_send_len < tmp_len /\ wnd_nextseq = compacted + have_send_len + 1
        /\ MAX_DLEN \in Nat \ {0}
    BY <2>1, <2>2, TransferAssumption
       DEF S!S_Send, S!SenderInv, S!DataInv, S!TypeOK, S!BufferInv, S!NextseqInv, S!SenderAssumption
  <2>4. p.seq >= 1 /\ p.dlen >= 1
    BY <2>2, <2>3 DEF S!SendSegment, S!SegmentLen, S!Lesser
  <2> QED
    BY <2>4, SendReaches
<1> QED
  BY <1>1, <1>2

LEMMA SendShared ==
    ASSUME S!SenderInv, Shared, NEW p, Sends(p), Emit(p)
    PROVE  Shared'
<1>1. /\ UNCHANGED <<recvVars, acks>> /\ data' = data \cup {p}
      /\ expect_seq \in Nat \ {0} /\ expect_seq <= reached
      /\ \A i \in R!Slots : i \in Nat
  BY DEF Emit, Shared, ReceivedWasSent, R!Slots
<1>2. ReceivedWasSent'
  BY <1>1, SendReaches DEF Shared, ReceivedWasSent, recvVars, R!Slots
<1>3. AcksAreDelivered'
  BY <1>1, SendReaches DEF Shared, AcksAreDelivered, recvVars, S!LastAck
<1>4. FlightIsSent'
  BY <1>1, SendReaches DEF Shared, FlightIsSent
<1>5. NothingBeforeFirst'
  BY <1>1, FirstReaches DEF Shared, NothingBeforeFirst
<1> QED
  BY <1>2, <1>3, <1>4, <1>5 DEF Shared

\* The handler applies an ACK that is in flight.
LEMMA TakeAckShared ==
    ASSUME Shared, NEW m \in acks, TakeAck(m)
    PROVE  Shared'
<1> USE DEF S!bufVars, S!wndVars, S!congVars, S!flagVars, S!sndVars, S!rtVars
<1>1. /\ UNCHANGED <<recvVars, data, base, reached>> /\ acks' \subseteq acks
      /\ TakesAck(m)
  BY DEF TakeAck, TakesAck, Took, S!K_Old, S!K_Dup, S!K_New
<1>2. m.ack <= expect_seq /\ reached # 1
  BY DEF Shared, AcksAreDelivered, NothingBeforeFirst
<1>3. ReceivedWasSent'
  BY <1>1 DEF Shared, ReceivedWasSent, recvVars, R!Slots
<1>4. kpc' = "base" => kack' = m.ack
  BY <1>1 DEF TakesAck, S!K_Old, S!K_Dup, S!K_New
<1>5. AcksAreDelivered'
  BY <1>1, <1>2, <1>4 DEF Shared, AcksAreDelivered, recvVars, S!LastAck
<1>6. FlightIsSent'
  BY <1>1 DEF Shared, FlightIsSent
<1>7. NothingBeforeFirst'
  BY <1>1, <1>2 DEF NothingBeforeFirst
<1> QED
  BY <1>3, <1>5, <1>6, <1>7 DEF Shared

-----------------------------------------------------------------------------
(* What a step of the receiving half may change.                           *)

\* Storing a segment that was sent marks only positions that were sent.
LEMMA StoredWasSent ==
    ASSUME ReceivedWasSent, reached \in Nat,
           NEW p, p.seq \in Int, p.dlen \in Int, p.seq + p.dlen <= reached,
           win' = R!Stored(p),
           NEW i \in R!Slots, win'[i] # 0
    PROVE  expect_seq + i < reached
<1>1. i \in Nat /\ expect_seq \in Nat
  BY DEF R!Slots, ReceivedWasSent
<1>2. CASE /\ R!WindowHolds(p)
           /\ p.seq <= expect_seq + i /\ expect_seq + i < p.seq + p.dlen
  BY <1>1, <1>2
<1>3. CASE ~(/\ R!WindowHolds(p)
             /\ p.seq <= expect_seq + i /\ expect_seq + i < p.seq + p.dlen)
  <2>1. win'[i] = win[i]
    BY <1>3 DEF R!Stored
  <2> QED
    BY <2>1 DEF ReceivedWasSent
<1> QED
  BY <1>2, <1>3

\* Every way through the handler leaves the shared part intact.
LEMMA TakeDataShared ==
    ASSUME S!SenderInv, Shared, NEW p \in data, TakeData(p)
    PROVE  Shared'
<1> USE DEF R!winVars, R!readVars
<1>0. /\ R!Handle(p) /\ UNCHANGED sendVars /\ data' \subseteq data
      /\ acks' = IF hpc' = "idle" THEN acks \cup {ack_sent'} ELSE acks
  BY DEF TakeData, Took
<1>1. /\ reached \in Nat /\ p.seq \in Int /\ p.dlen \in Int /\ p.seq + p.dlen <= reached
      /\ MAX_RWINDOW_SIZE \in Nat
      /\ expect_seq \in Nat \ {0}
  BY TransferAssumption
     DEF S!SenderInv, S!DataInv, S!TypeOK, Shared, FlightIsSent, ReceivedWasSent, S!SenderAssumption
<1>2. expect_seq' = expect_seq
  BY <1>0 DEF R!Handle, R!HandleOld, R!HandleGap, R!HandleBlocked, R!HandleFits
<1>3. win' = win \/ win' = R!Stored(p)
  BY <1>0 DEF R!Handle, R!HandleOld, R!HandleGap, R!HandleBlocked, R!HandleFits
<1>4. \A i \in R!Slots : win'[i] # 0 => expect_seq + i < reached
  BY <1>1, <1>3, StoredWasSent DEF Shared, ReceivedWasSent
<1>5. remain_size' \in 0..MAX_RWINDOW_SIZE /\ hfree' \in R!Slots
  <2>1. CASE R!HandleOld(p) \/ R!HandleGap(p)
    BY <2>1 DEF R!HandleOld, R!HandleGap, Shared, ReceivedWasSent
  <2>2. CASE R!HandleBlocked(p)
    BY <1>1, <2>2 DEF R!HandleBlocked, R!RemainBlocked, R!Slots, Shared, ReceivedWasSent
  <2>3. CASE R!HandleFits(p)
    BY <1>1, <2>3 DEF R!HandleFits, Shared, ReceivedWasSent
  <2> QED
    BY <1>0, <2>1, <2>2, <2>3 DEF R!Handle
<1>6. hpc' = "deliver" => \A i \in 0..(hfree' - 1) : win'[i] # 0
  BY <1>0 DEF R!Handle, R!HandleOld, R!HandleGap, R!HandleBlocked, R!HandleFits,
              R!IsFreeLen
<1>7. acks' # acks => ack_sent' = [ack |-> expect_seq', wnd |-> remain_size']
  BY <1>0 DEF R!Handle, R!HandleOld, R!HandleGap, R!HandleBlocked, R!HandleFits,
              R!SendAck
<1>8. ReceivedWasSent'
  BY <1>0, <1>1, <1>2, <1>4, <1>5, <1>6
     DEF Shared, ReceivedWasSent, sendVars, R!Slots
<1>9. AcksAreDelivered'
  <2>1. S!LastAck' = S!LastAck /\ base' = base
    BY <1>0 DEF sendVars, S!LastAck
  <2>2. \A m \in acks' : m.ack \in 1..expect_seq' /\ m.wnd \in 0..MAX_RWINDOW_SIZE
    BY <1>0, <1>1, <1>2, <1>5, <1>7 DEF Shared, AcksAreDelivered
  <2> QED
    BY <1>2, <2>1, <2>2 DEF Shared, AcksAreDelivered
<1>10. FlightIsSent'
  BY <1>0 DEF Shared, FlightIsSent, sendVars
<1>11. NothingBeforeFirst'
  BY <1>0 DEF Shared, NothingBeforeFirst, sendVars
<1> QED
  BY <1>8, <1>9, <1>10, <1>11 DEF Shared

LEMMA DeliverShared ==
    ASSUME S!SenderInv, Shared, Deliver
    PROVE  Shared'
<1>0. /\ hpc = "deliver"
      /\ win' = R!Shifted(win, hfree) /\ expect_seq' = expect_seq + hfree
      /\ hfree' = 0 /\ hpc' = "idle" /\ remain_size' = remain_size
      /\ ack_sent' = [ack |-> expect_seq', wnd |-> remain_size']
      /\ acks' = acks \cup {ack_sent'}
      /\ UNCHANGED <<sendVars, data>>
  BY DEF Deliver, R!Deliver, R!SendAck
<1>1. /\ reached \in Nat /\ expect_seq \in Nat \ {0} /\ hfree \in Nat
      /\ hfree < MAX_RWINDOW_SIZE /\ MAX_RWINDOW_SIZE \in Nat /\ expect_seq <= reached
      /\ remain_size \in 0..MAX_RWINDOW_SIZE
  BY TransferAssumption
     DEF S!SenderInv, S!DataInv, S!TypeOK, Shared, ReceivedWasSent, R!Slots, S!SenderAssumption
<1>2. expect_seq' \in Nat \ {0} /\ expect_seq <= expect_seq' /\ expect_seq' <= reached
  <2>1. CASE hfree = 0
    BY <1>0, <1>1, <2>1
  <2>2. CASE hfree > 0
    <3>1. hfree - 1 \in R!Slots /\ win[hfree - 1] # 0
      BY <1>0, <1>1, <2>2 DEF R!Slots, Shared, ReceivedWasSent
    <3>2. expect_seq + (hfree - 1) < reached
      BY <3>1 DEF Shared, ReceivedWasSent
    <3> QED
      BY <1>0, <1>1, <2>2, <3>2
  <2> QED
    BY <1>1, <2>1, <2>2
<1>3. ASSUME NEW i \in R!Slots, win'[i] # 0 PROVE expect_seq' + i < reached
  <2>1. i \in Nat /\ i + hfree \in R!Slots /\ win[i + hfree] # 0
    BY <1>0, <1>3 DEF R!Shifted, R!Slots
  <2>2. expect_seq + (i + hfree) < reached
    BY <2>1 DEF Shared, ReceivedWasSent
  <2> QED
    BY <1>0, <1>1, <2>1, <2>2
<1>4. ReceivedWasSent'
  BY <1>0, <1>1, <1>2, <1>3 DEF ReceivedWasSent, sendVars, R!Slots
<1>5. AcksAreDelivered'
  <2>1. S!LastAck' = S!LastAck /\ base' = base
    BY <1>0 DEF sendVars, S!LastAck
  <2>2. base \in Nat /\ S!LastAck \in Nat
    BY DEF S!SenderInv, S!DataInv, S!TypeOK, S!LastAck
  <2>3. \A m \in acks' : m.ack \in 1..expect_seq' /\ m.wnd \in 0..MAX_RWINDOW_SIZE
    BY <1>0, <1>1, <1>2 DEF Shared, AcksAreDelivered
  <2> QED
    BY <1>1, <1>2, <2>1, <2>2, <2>3 DEF Shared, AcksAreDelivered
<1>6. FlightIsSent'
  BY <1>0 DEF Shared, FlightIsSent, sendVars
<1>7. NothingBeforeFirst'
  BY <1>0 DEF Shared, NothingBeforeFirst, sendVars
<1> QED
  BY <1>4, <1>5, <1>6, <1>7 DEF Shared

\* Readers, losses and stuttering touch nothing shared.
LEMMA IdleShared ==
    ASSUME Shared, UNCHANGED <<sendVars, expect_seq, win, remain_size, hpc, hfree>>,
           data' \subseteq data, acks' \subseteq acks
    PROVE  Shared'
<1>1. S!LastAck' = S!LastAck
  BY DEF sendVars, S!LastAck
<1>2. ReceivedWasSent' /\ AcksAreDelivered'
  BY <1>1 DEF Shared, ReceivedWasSent, AcksAreDelivered, sendVars, R!Slots
<1>3. FlightIsSent' /\ NothingBeforeFirst'
  BY DEF Shared, FlightIsSent, NothingBeforeFirst, sendVars
<1> QED
  BY <1>2, <1>3 DEF Shared

LEMMA SharedStep ==
    ASSUME S!SenderInv, Shared, [Next]_vars
    PROVE  Shared'
<1>1. CASE AppSend
  BY <1>1, SilentShared DEF AppSend, Quiet, netVars, Silent, Works
<1>2. CASE SendingThread
  BY <1>2, SilentShared, SendShared DEF SendingThread, Quiet, netVars, Silent, Works, Sends
<1>3. CASE RetransThread
  BY <1>3, SilentShared, SendShared DEF RetransThread, Quiet, netVars, Silent, Works, Sends
<1>4. CASE AckThread
  BY <1>4, SilentShared, TakeAckShared DEF AckThread, Quiet, netVars, Silent, Works
<1>5. CASE Timeout
  BY <1>5, SilentShared DEF Timeout, Silent, Works
<1>6. CASE DataThread
  BY <1>6, TakeDataShared, DeliverShared DEF DataThread
<1>7. CASE \E r \in Readers : Recv(r)
  BY <1>7, IdleShared DEF Recv, netVars, R!Recv, R!RecvSee, R!RecvCopy, R!winVars
<1>8. CASE Lose
  BY <1>8, IdleShared DEF Lose, recvVars
<1>9. CASE UNCHANGED vars
  BY <1>9, IdleShared DEF vars, recvVars, netVars
<1> QED
  BY <1>1, <1>2, <1>3, <1>4, <1>5, <1>6, <1>7, <1>8, <1>9 DEF Next

-----------------------------------------------------------------------------
(* Each half sees only what its own specification allows.                  *)

\* What the sending half takes from the network its model lets a peer send.
LEMMA FeedsSenderStep ==
    ASSUME S!SenderInv, Shared, [Next]_vars
    PROVE  [S!Next]_(S!vars)
<1>1. CASE AppSend
  BY <1>1 DEF AppSend, Quiet, S!Next
<1>2. CASE SendingThread
  BY <1>2 DEF SendingThread, Quiet, S!Next
<1>3. CASE RetransThread
  BY <1>3 DEF RetransThread, Quiet, S!Next
<1>4. CASE AckThread
  <2>1. ASSUME NEW m \in acks, TakeAck(m) PROVE S!Next
    <3>1. /\ m.ack \in 1..expect_seq /\ m.wnd \in 0..MAX_RWINDOW_SIZE
          /\ expect_seq \in Nat \ {0} /\ expect_seq <= reached /\ reached \in Nat
          /\ reached # 1
      BY DEF Shared, AcksAreDelivered, ReceivedWasSent, NothingBeforeFirst,
             S!SenderInv, S!DataInv, S!TypeOK
    <3>2. m.ack \in 1..reached /\ reached > 1
      BY <3>1
    <3>3. S!Ack
      BY <2>1, <3>1, <3>2 DEF TakeAck, S!Ack
    <3> QED
      BY <3>3 DEF S!Next
  <2> QED
    BY <1>4, <2>1 DEF AckThread, Quiet, S!Next
<1>5. CASE Timeout
  BY <1>5 DEF Timeout, S!Next
<1>6. CASE UNCHANGED sendVars
  BY <1>6 DEF sendVars, S!vars, S!bufVars, S!wndVars, S!congVars, S!flagVars,
              S!sndVars, S!rtVars, S!ackVars
<1>7. CASE DataThread \/ (\E r \in Readers : Recv(r)) \/ Lose \/ UNCHANGED vars
  BY <1>6, <1>7 DEF DataThread, TakeData, Deliver, Recv, Lose, vars
<1> QED
  BY <1>1, <1>2, <1>3, <1>4, <1>5, <1>7 DEF Next

\* Compaction moves the boundary in the stream, it does not change the stream.
LEMMA WrittenStays ==
    ASSUME S!SenderInv, Works \/ (\E p : Sends(p)) \/ (\E m : TakesAck(m))
    PROVE  written' = written
<1> USE DEF S!bufVars, written
<1>0. {compacted, sending_len, ack_cnt} \subseteq Int
  BY DEF S!SenderInv, S!DataInv, S!TypeOK
<1>1. CASE S!S_Guard \/ S!S_ReadBase \/ S!S_Lock \/ S!S_Start \/ S!S_Account \/ S!S_Finish
  BY <1>1 DEF S!S_Guard, S!S_ReadBase, S!S_Lock, S!S_Start, S!S_Account, S!S_Finish
<1>2. CASE S!R_Wake \/ S!R_Open \/ S!R_Begin \/ S!R_Clear \/ S!R_Recheck \/ S!R_Lock
  BY <1>2 DEF S!R_Wake, S!R_Open, S!R_Begin, S!R_Clear, S!R_Recheck, S!R_Lock
<1>3. CASE S!R_Collapse \/ S!R_ReadAck \/ S!R_ReadBase \/ S!R_Rearm \/ S!R_Finish \/ S!Timeout
  BY <1>3 DEF S!R_Collapse, S!R_ReadAck, S!R_ReadBase, S!R_Rearm, S!R_Finish, S!Timeout
<1>4. CASE S!K_Base \/ S!K_Test \/ S!K_Stop \/ S!K_Unmark \/ S!K_Restart \/ S!K_Mark
  BY <1>4 DEF S!K_Base, S!K_Test, S!K_Stop, S!K_Unmark, S!K_Restart, S!K_Mark
<1>5. CASE S!K_CompactTest \/ S!K_Clear \/ S!K_ZeroTest \/ S!K_Zero
  BY <1>5 DEF S!K_CompactTest, S!K_Clear, S!K_ZeroTest, S!K_Zero
<1>6. CASE S!K_Compact
  BY <1>0, <1>6 DEF S!K_Compact, S!Dropped
<1>7. CASE \E p : Sends(p)
  BY <1>7 DEF Sends, S!S_Send, S!R_Probe, S!R_Resend
<1>8. CASE \E m : TakesAck(m)
  BY <1>8 DEF TakesAck, S!K_Old, S!K_Dup, S!K_New
<1> QED
  BY <1>1, <1>2, <1>3, <1>4, <1>5, <1>6, <1>7, <1>8 DEF Works

\* What the receiving half takes from the network its model lets a peer send,
\* until an overlap.
LEMMA FeedsReceiverStep ==
    ASSUME TransferInv, ~overlap, [Next]_vars
    PROVE  [R!Next]_(R!vars)
<1> USE DEF R!vars, R!winVars, R!readVars
<1>0. /\ S!SenderInv /\ data \subseteq R!DataSegments \cup R!Probes
  BY DEF TransferInv, FlightIsFaithful
<1>1. CASE AppSend
  <2>1. PICK n \in 1..StreamLen : S!AppSend(n)
    BY <1>1 DEF AppSend, Quiet
  <2>2. /\ compacted \in Nat /\ sending_len \in Nat /\ StreamLen \in Nat
    BY <1>0, TransferAssumption DEF S!SenderInv, S!DataInv, S!BufferInv, S!SenderAssumption
  <2>3. /\ compacted' = compacted /\ sending_len' = sending_len + n
        /\ compacted + sending_len + n <= StreamLen
    BY <2>1 DEF S!AppSend
  <2>4. written' \in (written + 1)..StreamLen
    BY <2>2, <2>3 DEF written
  <2>5. UNCHANGED recvVars
    BY <1>1 DEF AppSend, Quiet
  <2>6. R!PeerWrite
    BY <2>4, <2>5 DEF R!PeerWrite, recvVars
  <2> QED
    BY <2>6 DEF R!Next
<1>2. CASE SendingThread \/ RetransThread \/ AckThread \/ Timeout
  <2>1. UNCHANGED recvVars
    BY <1>2 DEF SendingThread, RetransThread, AckThread, Timeout, Quiet, Emit, TakeAck
  <2>2. Works \/ (\E p : Sends(p)) \/ (\E m : TakesAck(m))
    BY <1>2 DEF SendingThread, RetransThread, AckThread, Timeout, Quiet, TakeAck,
                Works, Sends, TakesAck
  <2>3. written' = written
    BY <1>0, <2>2, WrittenStays
  <2> QED
    BY <2>1, <2>3 DEF recvVars
<1>3. CASE DataThread
  BY <1>0, <1>3 DEF DataThread, Deliver, TakeData, R!Next
<1>4. CASE \E r \in Readers : Recv(r)
  BY <1>4 DEF Recv, R!Next
<1>5. CASE Lose \/ UNCHANGED vars
  BY <1>5 DEF Lose, vars, sendVars, recvVars, written
<1> QED
  BY <1>1, <1>2, <1>3, <1>4, <1>5 DEF Next

-----------------------------------------------------------------------------
(* Until an overlap, what is in flight is a slice of the stream.           *)

LEMMA OverlapStays ==
    ASSUME S!SenderInv, [S!Next]_(S!vars), overlap
    PROVE  overlap'
<1>1. CASE UNCHANGED S!vars
  BY <1>1 DEF S!vars
<1>2. CASE (\E n \in 1..StreamLen : S!AppSend(n)) \/ S!Timeout
  BY <1>2 DEF S!AppSend, S!Timeout
<1>3. CASE S!S_Guard \/ S!S_ReadBase \/ S!S_Lock \/ S!S_Start \/ S!S_Account \/ S!S_Finish
           \/ S!S_Send
  BY <1>3 DEF S!S_Guard, S!S_ReadBase, S!S_Lock, S!S_Start, S!S_Account, S!S_Finish, S!S_Send
<1>4. CASE S!R_Wake \/ S!R_Open \/ S!R_Begin \/ S!R_Clear \/ S!R_Recheck \/ S!R_Lock
           \/ S!R_Probe
  BY <1>4 DEF S!R_Wake, S!R_Open, S!R_Begin, S!R_Clear, S!R_Recheck, S!R_Lock, S!R_Probe
<1>5. CASE S!R_Collapse \/ S!R_ReadAck \/ S!R_ReadBase \/ S!R_Rearm \/ S!R_Finish \/ S!R_Resend
  BY <1>5 DEF S!R_Collapse, S!R_ReadAck, S!R_ReadBase, S!R_Rearm, S!R_Finish, S!R_Resend
<1>6. CASE S!K_Base \/ S!K_Test \/ S!K_Stop \/ S!K_Unmark \/ S!K_Restart \/ S!K_Mark
  BY <1>6 DEF S!K_Base, S!K_Test, S!K_Stop, S!K_Unmark, S!K_Restart, S!K_Mark
<1>7. CASE S!K_CompactTest \/ S!K_Compact \/ S!K_Clear \/ S!K_ZeroTest \/ S!K_Zero
  BY <1>7 DEF S!K_CompactTest, S!K_Compact, S!K_Clear, S!K_ZeroTest, S!K_Zero
<1>8. CASE S!Ack
  BY <1>8 DEF S!Ack, S!K_Old, S!K_Dup, S!K_New
<1> QED
  BY <1>1, <1>2, <1>3, <1>4, <1>5, <1>6, <1>7, <1>8 DEF S!Next

\* The bytes of the buffer are bytes the application wrote.
LEMMA SendsFaithfully ==
    ASSUME TransferInv, ~overlap, NEW p, Sends(p)
    PROVE  p \in R!DataSegments \cup R!Probes
<1>1. /\ {compacted, sending_len, have_send_len, ack_cnt} \subseteq Nat
      /\ have_send_len <= sending_len
      /\ spc = "send" => tmp_len <= sending_len
      /\ {tmp_len, r_ack_cnt, r_base, wnd_nextseq} \subseteq Int /\ base \in Nat
      /\ MAX_DLEN \in Nat \ {0} /\ StreamLen \in Nat
  BY TransferAssumption
     DEF TransferInv, S!SenderInv, S!DataInv, S!TypeOK, S!BufferInv, S!SenderAssumption
<1>2. /\ written = compacted + sending_len /\ written <= StreamLen
      /\ expect_seq \in Nat /\ expect_seq <= written + 1
  BY <1>1 DEF TransferInv, R!ReceiverInv, R!TypeOK, written
<1>3. CASE S!S_Send /\ p = S!SendSegment
  <2>1. /\ have_send_len < tmp_len /\ tmp_len <= sending_len
        /\ wnd_nextseq = compacted + have_send_len + 1
    BY <1>1, <1>3 DEF S!S_Send, TransferInv, S!SenderInv, S!DataInv, S!NextseqInv
  <2>2. S!SegmentLen(tmp_len - have_send_len) \in 1..MAX_DLEN
    BY <1>1, <2>1 DEF S!SegmentLen, S!Lesser
  <2>3. S!SegmentLen(tmp_len - have_send_len) <= tmp_len - have_send_len
    BY <1>1 DEF S!SegmentLen, S!Lesser
  <2>4. /\ wnd_nextseq + S!SegmentLen(tmp_len - have_send_len) <= written + 1
        /\ wnd_nextseq \in 1..StreamLen
    BY <1>1, <1>2, <2>1, <2>2, <2>3
  <2> QED
    BY <1>3, <2>1, <2>2, <2>4 DEF S!SendSegment, R!DataSegments
<1>4. CASE S!R_Probe /\ p = [seq |-> base - 1, off |-> 0, dlen |-> 0]
  <2>1. base >= 1 /\ base <= expect_seq
    BY <1>1 DEF TransferInv, S!SenderInv, S!DataInv, S!BaseInv, S!AckedInBuffer, AcksAreDelivered
  <2>2. base - 1 \in 0..StreamLen /\ base - 1 < expect_seq
    BY <1>1, <1>2, <2>1
  <2> QED
    BY <1>4, <2>2 DEF R!Probes
<1>5. CASE S!R_Resend /\ p = S!ResendSegment
  <2>1. /\ r_ack_cnt < have_send_len /\ r_ack_cnt \in Nat
        /\ r_base = compacted + r_ack_cnt + 1
    BY <1>5 DEF S!R_Resend, TransferInv, S!SenderInv, S!DataInv, S!SnapshotInv
  <2>2. S!SegmentLen(have_send_len - r_ack_cnt) \in 1..MAX_DLEN
    BY <1>1, <2>1 DEF S!SegmentLen, S!Lesser
  <2>3. S!SegmentLen(have_send_len - r_ack_cnt) <= have_send_len - r_ack_cnt
    BY <1>1 DEF S!SegmentLen, S!Lesser
  <2>4. /\ r_base + S!SegmentLen(have_send_len - r_ack_cnt) <= written + 1
        /\ r_base \in 1..StreamLen
    BY <1>1, <1>2, <2>1, <2>2, <2>3
  <2> QED
    BY <1>5, <2>1, <2>2, <2>4 DEF S!ResendSegment, R!DataSegments
<1> QED
  BY <1>3, <1>4, <1>5 DEF Sends

\* A slice of the stream stays one when the stream grows.
LEMMA FlightStays ==
    ASSUME R!ReceiverInv, [R!Next]_(R!vars)
    PROVE  R!DataSegments \cup R!Probes \subseteq (R!DataSegments \cup R!Probes)'
<1> USE DEF R!winVars, R!readVars
<1>1. written \in Nat /\ expect_seq \in Nat /\ hfree \in Nat /\ StreamLen \in Nat
  BY TransferAssumption DEF R!ReceiverInv, R!TypeOK, R!SizesAssumption
<1>2. /\ written' \in Nat /\ written <= written'
      /\ expect_seq' \in Nat /\ expect_seq <= expect_seq'
  <2>1. CASE UNCHANGED R!vars
    BY <1>1, <2>1 DEF R!vars
  <2>2. CASE R!PeerWrite
    BY <1>1, <2>2 DEF R!PeerWrite
  <2>3. CASE \E p \in R!DataSegments \cup R!Probes : R!Handle(p)
    BY <1>1, <2>3 DEF R!Handle, R!HandleOld, R!HandleGap, R!HandleBlocked, R!HandleFits
  <2>4. CASE R!Deliver
    BY <1>1, <2>4 DEF R!Deliver
  <2>5. CASE \E r \in Readers : R!Recv(r)
    BY <1>1, <2>5 DEF R!Recv, R!RecvSee, R!RecvCopy
  <2> QED
    BY <2>1, <2>2, <2>3, <2>4, <2>5 DEF R!Next
<1>3. R!DataSegments \subseteq R!DataSegments'
  BY <1>1, <1>2 DEF R!DataSegments
<1>4. R!Probes \subseteq R!Probes'
  BY <1>1, <1>2 DEF R!Probes
<1> QED
  BY <1>3, <1>4

LEMMA FlightFaithfulStep ==
    ASSUME TransferInv, ~overlap, [Next]_vars
    PROVE  FlightIsFaithful'
<1>1. data \subseteq (R!DataSegments \cup R!Probes)'
  BY FeedsReceiverStep, FlightStays DEF TransferInv, FlightIsFaithful
<1>2. data' \subseteq data \/ \E p : Sends(p) /\ data' = data \cup {p}
  BY DEF Next, vars, netVars, AppSend, SendingThread, RetransThread, AckThread, Timeout,
         DataThread, TakeData, TakeAck, Deliver, Recv, Lose, Quiet, Emit, Took, Sends
<1>3. ASSUME NEW p, Sends(p) PROVE p \in (R!DataSegments \cup R!Probes)'
  BY <1>3, SendsFaithfully, FeedsReceiverStep, FlightStays DEF TransferInv
<1> QED
  BY <1>1, <1>2, <1>3 DEF FlightIsFaithful

-----------------------------------------------------------------------------
LEMMA InitTransferInv == Init => TransferInv
<1> SUFFICES ASSUME Init PROVE TransferInv
  OBVIOUS
<1>1. S!SenderInv
  BY TransferAssumption, SP!InitSenderInv, SameSender
     DEF Init, SP!InitSenderInv, SP!SenderAssumption, S!SenderAssumption, SP!Init, S!Init
<1>2. R!ReceiverInv
  BY TransferAssumption, RP!InitInv, SameReceiver
     DEF Init, RP!InitInv, RP!SizesAssumption, R!SizesAssumption, RP!Init, R!Init,
         RP!Slots, R!Slots
<1>3. 0 \in R!Slots /\ MAX_RWINDOW_SIZE \in 0..MAX_RWINDOW_SIZE
  BY TransferAssumption DEF R!Slots, R!SizesAssumption
<1>4. ReceivedWasSent
  BY <1>3 DEF ReceivedWasSent, Init, S!Init, R!Init
<1>5. AcksAreDelivered /\ FlightIsSent /\ NothingBeforeFirst /\ FlightIsFaithful
  BY DEF AcksAreDelivered, FlightIsSent, NothingBeforeFirst, FlightIsFaithful, Init,
         S!Init, R!Init, S!LastAck
<1> QED
  BY <1>1, <1>2, <1>4, <1>5 DEF TransferInv

LEMMA TransferStep == TransferInv /\ [Next]_vars => TransferInv'
<1> SUFFICES ASSUME TransferInv, [Next]_vars PROVE TransferInv'
  OBVIOUS
<1>1. S!SenderInv /\ Shared
  BY DEF TransferInv, Shared
<1>2. [S!Next]_(S!vars)
  BY <1>1, FeedsSenderStep
<1>3. S!SenderInv' /\ Shared'
  BY <1>1, <1>2, SenderKeeps, SharedStep
<1>4. ~overlap' => R!ReceiverInv' /\ FlightIsFaithful'
  <2> SUFFICES ASSUME ~overlap' PROVE R!ReceiverInv' /\ FlightIsFaithful'
    OBVIOUS
  <2>1. ~overlap
    BY <1>1, <1>2, OverlapStays
  <2> QED
    BY <2>1, FeedsReceiverStep, ReceiverKeeps, FlightFaithfulStep DEF TransferInv
<1> QED
  BY <1>3, <1>4 DEF TransferInv, Shared

\* The two halves and what is in flight between them agree in every reachable
\* state, for all sizes, streams, readers and any number of faults.
THEOREM TransferIsInvariant == Spec => []TransferInv
  BY InitTransferInv, TransferStep, PTL DEF Spec

\* The ACKs of tju_handle_packet are ACKs its peer's model allows: every step
\* of the composition is one of Sender.
THEOREM SenderIsFed == Spec => FeedsSender
<1>1. Init => S!Init
  BY DEF Init
<1>2. TransferInv /\ [Next]_vars => [S!Next]_(S!vars)
  BY FeedsSenderStep DEF TransferInv, Shared
<1> QED
  BY <1>1, <1>2, TransferIsInvariant, PTL DEF Spec, FeedsSender, S!Spec

\* The segments of sending_thread and retrans_thread are slices of the stream:
\* until an overlap every step of the composition is one of Receiver.
THEOREM ReceiverIsFed == Spec => FeedsReceiver
<1>1. Init => R!Init
  BY DEF Init
<1>2. TransferInv /\ [Next]_vars => [overlap \/ R!Next]_(R!vars)
  BY FeedsReceiverStep
<1> QED
  BY <1>1, <1>2, TransferIsInvariant, PTL DEF Spec, FeedsReceiver

\* tju_send at one end, tju_recv at the other: a byte stream until an overlap.
THEOREM TransferImplementsStream == Spec => ImplementsStream
<1>1. Init => Stream!BInit
  BY DEF Init, S!Init, R!Init, Stream!BInit, written
<1>2. TransferInv /\ [Next]_vars => [overlap \/ Stream!BNext]_(Stream!bvars)
  BY FeedsReceiverStep, StreamStep DEF TransferInv
<1> QED
  BY <1>1, <1>2, TransferIsInvariant, PTL DEF Spec, ImplementsStream

\* A byte that left the sender's buffer is in the receiver's, or was read.
THEOREM BytesAreKept == Spec => []NothingIsLost
<1>1. TransferInv => NothingIsLost
  <2> SUFFICES ASSUME TransferInv, ~overlap, NEW k \in 1..written, k <= compacted
               PROVE  k <= Len(app) + Len(received_buf)
    <3>1. TransferInv /\ ~overlap => compacted \in Nat
      BY DEF TransferInv, S!SenderInv, S!DataInv, S!BufferInv
    <3> QED
      BY <3>1 DEF NothingIsLost
  <2>1. compacted \in Nat /\ ack_cnt \in Nat /\ base \in Nat /\ compacted < base
    BY DEF TransferInv, S!SenderInv, S!DataInv, S!TypeOK, S!BufferInv, S!BaseInv, S!AckedInBuffer
  <2>2. base <= expect_seq /\ expect_seq \in Nat
    BY DEF TransferInv, AcksAreDelivered, ReceivedWasSent
  <2>3. expect_seq = Len(app) + Len(received_buf) + 1
    BY DEF TransferInv, R!ReceiverInv, R!InOrder
  <2>4. Len(app) \in Nat /\ Len(received_buf) \in Nat
    BY DEF TransferInv, R!ReceiverInv, R!TypeOK
  <2> QED
    BY <2>1, <2>2, <2>3, <2>4
<1> QED
  BY <1>1, TransferIsInvariant, PTL

\* A transfer that has stopped is complete, whatever the network did to it.
THEOREM RestIsCompletion == Spec => []RestIsDone
<1>1. TransferInv => RestIsDone
  <2> SUFFICES ASSUME TransferInv, AtRest, ~overlap, ~mistimed
               PROVE  base = written + 1 /\ Len(app) + Len(received_buf) = written
    BY DEF RestIsDone, BeforeRace
  <2>1. /\ spc = "idle" /\ rpc = "idle" /\ kpc = "idle"
        /\ ~S!Requested /\ ~S!MaySend
    BY DEF AtRest, Quiescent, S!Requested
  <2>2. /\ {compacted, sending_len, have_send_len, ack_cnt, window_size, base} \subseteq Nat
        /\ have_send_len <= sending_len
        /\ base = compacted + ack_cnt + 1
    BY <2>1 DEF TransferInv, S!SenderInv, S!DataInv, S!TypeOK, S!BufferInv, S!BaseInv,
                S!AckedInBuffer
  <2>3. window_size # 0 /\ ack_cnt = have_send_len /\ ~is_retransing
    BY <2>1, <2>2 DEF TransferInv, S!SenderInv, S!CoverInv, S!VerdictInv,
                      S!NothingForgotten, S!Retransmitting, S!AckedInBuffer
  <2>4. have_send_len = sending_len
    BY <2>1, <2>2, <2>3 DEF S!MaySend
  <2>5. base = written + 1 /\ written \in Nat
    BY <2>2, <2>3, <2>4 DEF written
  <2>6. /\ expect_seq \in Nat /\ base <= expect_seq /\ expect_seq <= written + 1
        /\ expect_seq = Len(app) + Len(received_buf) + 1
        /\ Len(app) \in Nat /\ Len(received_buf) \in Nat
    BY DEF TransferInv, AcksAreDelivered, R!ReceiverInv, R!TypeOK, R!InOrder
  <2> QED
    BY <2>5, <2>6
<1> QED
  BY <1>1, TransferIsInvariant, PTL
=============================================================================
