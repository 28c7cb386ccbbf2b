---------------------------- MODULE SenderProofs ----------------------------
(***************************************************************************)
(* Proofs about Sender, for every segment, buffer and window size, every   *)
(* set of advertised windows and every stream length.                      *)
(***************************************************************************)
EXTENDS Sender, TLAPS

USE DEF Lesser, Greater, vars, bufVars, wndVars, congVars, flagVars, sndVars,
        rtVars, ackVars

-----------------------------------------------------------------------------
(* Types.                                                                  *)

\* Halving a congestion window leaves a natural number.
LEMMA HalfIsNat == ASSUME NEW c \in Nat PROVE c \div 2 \in Nat
  OBVIOUS

\* The initial state has the types.
LEMMA InitTypes == Init => TypeOK
<1> SUFFICES ASSUME Init PROVE TypeOK
  OBVIOUS
<1>1. /\ {is_retransing, RETRANS, TIMEOUT_FLAG, timer} \subseteq BOOLEAN
      /\ {outdated, overlap, mistimed} \subseteq BOOLEAN
  BY DEF Init
<1>2. {base, window_size, rwnd, cwnd, ssthresh, r_size} \subseteq Nat
  BY SenderAssumption DEF Init
<1> QED
  BY <1>1, <1>2 DEF Init, TypeOK

\* The counters and numbers of TypeOK, and its flags and program counters: the
\* provers take one at a time.
Numbers ==
    /\ {compacted, sending_len, have_send_len, ack_cnt, nextseq} \subseteq Int
    /\ {base, window_size, rwnd, cwnd, ssthresh, r_size, kack, reached} \subseteq Nat
    /\ {wnd_limit, wnd_base, wnd_nextseq, tmp_len, r_ack_cnt, r_base} \subseteq Int
    /\ same_ack_cnt \in 0..4
Flags ==
    /\ {is_retransing, RETRANS, TIMEOUT_FLAG, timer} \subseteq BOOLEAN
    /\ {outdated, overlap, mistimed} \subseteq BOOLEAN
Places ==
    /\ window_status \in {"SLOW_START", "CONGESTION_AVOIDANCE", "FAST_RECOVERY"}
    /\ send_lock \in {"free", "sending", "retrans", "compact"}
    /\ spc \in {"idle", "base", "lock", "send", "start", "account"}
    /\ rpc \in {"idle", "woken", "open", "clear", "recheck", "lock", "collapse",
                "snapshot", "base", "resend", "rearm"}
    /\ kpc \in {"idle", "base", "test", "stop", "unmark", "restart", "mark", "compact",
                "lock", "clear", "last", "zero"}

LEMMA TypeParts == TypeOK <=> Numbers /\ Flags /\ Places
  BY DEF TypeOK, Numbers, Flags, Places

\* Every step keeps the types; one step of the proof per action.
LEMMA TypesStep == TypeOK /\ [Next]_vars => TypeOK'
<1> SUFFICES ASSUME TypeOK, [Next]_vars PROVE Numbers' /\ Flags' /\ Places'
  BY TypeParts DEF TypeOK, Numbers, Flags, Places
<1> USE TypeParts, SenderAssumption, HalfIsNat
<1>1. CASE \E n \in 1..StreamLen : AppSend(n)
  BY <1>1 DEF AppSend, Numbers, Flags, Places
<1>2. CASE S_Guard
  BY <1>2 DEF S_Guard, Limit, Numbers, Flags, Places
<1>3. CASE S_ReadBase
  BY <1>3 DEF S_ReadBase, Numbers, Flags, Places
<1>4. CASE S_Lock
  BY <1>4 DEF S_Lock, Numbers, Flags, Places
<1>5. CASE S_Send
  BY <1>5 DEF S_Send, Transmit, SendSegment, SegmentLen, Numbers, Flags, Places
<1>6. CASE S_Start
  BY <1>6 DEF S_Start, StartTimer, Numbers, Flags, Places
<1>7. CASE S_Account
  BY <1>7 DEF S_Account, SendSegment, SegmentLen, Numbers, Flags, Places
<1>8. CASE S_Finish
  <2>1. Numbers' /\ Places'
    BY <1>8 DEF S_Finish, Numbers, Places
  <2>2. Flags'
    BY <1>8 DEF S_Finish, Flags
  <2> QED
    BY <2>1, <2>2
<1>9. CASE R_Wake
  BY <1>9 DEF R_Wake, Numbers, Flags, Places
<1>10. CASE R_Probe
  <2>1. Numbers' /\ Places'
    BY <1>10 DEF R_Probe, Transmit, StartTimer, Numbers, Flags, Places
  <2>2. Flags'
    BY <1>10 DEF R_Probe, Transmit, StartTimer, Flags
  <2> QED
    BY <2>1, <2>2
<1>11. CASE R_Open
  BY <1>11 DEF R_Open, Numbers, Flags, Places
<1>12. CASE R_Begin
  BY <1>12 DEF R_Begin, Numbers, Flags, Places
<1>13. CASE R_Clear
  BY <1>13 DEF R_Clear, Numbers, Flags, Places
<1>14. CASE R_Recheck
  BY <1>14 DEF R_Recheck, Requested, Numbers, Flags, Places
<1>15. CASE R_Lock
  BY <1>15 DEF R_Lock, HalfCwnd, Numbers, Flags, Places
<1>16. CASE R_Collapse
  BY <1>16 DEF R_Collapse, Numbers, Flags, Places
<1>17. CASE R_ReadAck
  BY <1>17 DEF R_ReadAck, Numbers, Flags, Places
<1>18. CASE R_ReadBase
  BY <1>18 DEF R_ReadBase, Numbers, Flags, Places
<1>19. CASE R_Resend
  BY <1>19 DEF R_Resend, Transmit, ResendSegment, SegmentLen, Numbers, Flags, Places
<1>20. CASE R_Rearm
  <2>1. Numbers' /\ Places'
    BY <1>20 DEF R_Rearm, StartTimer, ResendSegment, SegmentLen, Numbers, Flags, Places
  <2>2. Flags'
    BY <1>20 DEF R_Rearm, StartTimer, ResendSegment, SegmentLen, Flags
  <2> QED
    BY <2>1, <2>2
<1>21. CASE R_Finish
  <2>1. Numbers' /\ Places'
    BY <1>21 DEF R_Finish, Numbers, Flags, Places
  <2>2. Flags'
    BY <1>21 DEF R_Finish, Flags
  <2> QED
    BY <2>1, <2>2
<1>22. ASSUME NEW a \in 1..reached, NEW w \in AdvWindows, K_Old(a, w)
      PROVE  Numbers' /\ Flags' /\ Places'
  <2>1. Numbers'
    BY <1>22 DEF K_Old, Numbers
  <2>2. Flags' /\ Places'
    BY <1>22 DEF K_Old, Flags, Places
  <2> QED
    BY <2>1, <2>2
<1>23. ASSUME NEW a \in 1..reached, NEW w \in AdvWindows, K_Dup(a, w)
      PROVE  Numbers' /\ Flags' /\ Places'
  <2>1. Numbers'
    BY <1>23 DEF K_Dup, CountDuplicate, HalfCwnd, Numbers
  <2>2. Flags' /\ Places'
    BY <1>23 DEF K_Dup, CountDuplicate, HalfCwnd, Flags, Places
  <2> QED
    BY <2>1, <2>2
<1>24. ASSUME NEW a \in 1..reached, NEW w \in AdvWindows, K_New(a, w)
      PROVE  Numbers' /\ Flags' /\ Places'
  <2>1. Numbers'
    <3>1. cwnd' \in Nat
      BY <1>24 DEF K_New, Grow, Numbers
    <3>2. ack_cnt' \in Int /\ window_size' \in Nat
      BY <1>24, <3>1 DEF K_New, AckCntAfter, Numbers
    <3>3. same_ack_cnt' \in 0..4 /\ kack' \in Nat /\ rwnd' \in Nat
      BY <1>24 DEF K_New
    <3>4. UNCHANGED <<compacted, sending_len, have_send_len, base, nextseq, ssthresh,
                      wnd_limit, wnd_base, wnd_nextseq, tmp_len, r_ack_cnt, r_base,
                      r_size, reached>>
      BY <1>24 DEF K_New, bufVars, sndVars, rtVars
    <3> QED
      BY <3>1, <3>2, <3>3, <3>4 DEF Numbers
  <2>2. Flags' /\ Places'
    BY <1>24 DEF K_New, Grow, AckCntAfter, Flags, Places
  <2> QED
    BY <2>1, <2>2
<1>25. CASE K_Base
  BY <1>25 DEF K_Base, Numbers, Flags, Places
<1>26. CASE K_Test
  BY <1>26 DEF K_Test, Numbers, Flags, Places
<1>27. CASE K_Stop
  BY <1>27 DEF K_Stop, Numbers, Flags, Places
<1>28. CASE K_Unmark
  BY <1>28 DEF K_Unmark, Numbers, Flags, Places
<1>29. CASE K_Restart
  BY <1>29 DEF K_Restart, StartTimer, Numbers, Flags, Places
<1>30. CASE K_Mark
  BY <1>30 DEF K_Mark, Numbers, Flags, Places
<1>31. CASE K_CompactTest
  BY <1>31 DEF K_CompactTest, Compactable, Numbers, Flags, Places
<1>32. CASE K_Compact
  BY <1>32 DEF K_Compact, Dropped, Numbers, Flags, Places
<1>33. CASE K_Clear
  BY <1>33 DEF K_Clear, Numbers, Flags, Places
<1>34. CASE K_ZeroTest
  BY <1>34 DEF K_ZeroTest, Numbers, Flags, Places
<1>35. CASE K_Zero
  BY <1>35 DEF K_Zero, StartTimer, Numbers, Flags, Places
<1>36. CASE Timeout
  <2>1. Numbers' /\ Places'
    BY <1>36 DEF Timeout, Numbers, Flags, Places
  <2>2. Flags'
    BY <1>36 DEF Timeout, Flags
  <2> QED
    BY <2>1, <2>2
<1>37. CASE UNCHANGED vars
  BY <1>37 DEF Numbers, Flags, Places
<1> QED
  BY <1>1, <1>2, <1>3, <1>4, <1>5, <1>6, <1>7, <1>8, <1>9, <1>10, <1>11, <1>12,
     <1>13, <1>14, <1>15, <1>16, <1>17, <1>18, <1>19, <1>20, <1>21, <1>22,
     <1>23, <1>24, <1>25, <1>26, <1>27, <1>28, <1>29, <1>30, <1>31, <1>32,
     <1>33, <1>34, <1>35, <1>36, <1>37
     DEF Next, Ack

-----------------------------------------------------------------------------
(* The buffer, the sequence numbers, the lock and the snapshots.           *)

\* The initial state satisfies the part of the invariant about the data.
LEMMA InitDataInv == Init => DataInv
<1> SUFFICES ASSUME Init PROVE DataInv
  OBVIOUS
<1>1. TypeOK
  BY InitTypes
<1>2. LockHolder /\ NextseqInv /\ spc # "lock"
  BY DEF Init, LockHolder, NextseqInv, Retransmitting
<1>3. BufferInv /\ BaseInv /\ SnapshotInv
  BY DEF Init, BufferInv, BaseInv, SnapshotInv, AckedInBuffer, Retransmitting
<1>4. ReachedInv
  BY DEF Init, ReachedInv, AckedInBuffer, Unaccounted
<1> QED
  BY <1>1, <1>2, <1>3, <1>4 DEF DataInv

\* Most steps touch only flags, the congestion state and one program counter,
\* and move that one between places of which the invariant says the same.
LEMMA DataUntouched ==
    ASSUME DataInv, TypeOK',
           UNCHANGED <<bufVars, send_lock, wndVars, sndVars, r_ack_cnt, r_base, kack,
                       reached, overlap>>,
           \/ rpc' = rpc
           \/ {rpc, rpc'} \subseteq {"idle", "woken", "open", "clear", "recheck", "lock"}
           \/ {rpc, rpc'} \subseteq {"collapse", "snapshot"},
           \/ kpc' = kpc
           \/ {kpc, kpc'} \cap {"base", "clear"} = {}
    PROVE  DataInv'
<1>1. LockHolder' /\ NextseqInv' /\ (spc' = "lock" => wnd_nextseq' = nextseq')
  BY DEF DataInv, LockHolder, NextseqInv, Retransmitting
<1>2. ASSUME ~overlap' PROVE BufferInv' /\ BaseInv' /\ ReachedInv' /\ SnapshotInv'
  <2>1. BufferInv /\ BaseInv /\ ReachedInv /\ SnapshotInv
    BY <1>2 DEF DataInv
  <2>2. AckedInBuffer' = AckedInBuffer /\ Unaccounted' = Unaccounted
    BY DEF AckedInBuffer, Unaccounted, SendSegment, SegmentLen
  <2>3. BufferInv' /\ ReachedInv'
    BY <2>1, <2>2 DEF BufferInv, ReachedInv
  <2>4. BaseInv'
    BY <2>1, <2>2 DEF BaseInv
  <2>5. SnapshotInv'
    BY <2>1 DEF SnapshotInv, Retransmitting
  <2> QED
    BY <2>3, <2>4, <2>5
<1> QED
  BY <1>1, <1>2 DEF DataInv

\* tju_send appends under the lock and disturbs only the length of the buffer.
LEMMA AppSendInv ==
    ASSUME DataInv, TypeOK', NEW n \in 1..StreamLen, AppSend(n)
    PROVE  DataInv'
<1> USE SenderAssumption DEF AppSend
<1>1. LockHolder' /\ NextseqInv' /\ (spc' = "lock" => wnd_nextseq' = nextseq')
  BY DEF DataInv, LockHolder, NextseqInv, TypeOK, Retransmitting
<1>2. ASSUME ~overlap' PROVE BufferInv' /\ BaseInv' /\ ReachedInv' /\ SnapshotInv'
  <2>1. BufferInv /\ BaseInv /\ ReachedInv /\ SnapshotInv
    BY <1>2 DEF DataInv
  <2>2. BufferInv'
    BY <2>1 DEF DataInv, TypeOK, LockHolder, BufferInv, BaseInv, ReachedInv,
         AckedInBuffer, Unaccounted
  <2>3. BaseInv'
    BY <1>2, <2>1 DEF DataInv, TypeOK, LockHolder, BufferInv, BaseInv, AckedInBuffer, SnapshotInv
  <2>4. ReachedInv'
    BY <1>2, <2>1 DEF DataInv, TypeOK, LockHolder, BufferInv, BaseInv, NextseqInv, ReachedInv,
         AckedInBuffer, Unaccounted, SnapshotInv, SendSegment, SegmentLen
  <2>5. SnapshotInv'
    BY <1>2, <2>1 DEF DataInv, TypeOK, LockHolder, BufferInv, BaseInv, AckedInBuffer, ReachedInv,
         Unaccounted, SnapshotInv, Retransmitting
  <2> QED
    BY <2>2, <2>3, <2>4, <2>5
<1> QED
  BY <1>1, <1>2 DEF DataInv

\* One lemma per step of sending_thread,
LEMMA S_GuardInv ==
    ASSUME DataInv, TypeOK', S_Guard
    PROVE  DataInv'
<1> USE SenderAssumption DEF S_Guard, MaySend
<1>1. LockHolder' /\ NextseqInv' /\ (spc' = "lock" => wnd_nextseq' = nextseq')
  BY DEF DataInv, LockHolder, NextseqInv, TypeOK, Retransmitting
<1>2. ASSUME ~overlap' PROVE BufferInv' /\ BaseInv' /\ ReachedInv' /\ SnapshotInv'
  <2>1. BufferInv /\ BaseInv /\ ReachedInv /\ SnapshotInv
    BY <1>2 DEF DataInv
  <2>2. BufferInv'
    BY <2>1 DEF DataInv, TypeOK, LockHolder, BufferInv, BaseInv, ReachedInv,
         AckedInBuffer, Unaccounted
  <2>3. BaseInv'
    BY <1>2, <2>1 DEF DataInv, TypeOK, LockHolder, BufferInv, BaseInv, AckedInBuffer, SnapshotInv
  <2>4. ReachedInv'
    BY <1>2, <2>1 DEF DataInv, TypeOK, LockHolder, BufferInv, BaseInv, NextseqInv, ReachedInv,
         AckedInBuffer, Unaccounted, SnapshotInv, SendSegment, SegmentLen
  <2>5. SnapshotInv'
    BY <1>2, <2>1 DEF DataInv, TypeOK, LockHolder, BufferInv, BaseInv, AckedInBuffer, ReachedInv,
         Unaccounted, SnapshotInv, Retransmitting
  <2> QED
    BY <2>2, <2>3, <2>4, <2>5
<1> QED
  BY <1>1, <1>2 DEF DataInv

LEMMA S_ReadBaseInv ==
    ASSUME DataInv, TypeOK', S_ReadBase
    PROVE  DataInv'
<1> USE SenderAssumption DEF S_ReadBase
<1>1. LockHolder' /\ NextseqInv' /\ (spc' = "lock" => wnd_nextseq' = nextseq')
  BY DEF DataInv, LockHolder, NextseqInv, TypeOK, Retransmitting
<1>2. ASSUME ~overlap' PROVE BufferInv' /\ BaseInv' /\ ReachedInv' /\ SnapshotInv'
  <2>1. BufferInv /\ BaseInv /\ ReachedInv /\ SnapshotInv
    BY <1>2 DEF DataInv
  <2>2. BufferInv'
    BY <2>1 DEF DataInv, TypeOK, LockHolder, BufferInv, BaseInv, ReachedInv,
         AckedInBuffer, Unaccounted
  <2>3. BaseInv'
    BY <1>2, <2>1 DEF DataInv, TypeOK, LockHolder, BufferInv, BaseInv, AckedInBuffer, SnapshotInv
  <2>4. ReachedInv'
    BY <1>2, <2>1 DEF DataInv, TypeOK, LockHolder, BufferInv, BaseInv, NextseqInv, ReachedInv,
         AckedInBuffer, Unaccounted, SnapshotInv, SendSegment, SegmentLen
  <2>5. SnapshotInv'
    BY <1>2, <2>1 DEF DataInv, TypeOK, LockHolder, BufferInv, BaseInv, AckedInBuffer, ReachedInv,
         Unaccounted, SnapshotInv, Retransmitting
  <2> QED
    BY <2>2, <2>3, <2>4, <2>5
<1> QED
  BY <1>1, <1>2 DEF DataInv

LEMMA S_LockInv ==
    ASSUME DataInv, TypeOK', S_Lock
    PROVE  DataInv'
<1> USE SenderAssumption DEF S_Lock
<1>1. LockHolder' /\ NextseqInv' /\ (spc' = "lock" => wnd_nextseq' = nextseq')
  BY DEF DataInv, LockHolder, NextseqInv, TypeOK, Retransmitting
<1>2. ASSUME ~overlap' PROVE BufferInv' /\ BaseInv' /\ ReachedInv' /\ SnapshotInv'
  <2>1. BufferInv /\ BaseInv /\ ReachedInv /\ SnapshotInv
    BY <1>2 DEF DataInv
  <2>2. BufferInv'
    BY <2>1 DEF DataInv, TypeOK, LockHolder, BufferInv, BaseInv, ReachedInv,
         AckedInBuffer, Unaccounted
  <2>3. BaseInv'
    BY <1>2, <2>1 DEF DataInv, TypeOK, LockHolder, BufferInv, BaseInv, AckedInBuffer, SnapshotInv
  <2>4. ReachedInv'
    BY <1>2, <2>1 DEF DataInv, TypeOK, LockHolder, BufferInv, BaseInv, NextseqInv, ReachedInv,
         AckedInBuffer, Unaccounted, SnapshotInv, SendSegment, SegmentLen
  <2>5. SnapshotInv'
    BY <1>2, <2>1 DEF DataInv, TypeOK, LockHolder, BufferInv, BaseInv, AckedInBuffer, ReachedInv,
         Unaccounted, SnapshotInv, Retransmitting
  <2> QED
    BY <2>2, <2>3, <2>4, <2>5
<1> QED
  BY <1>1, <1>2 DEF DataInv

LEMMA S_SendInv ==
    ASSUME DataInv, TypeOK', S_Send
    PROVE  DataInv'
<1> USE SenderAssumption DEF S_Send, Transmit, SendSegment, SegmentLen
<1>1. LockHolder' /\ NextseqInv' /\ (spc' = "lock" => wnd_nextseq' = nextseq')
  BY DEF DataInv, LockHolder, NextseqInv, TypeOK, Retransmitting
<1>2. ASSUME ~overlap' PROVE BufferInv' /\ BaseInv' /\ ReachedInv' /\ SnapshotInv'
  <2>1. BufferInv /\ BaseInv /\ ReachedInv /\ SnapshotInv
    BY <1>2 DEF DataInv
  <2>2. BufferInv'
    BY <2>1 DEF DataInv, TypeOK, LockHolder, BufferInv, BaseInv, ReachedInv,
         AckedInBuffer, Unaccounted
  <2>3. BaseInv'
    BY <1>2, <2>1 DEF DataInv, TypeOK, LockHolder, BufferInv, BaseInv, AckedInBuffer, SnapshotInv
  <2>4. ReachedInv'
    BY <1>2, <2>1 DEF DataInv, TypeOK, LockHolder, BufferInv, BaseInv, NextseqInv, ReachedInv,
         AckedInBuffer, Unaccounted, SnapshotInv, SendSegment, SegmentLen
  <2>5. SnapshotInv'
    BY <1>2, <2>1 DEF DataInv, TypeOK, LockHolder, BufferInv, BaseInv, AckedInBuffer, ReachedInv,
         Unaccounted, SnapshotInv, Retransmitting
  <2> QED
    BY <2>2, <2>3, <2>4, <2>5
<1> QED
  BY <1>1, <1>2 DEF DataInv

LEMMA S_StartInv ==
    ASSUME DataInv, TypeOK', S_Start
    PROVE  DataInv'
<1> USE SenderAssumption DEF S_Start, StartTimer
<1>1. LockHolder' /\ NextseqInv' /\ (spc' = "lock" => wnd_nextseq' = nextseq')
  BY DEF DataInv, LockHolder, NextseqInv, TypeOK, Retransmitting
<1>2. ASSUME ~overlap' PROVE BufferInv' /\ BaseInv' /\ ReachedInv' /\ SnapshotInv'
  <2>1. BufferInv /\ BaseInv /\ ReachedInv /\ SnapshotInv
    BY <1>2 DEF DataInv
  <2>2. BufferInv'
    BY <2>1 DEF DataInv, TypeOK, LockHolder, BufferInv, BaseInv, ReachedInv,
         AckedInBuffer, Unaccounted
  <2>3. BaseInv'
    BY <1>2, <2>1 DEF DataInv, TypeOK, LockHolder, BufferInv, BaseInv, AckedInBuffer, SnapshotInv
  <2>4. ReachedInv'
    BY <1>2, <2>1 DEF DataInv, TypeOK, LockHolder, BufferInv, BaseInv, NextseqInv, ReachedInv,
         AckedInBuffer, Unaccounted, SnapshotInv, SendSegment, SegmentLen
  <2>5. SnapshotInv'
    BY <1>2, <2>1 DEF DataInv, TypeOK, LockHolder, BufferInv, BaseInv, AckedInBuffer, ReachedInv,
         Unaccounted, SnapshotInv, Retransmitting
  <2> QED
    BY <2>2, <2>3, <2>4, <2>5
<1> QED
  BY <1>1, <1>2 DEF DataInv

LEMMA S_AccountInv ==
    ASSUME DataInv, TypeOK', S_Account
    PROVE  DataInv'
<1> USE SenderAssumption DEF S_Account, SendSegment, SegmentLen
<1>1. LockHolder' /\ NextseqInv' /\ (spc' = "lock" => wnd_nextseq' = nextseq')
  BY DEF DataInv, LockHolder, NextseqInv, TypeOK, Retransmitting
<1>2. ASSUME ~overlap' PROVE BufferInv' /\ BaseInv' /\ ReachedInv' /\ SnapshotInv'
  <2>1. BufferInv /\ BaseInv /\ ReachedInv /\ SnapshotInv
    BY <1>2 DEF DataInv
  <2>2. BufferInv'
    BY <2>1 DEF DataInv, TypeOK, LockHolder, BufferInv, BaseInv, ReachedInv,
         AckedInBuffer, Unaccounted
  <2>3. BaseInv'
    BY <1>2, <2>1 DEF DataInv, TypeOK, LockHolder, BufferInv, BaseInv, AckedInBuffer, SnapshotInv
  <2>4. ReachedInv'
    BY <1>2, <2>1 DEF DataInv, TypeOK, LockHolder, BufferInv, BaseInv, NextseqInv, ReachedInv,
         AckedInBuffer, Unaccounted, SnapshotInv, SendSegment, SegmentLen
  <2>5. SnapshotInv'
    BY <1>2, <2>1 DEF DataInv, TypeOK, LockHolder, BufferInv, BaseInv, AckedInBuffer, ReachedInv,
         Unaccounted, SnapshotInv, Retransmitting
  <2> QED
    BY <2>2, <2>3, <2>4, <2>5
<1> QED
  BY <1>1, <1>2 DEF DataInv

LEMMA S_FinishInv ==
    ASSUME DataInv, TypeOK', S_Finish
    PROVE  DataInv'
<1> USE SenderAssumption DEF S_Finish
<1>1. LockHolder' /\ NextseqInv' /\ (spc' = "lock" => wnd_nextseq' = nextseq')
  BY DEF DataInv, LockHolder, NextseqInv, TypeOK, Retransmitting
<1>2. ASSUME ~overlap' PROVE BufferInv' /\ BaseInv' /\ ReachedInv' /\ SnapshotInv'
  <2>1. BufferInv /\ BaseInv /\ ReachedInv /\ SnapshotInv
    BY <1>2 DEF DataInv
  <2>2. BufferInv'
    BY <2>1 DEF DataInv, TypeOK, LockHolder, BufferInv, BaseInv, ReachedInv,
         AckedInBuffer, Unaccounted
  <2>3. BaseInv'
    BY <1>2, <2>1 DEF DataInv, TypeOK, LockHolder, BufferInv, BaseInv, AckedInBuffer, SnapshotInv
  <2>4. ReachedInv'
    BY <1>2, <2>1 DEF DataInv, TypeOK, LockHolder, BufferInv, BaseInv, NextseqInv, ReachedInv,
         AckedInBuffer, Unaccounted, SnapshotInv, SendSegment, SegmentLen
  <2>5. SnapshotInv'
    BY <1>2, <2>1 DEF DataInv, TypeOK, LockHolder, BufferInv, BaseInv, AckedInBuffer, ReachedInv,
         Unaccounted, SnapshotInv, Retransmitting
  <2> QED
    BY <2>2, <2>3, <2>4, <2>5
<1> QED
  BY <1>1, <1>2 DEF DataInv

\* per step of retrans_thread that sends or has to do with the lock,
LEMMA R_ProbeInv ==
    ASSUME DataInv, TypeOK', R_Probe
    PROVE  DataInv'
<1> USE SenderAssumption DEF R_Probe, Transmit, StartTimer
<1>1. LockHolder' /\ NextseqInv' /\ (spc' = "lock" => wnd_nextseq' = nextseq')
  BY DEF DataInv, LockHolder, NextseqInv, TypeOK, Retransmitting
<1>2. ASSUME ~overlap' PROVE BufferInv' /\ BaseInv' /\ ReachedInv' /\ SnapshotInv'
  <2>1. BufferInv /\ BaseInv /\ ReachedInv /\ SnapshotInv
    BY <1>2 DEF DataInv
  <2>2. BufferInv'
    BY <2>1 DEF DataInv, TypeOK, LockHolder, BufferInv, BaseInv, ReachedInv,
         AckedInBuffer, Unaccounted
  <2>3. BaseInv'
    BY <1>2, <2>1 DEF DataInv, TypeOK, LockHolder, BufferInv, BaseInv, AckedInBuffer, SnapshotInv
  <2>4. ReachedInv'
    BY <1>2, <2>1 DEF DataInv, TypeOK, LockHolder, BufferInv, BaseInv, NextseqInv, ReachedInv,
         AckedInBuffer, Unaccounted, SnapshotInv, SendSegment, SegmentLen
  <2>5. SnapshotInv'
    BY <1>2, <2>1 DEF DataInv, TypeOK, LockHolder, BufferInv, BaseInv, AckedInBuffer, ReachedInv,
         Unaccounted, SnapshotInv, Retransmitting
  <2> QED
    BY <2>2, <2>3, <2>4, <2>5
<1> QED
  BY <1>1, <1>2 DEF DataInv

LEMMA R_LockInv ==
    ASSUME DataInv, TypeOK', R_Lock
    PROVE  DataInv'
<1> USE SenderAssumption DEF R_Lock, HalfCwnd
<1>1. LockHolder' /\ NextseqInv' /\ (spc' = "lock" => wnd_nextseq' = nextseq')
  BY DEF DataInv, LockHolder, NextseqInv, TypeOK, Retransmitting
<1>2. ASSUME ~overlap' PROVE BufferInv' /\ BaseInv' /\ ReachedInv' /\ SnapshotInv'
  <2>1. BufferInv /\ BaseInv /\ ReachedInv /\ SnapshotInv
    BY <1>2 DEF DataInv
  <2>2. BufferInv'
    BY <2>1 DEF DataInv, TypeOK, LockHolder, BufferInv, BaseInv, ReachedInv,
         AckedInBuffer, Unaccounted
  <2>3. BaseInv'
    BY <1>2, <2>1 DEF DataInv, TypeOK, LockHolder, BufferInv, BaseInv, AckedInBuffer, SnapshotInv
  <2>4. ReachedInv'
    BY <1>2, <2>1 DEF DataInv, TypeOK, LockHolder, BufferInv, BaseInv, NextseqInv, ReachedInv,
         AckedInBuffer, Unaccounted, SnapshotInv, SendSegment, SegmentLen
  <2>5. SnapshotInv'
    BY <1>2, <2>1 DEF DataInv, TypeOK, LockHolder, BufferInv, BaseInv, AckedInBuffer, ReachedInv,
         Unaccounted, SnapshotInv, Retransmitting
  <2> QED
    BY <2>2, <2>3, <2>4, <2>5
<1> QED
  BY <1>1, <1>2 DEF DataInv

LEMMA R_ReadAckInv ==
    ASSUME DataInv, TypeOK', R_ReadAck
    PROVE  DataInv'
<1> USE SenderAssumption DEF R_ReadAck
<1>1. LockHolder' /\ NextseqInv' /\ (spc' = "lock" => wnd_nextseq' = nextseq')
  BY DEF DataInv, LockHolder, NextseqInv, TypeOK, Retransmitting
<1>2. ASSUME ~overlap' PROVE BufferInv' /\ BaseInv' /\ ReachedInv' /\ SnapshotInv'
  <2>1. BufferInv /\ BaseInv /\ ReachedInv /\ SnapshotInv
    BY <1>2 DEF DataInv
  <2>2. BufferInv'
    BY <2>1 DEF DataInv, TypeOK, LockHolder, BufferInv, BaseInv, ReachedInv,
         AckedInBuffer, Unaccounted
  <2>3. BaseInv'
    BY <1>2, <2>1 DEF DataInv, TypeOK, LockHolder, BufferInv, BaseInv, AckedInBuffer, SnapshotInv
  <2>4. ReachedInv'
    BY <1>2, <2>1 DEF DataInv, TypeOK, LockHolder, BufferInv, BaseInv, NextseqInv, ReachedInv,
         AckedInBuffer, Unaccounted, SnapshotInv, SendSegment, SegmentLen
  <2>5. SnapshotInv'
    BY <1>2, <2>1 DEF DataInv, TypeOK, LockHolder, BufferInv, BaseInv, AckedInBuffer, ReachedInv,
         Unaccounted, SnapshotInv, Retransmitting
  <2> QED
    BY <2>2, <2>3, <2>4, <2>5
<1> QED
  BY <1>1, <1>2 DEF DataInv

LEMMA R_ReadBaseInv ==
    ASSUME DataInv, TypeOK', R_ReadBase
    PROVE  DataInv'
<1> USE SenderAssumption DEF R_ReadBase
<1>1. LockHolder' /\ NextseqInv' /\ (spc' = "lock" => wnd_nextseq' = nextseq')
  BY DEF DataInv, LockHolder, NextseqInv, TypeOK, Retransmitting
<1>2. ASSUME ~overlap' PROVE BufferInv' /\ BaseInv' /\ ReachedInv' /\ SnapshotInv'
  <2>1. BufferInv /\ BaseInv /\ ReachedInv /\ SnapshotInv
    BY <1>2 DEF DataInv
  <2>2. BufferInv'
    BY <2>1 DEF DataInv, TypeOK, LockHolder, BufferInv, BaseInv, ReachedInv,
         AckedInBuffer, Unaccounted
  <2>3. BaseInv'
    BY <1>2, <2>1 DEF DataInv, TypeOK, LockHolder, BufferInv, BaseInv, AckedInBuffer, SnapshotInv
  <2>4. ReachedInv'
    BY <1>2, <2>1 DEF DataInv, TypeOK, LockHolder, BufferInv, BaseInv, NextseqInv, ReachedInv,
         AckedInBuffer, Unaccounted, SnapshotInv, SendSegment, SegmentLen
  <2>5. SnapshotInv'
    BY <1>2, <2>1 DEF DataInv, TypeOK, LockHolder, BufferInv, BaseInv, AckedInBuffer, ReachedInv,
         Unaccounted, SnapshotInv, Retransmitting
  <2> QED
    BY <2>2, <2>3, <2>4, <2>5
<1> QED
  BY <1>1, <1>2 DEF DataInv

LEMMA R_ResendInv ==
    ASSUME DataInv, TypeOK', R_Resend
    PROVE  DataInv'
<1> USE SenderAssumption DEF R_Resend, Transmit, ResendSegment, SegmentLen
<1>1. LockHolder' /\ NextseqInv' /\ (spc' = "lock" => wnd_nextseq' = nextseq')
  BY DEF DataInv, LockHolder, NextseqInv, TypeOK, Retransmitting
<1>2. ASSUME ~overlap' PROVE BufferInv' /\ BaseInv' /\ ReachedInv' /\ SnapshotInv'
  <2>1. BufferInv /\ BaseInv /\ ReachedInv /\ SnapshotInv
    BY <1>2 DEF DataInv
  <2>2. BufferInv'
    BY <2>1 DEF DataInv, TypeOK, LockHolder, BufferInv, BaseInv, ReachedInv,
         AckedInBuffer, Unaccounted
  <2>3. BaseInv'
    BY <1>2, <2>1 DEF DataInv, TypeOK, LockHolder, BufferInv, BaseInv, AckedInBuffer, SnapshotInv
  <2>4. ReachedInv'
    BY <1>2, <2>1 DEF DataInv, TypeOK, LockHolder, BufferInv, BaseInv, NextseqInv, ReachedInv,
         AckedInBuffer, Unaccounted, SnapshotInv, SendSegment, SegmentLen
  <2>5. SnapshotInv'
    BY <1>2, <2>1 DEF DataInv, TypeOK, LockHolder, BufferInv, BaseInv, AckedInBuffer, ReachedInv,
         Unaccounted, SnapshotInv, Retransmitting
  <2> QED
    BY <2>2, <2>3, <2>4, <2>5
<1> QED
  BY <1>1, <1>2 DEF DataInv

LEMMA R_RearmInv ==
    ASSUME DataInv, TypeOK', R_Rearm
    PROVE  DataInv'
<1> USE SenderAssumption DEF R_Rearm, StartTimer, ResendSegment, SegmentLen
<1>1. LockHolder' /\ NextseqInv' /\ (spc' = "lock" => wnd_nextseq' = nextseq')
  BY DEF DataInv, LockHolder, NextseqInv, TypeOK, Retransmitting
<1>2. ASSUME ~overlap' PROVE BufferInv' /\ BaseInv' /\ ReachedInv' /\ SnapshotInv'
  <2>1. BufferInv /\ BaseInv /\ ReachedInv /\ SnapshotInv
    BY <1>2 DEF DataInv
  <2>2. BufferInv'
    BY <2>1 DEF DataInv, TypeOK, LockHolder, BufferInv, BaseInv, ReachedInv,
         AckedInBuffer, Unaccounted
  <2>3. BaseInv'
    BY <1>2, <2>1 DEF DataInv, TypeOK, LockHolder, BufferInv, BaseInv, AckedInBuffer, SnapshotInv
  <2>4. ReachedInv'
    BY <1>2, <2>1 DEF DataInv, TypeOK, LockHolder, BufferInv, BaseInv, NextseqInv, ReachedInv,
         AckedInBuffer, Unaccounted, SnapshotInv, SendSegment, SegmentLen
  <2>5. SnapshotInv'
    BY <1>2, <2>1 DEF DataInv, TypeOK, LockHolder, BufferInv, BaseInv, AckedInBuffer, ReachedInv,
         Unaccounted, SnapshotInv, Retransmitting
  <2> QED
    BY <2>2, <2>3, <2>4, <2>5
<1> QED
  BY <1>1, <1>2 DEF DataInv

LEMMA R_FinishInv ==
    ASSUME DataInv, TypeOK', R_Finish
    PROVE  DataInv'
<1> USE SenderAssumption DEF R_Finish
<1>1. LockHolder' /\ NextseqInv' /\ (spc' = "lock" => wnd_nextseq' = nextseq')
  BY DEF DataInv, LockHolder, NextseqInv, TypeOK, Retransmitting
<1>2. ASSUME ~overlap' PROVE BufferInv' /\ BaseInv' /\ ReachedInv' /\ SnapshotInv'
  <2>1. BufferInv /\ BaseInv /\ ReachedInv /\ SnapshotInv
    BY <1>2 DEF DataInv
  <2>2. BufferInv'
    BY <2>1 DEF DataInv, TypeOK, LockHolder, BufferInv, BaseInv, ReachedInv,
         AckedInBuffer, Unaccounted
  <2>3. BaseInv'
    BY <1>2, <2>1 DEF DataInv, TypeOK, LockHolder, BufferInv, BaseInv, AckedInBuffer, SnapshotInv
  <2>4. ReachedInv'
    BY <1>2, <2>1 DEF DataInv, TypeOK, LockHolder, BufferInv, BaseInv, NextseqInv, ReachedInv,
         AckedInBuffer, Unaccounted, SnapshotInv, SendSegment, SegmentLen
  <2>5. SnapshotInv'
    BY <1>2, <2>1 DEF DataInv, TypeOK, LockHolder, BufferInv, BaseInv, AckedInBuffer, ReachedInv,
         Unaccounted, SnapshotInv, Retransmitting
  <2> QED
    BY <2>2, <2>3, <2>4, <2>5
<1> QED
  BY <1>1, <1>2 DEF DataInv

\* and per step of receive_thread that writes the window or the buffer.
LEMMA K_NewInv ==
    ASSUME DataInv, TypeOK', NEW a \in 1..reached, NEW w \in AdvWindows, K_New(a, w)
    PROVE  DataInv'
<1> USE SenderAssumption DEF K_New, AckCntAfter
<1>1. LockHolder' /\ NextseqInv' /\ (spc' = "lock" => wnd_nextseq' = nextseq')
  BY DEF DataInv, LockHolder, NextseqInv, TypeOK, Retransmitting
<1>2. ASSUME ~overlap' PROVE BufferInv' /\ BaseInv' /\ ReachedInv' /\ SnapshotInv'
  <2>1. BufferInv /\ BaseInv /\ ReachedInv /\ SnapshotInv
    BY <1>2 DEF DataInv
  <2>2. BufferInv'
    BY <2>1 DEF DataInv, TypeOK, LockHolder, BufferInv, BaseInv, ReachedInv,
         AckedInBuffer, Unaccounted
  <2>3. BaseInv'
    BY <1>2, <2>1 DEF DataInv, TypeOK, LockHolder, BufferInv, BaseInv, AckedInBuffer, SnapshotInv
  <2>4. ReachedInv'
    BY <1>2, <2>1 DEF DataInv, TypeOK, LockHolder, BufferInv, BaseInv, NextseqInv, ReachedInv,
         AckedInBuffer, Unaccounted, SnapshotInv, SendSegment, SegmentLen
  <2>5. SnapshotInv'
    BY <1>2, <2>1 DEF DataInv, TypeOK, LockHolder, BufferInv, BaseInv, AckedInBuffer, ReachedInv,
         Unaccounted, SnapshotInv, Retransmitting
  <2> QED
    BY <2>2, <2>3, <2>4, <2>5
<1> QED
  BY <1>1, <1>2 DEF DataInv

LEMMA K_BaseInv ==
    ASSUME DataInv, TypeOK', K_Base
    PROVE  DataInv'
<1> USE SenderAssumption DEF K_Base
<1>1. LockHolder' /\ NextseqInv' /\ (spc' = "lock" => wnd_nextseq' = nextseq')
  BY DEF DataInv, LockHolder, NextseqInv, TypeOK, Retransmitting
<1>2. ASSUME ~overlap' PROVE BufferInv' /\ BaseInv' /\ ReachedInv' /\ SnapshotInv'
  <2>1. BufferInv /\ BaseInv /\ ReachedInv /\ SnapshotInv
    BY <1>2 DEF DataInv
  <2>2. BufferInv'
    BY <2>1 DEF DataInv, TypeOK, LockHolder, BufferInv, BaseInv, ReachedInv,
         AckedInBuffer, Unaccounted
  <2>3. BaseInv'
    BY <1>2, <2>1 DEF DataInv, TypeOK, LockHolder, BufferInv, BaseInv, AckedInBuffer, SnapshotInv
  <2>4. ReachedInv'
    BY <1>2, <2>1 DEF DataInv, TypeOK, LockHolder, BufferInv, BaseInv, NextseqInv, ReachedInv,
         AckedInBuffer, Unaccounted, SnapshotInv, SendSegment, SegmentLen
  <2>5. SnapshotInv'
    BY <1>2, <2>1 DEF DataInv, TypeOK, LockHolder, BufferInv, BaseInv, AckedInBuffer, ReachedInv,
         Unaccounted, SnapshotInv, Retransmitting
  <2> QED
    BY <2>2, <2>3, <2>4, <2>5
<1> QED
  BY <1>1, <1>2 DEF DataInv

LEMMA K_CompactInv ==
    ASSUME DataInv, TypeOK', K_Compact
    PROVE  DataInv'
<1> USE SenderAssumption DEF K_Compact, Dropped
<1>1. LockHolder' /\ NextseqInv' /\ (spc' = "lock" => wnd_nextseq' = nextseq')
  BY DEF DataInv, LockHolder, NextseqInv, TypeOK, Retransmitting
<1>2. ASSUME ~overlap' PROVE BufferInv' /\ BaseInv' /\ ReachedInv' /\ SnapshotInv'
  <2>1. BufferInv /\ BaseInv /\ ReachedInv /\ SnapshotInv
    BY <1>2 DEF DataInv
  <2>2. BufferInv'
    BY <2>1 DEF DataInv, TypeOK, LockHolder, BufferInv, BaseInv, ReachedInv,
         AckedInBuffer, Unaccounted
  <2>3. BaseInv'
    BY <1>2, <2>1 DEF DataInv, TypeOK, LockHolder, BufferInv, BaseInv, AckedInBuffer, SnapshotInv
  <2>4. ReachedInv'
    BY <1>2, <2>1 DEF DataInv, TypeOK, LockHolder, BufferInv, BaseInv, NextseqInv, ReachedInv,
         AckedInBuffer, Unaccounted, SnapshotInv, SendSegment, SegmentLen
  <2>5. SnapshotInv'
    BY <1>2, <2>1 DEF DataInv, TypeOK, LockHolder, BufferInv, BaseInv, AckedInBuffer, ReachedInv,
         Unaccounted, SnapshotInv, Retransmitting
  <2> QED
    BY <2>2, <2>3, <2>4, <2>5
<1> QED
  BY <1>1, <1>2 DEF DataInv

LEMMA K_ClearInv ==
    ASSUME DataInv, TypeOK', K_Clear
    PROVE  DataInv'
<1> USE SenderAssumption DEF K_Clear
<1>1. LockHolder' /\ NextseqInv' /\ (spc' = "lock" => wnd_nextseq' = nextseq')
  BY DEF DataInv, LockHolder, NextseqInv, TypeOK, Retransmitting
<1>2. ASSUME ~overlap' PROVE BufferInv' /\ BaseInv' /\ ReachedInv' /\ SnapshotInv'
  <2>1. BufferInv /\ BaseInv /\ ReachedInv /\ SnapshotInv
    BY <1>2 DEF DataInv
  <2>2. BufferInv'
    BY <2>1 DEF DataInv, TypeOK, LockHolder, BufferInv, BaseInv, ReachedInv,
         AckedInBuffer, Unaccounted
  <2>3. BaseInv'
    BY <1>2, <2>1 DEF DataInv, TypeOK, LockHolder, BufferInv, BaseInv, AckedInBuffer, SnapshotInv
  <2>4. ReachedInv'
    BY <1>2, <2>1 DEF DataInv, TypeOK, LockHolder, BufferInv, BaseInv, NextseqInv, ReachedInv,
         AckedInBuffer, Unaccounted, SnapshotInv, SendSegment, SegmentLen
  <2>5. SnapshotInv'
    BY <1>2, <2>1 DEF DataInv, TypeOK, LockHolder, BufferInv, BaseInv, AckedInBuffer, ReachedInv,
         Unaccounted, SnapshotInv, Retransmitting
  <2> QED
    BY <2>2, <2>3, <2>4, <2>5
<1> QED
  BY <1>1, <1>2 DEF DataInv

\* Every step preserves the part about the data.
LEMMA DataStep == DataInv /\ [Next]_vars => DataInv'
<1> SUFFICES ASSUME DataInv, [Next]_vars PROVE DataInv'
  OBVIOUS
<1>0. TypeOK'
  BY TypesStep DEF DataInv
<1>1. CASE \E n \in 1..StreamLen : AppSend(n)
  BY <1>0, <1>1, AppSendInv
<1>2. CASE S_Guard \/ S_ReadBase \/ S_Lock \/ S_Send \/ S_Start \/ S_Account \/ S_Finish
  BY <1>0, <1>2, S_GuardInv, S_ReadBaseInv, S_LockInv, S_SendInv, S_StartInv,
     S_AccountInv, S_FinishInv
<1>3. CASE R_Wake \/ R_Open \/ R_Begin \/ R_Clear \/ R_Recheck \/ R_Collapse
  <2>1. CASE R_Wake \/ R_Open \/ R_Begin
    BY <1>0, <2>1, DataUntouched DEF R_Wake, R_Open, R_Begin
  <2>2. CASE R_Clear \/ R_Recheck \/ R_Collapse
    BY <1>0, <2>2, DataUntouched DEF R_Clear, R_Recheck, R_Collapse
  <2> QED
    BY <1>3, <2>1, <2>2
<1>4. CASE R_Probe \/ R_Lock \/ R_ReadAck \/ R_ReadBase \/ R_Resend \/ R_Rearm \/ R_Finish
  BY <1>0, <1>4, R_ProbeInv, R_LockInv, R_ReadAckInv, R_ReadBaseInv, R_ResendInv,
     R_RearmInv, R_FinishInv
<1>5. CASE Ack
  <2>1. PICK a \in 1..reached, w \in AdvWindows : K_Old(a, w) \/ K_Dup(a, w) \/ K_New(a, w)
    BY <1>5 DEF Ack
  <2>2. CASE K_Old(a, w) \/ K_Dup(a, w)
    BY <1>0, <2>2, DataUntouched DEF K_Old, K_Dup
  <2> QED
    BY <1>0, <2>1, <2>2, K_NewInv
<1>6. CASE K_Base \/ K_Compact \/ K_Clear
  BY <1>0, <1>6, K_BaseInv, K_CompactInv, K_ClearInv
<1>7. CASE K_Test \/ K_Stop \/ K_Unmark \/ K_Restart \/ K_Mark
  BY <1>0, <1>7, DataUntouched DEF K_Test, K_Stop, K_Unmark, K_Restart, K_Mark
<1>8. CASE K_CompactTest \/ K_ZeroTest \/ K_Zero \/ Timeout
  BY <1>0, <1>8, DataUntouched DEF K_CompactTest, K_ZeroTest, K_Zero, Timeout
<1>9. CASE UNCHANGED vars
  BY <1>0, <1>9, DataUntouched
<1> QED
  BY <1>1, <1>2, <1>3, <1>4, <1>5, <1>6, <1>7, <1>8, <1>9 DEF Next

-----------------------------------------------------------------------------
(* Who will serve what is outstanding, as long as there was no race.       *)

LEMMA InitCoverInv == Init => CoverInv
<1> SUFFICES ASSUME Init PROVE PassIsCurrent /\ VerdictInv /\ NothingForgotten
  BY DEF CoverInv
<1> QED
  BY SenderAssumption DEF Init, PassIsCurrent, VerdictInv, NothingForgotten, AckedInBuffer

\* A race that has happened has happened.
LEMMA RacesStay ==
    ASSUME TypeOK, [Next]_vars, ~overlap', ~mistimed'
    PROVE  ~overlap /\ ~mistimed
<1>1. ASSUME UNCHANGED <<overlap, mistimed>> PROVE ~overlap /\ ~mistimed
  BY <1>1
<1>2. CASE \E n \in 1..StreamLen : AppSend(n)
  BY <1>1, <1>2 DEF AppSend
<1>3. CASE S_Guard \/ S_ReadBase \/ S_Lock \/ S_Send \/ S_Account \/ S_Finish
  BY <1>1, <1>3 DEF S_Guard, S_ReadBase, S_Lock, S_Send, S_Account, S_Finish
<1>4. CASE R_Wake \/ R_Probe \/ R_Open \/ R_Begin
  BY <1>1, <1>4 DEF R_Wake, R_Probe, R_Open, R_Begin
<1>5. CASE R_Lock \/ R_ReadBase \/ R_Resend \/ R_Rearm
  BY <1>1, <1>5 DEF R_Lock, R_ReadBase, R_Resend, R_Rearm
<1>6. CASE K_Stop \/ K_Unmark \/ K_Restart \/ K_Mark \/ K_CompactTest
  BY <1>1, <1>6 DEF K_Stop, K_Unmark, K_Restart, K_Mark, K_CompactTest
<1>7. CASE K_Compact \/ K_Clear \/ K_ZeroTest \/ K_Zero \/ Timeout
  BY <1>1, <1>7 DEF K_Compact, K_Clear, K_ZeroTest, K_Zero, Timeout
<1>8. CASE K_Base
  BY <1>8 DEF K_Base, TypeOK
<1>9. CASE K_Test
  BY <1>9 DEF K_Test, TypeOK
<1>10. CASE R_Clear
  BY <1>10 DEF R_Clear, TypeOK
<1>11. CASE R_Collapse
  BY <1>11 DEF R_Collapse, TypeOK
<1>12. CASE R_Finish
  BY <1>12 DEF R_Finish, TypeOK
<1>13. CASE R_ReadAck
  BY <1>13 DEF R_ReadAck, TypeOK
<1>14. CASE R_Recheck
  <2>1. CASE UNCHANGED mistimed
    BY <1>14, <2>1 DEF R_Recheck
  <2>2. CASE mistimed' = (mistimed \/ (~Requested /\ (kpc = "clear" \/ spc = "account")))
    BY <1>14, <2>2 DEF R_Recheck, TypeOK
  <2> QED
    BY <1>14, <2>1, <2>2 DEF R_Recheck
<1>15. CASE S_Start
  BY <1>15 DEF S_Start, TypeOK
<1>16. CASE Ack
  BY <1>16 DEF Ack, K_Old, K_Dup, K_New, TypeOK
<1>17. CASE UNCHANGED vars
  BY <1>1, <1>17
<1> QED
  BY <1>2, <1>3, <1>4, <1>5, <1>6, <1>7, <1>8, <1>9, <1>10, <1>11, <1>12, <1>13,
     <1>14, <1>15, <1>16, <1>17
     DEF Next

\* A state before any race.
Calm ==
    /\ TypeOK /\ LockHolder /\ NextseqInv /\ BufferInv /\ BaseInv /\ ReachedInv
    /\ PassIsCurrent /\ VerdictInv /\ NothingForgotten
Served == PassIsCurrent /\ VerdictInv /\ NothingForgotten

\* One lemma for each of the steps in which something has to be seen.  A send pass
\* starts with the base of the moment;
LEMMA S_ReadBaseCover ==
    ASSUME Calm, TypeOK', S_ReadBase, ~mistimed'
    PROVE  Served'
<1> USE DEF S_ReadBase
<1>1. TypeOK /\ LockHolder /\ NextseqInv /\ BufferInv /\ BaseInv /\ ReachedInv
      /\ PassIsCurrent /\ VerdictInv /\ NothingForgotten
  BY DEF Calm
<1>2. PassIsCurrent'
  BY <1>1 DEF PassIsCurrent, TypeOK, NextseqInv, ReachedInv, Unaccounted
<1>3. VerdictInv'
  BY <1>1 DEF VerdictInv, TypeOK, LockHolder, AckedInBuffer
<1>4. NothingForgotten'
  BY <1>1 DEF NothingForgotten, AckedInBuffer, Retransmitting, Requested
<1> QED
  BY <1>2, <1>3, <1>4 DEF Served

\* it knows the first segment of a window,
LEMMA S_SendCover ==
    ASSUME Calm, TypeOK', S_Send, ~mistimed'
    PROVE  Served'
<1> USE DEF S_Send, Transmit, SendSegment, SegmentLen
<1>1. TypeOK /\ LockHolder /\ NextseqInv /\ BufferInv /\ BaseInv /\ ReachedInv
      /\ PassIsCurrent /\ VerdictInv /\ NothingForgotten
  BY DEF Calm
<1>2. PassIsCurrent'
  BY <1>1 DEF PassIsCurrent
\* what is sent is the first segment of the window, or others are on their way
<1>3. wnd_base # wnd_nextseq /\ kpc # "base" => AckedInBuffer < have_send_len
  BY <1>1 DEF PassIsCurrent, VerdictInv, NextseqInv, BaseInv, BufferInv, TypeOK, AckedInBuffer
<1>4. VerdictInv'
  BY <1>1, <1>3 DEF VerdictInv, TypeOK, AckedInBuffer
<1>5. NothingForgotten'
  BY <1>1, <1>3 DEF NothingForgotten, AckedInBuffer, Retransmitting, Requested
<1> QED
  BY <1>2, <1>4, <1>5 DEF Served

\* and counts what it sent.
LEMMA S_AccountCover ==
    ASSUME Calm, TypeOK', S_Account, ~mistimed'
    PROVE  Served'
<1> USE DEF S_Account, SendSegment, SegmentLen
<1>1. TypeOK /\ LockHolder /\ NextseqInv /\ BufferInv /\ BaseInv /\ ReachedInv
      /\ PassIsCurrent /\ VerdictInv /\ NothingForgotten
  BY DEF Calm
<1>2. have_send_len < have_send_len' /\ have_send_len' \in Nat
  BY <1>1, SenderAssumption DEF TypeOK, BufferInv, SendSegment, SegmentLen
<1>3. PassIsCurrent'
  BY <1>1, SenderAssumption DEF PassIsCurrent, TypeOK, BufferInv, SendSegment, SegmentLen
<1>4. AckedInBuffer' = AckedInBuffer /\ AckedInBuffer \in Nat /\ kpc' = kpc /\ rpc' = rpc
  BY <1>1 DEF BufferInv, AckedInBuffer
<1>5. kpc # "base" => AckedInBuffer < have_send_len'
  BY <1>1, <1>2, <1>4 DEF VerdictInv, TypeOK
<1>6. VerdictInv'
  BY <1>1, <1>2, <1>4, <1>5 DEF VerdictInv, TypeOK
<1>7. NothingForgotten'
  BY <1>1, <1>4, <1>5 DEF NothingForgotten, Retransmitting, Requested, TypeOK
<1> QED
  BY <1>3, <1>6, <1>7 DEF Served

\* retrans_thread drops a request only if nothing needs it,
LEMMA R_ClearCover ==
    ASSUME Calm, TypeOK', R_Clear, ~mistimed'
    PROVE  Served'
<1> USE DEF R_Clear
<1>1. TypeOK /\ LockHolder /\ NextseqInv /\ BufferInv /\ BaseInv /\ ReachedInv
      /\ PassIsCurrent /\ VerdictInv /\ NothingForgotten
  BY DEF Calm
<1>2. PassIsCurrent' /\ VerdictInv'
  BY <1>1 DEF PassIsCurrent, VerdictInv, AckedInBuffer
<1>3. ack_cnt < have_send_len => AckedInBuffer < have_send_len
  BY <1>1 DEF BufferInv, AckedInBuffer
<1>4. timer \/ ack_cnt < have_send_len \/ (~is_retransing /\ window_size # 0)
  BY <1>1 DEF TypeOK
<1>5. NothingForgotten'
  BY <1>1, <1>3, <1>4 DEF NothingForgotten, Requested, AckedInBuffer
<1> QED
  BY <1>2, <1>5 DEF Served

\* or makes it again.
LEMMA R_RecheckCover ==
    ASSUME Calm, TypeOK', R_Recheck, ~mistimed'
    PROVE  Served'
<1> USE DEF R_Recheck
<1>1. TypeOK /\ LockHolder /\ NextseqInv /\ BufferInv /\ BaseInv /\ ReachedInv
      /\ PassIsCurrent /\ VerdictInv /\ NothingForgotten
  BY DEF Calm
<1>2. PassIsCurrent' /\ VerdictInv'
  BY <1>1 DEF PassIsCurrent, VerdictInv, AckedInBuffer
<1>3. CASE ack_cnt < have_send_len
  <2>1. ~(ack_cnt >= have_send_len)
    BY <1>1, <1>3 DEF TypeOK
  <2>2. RETRANS' = TRUE
    BY <2>1
  <2> QED
    BY <1>2, <2>2 DEF Served, NothingForgotten, Requested
<1>4. CASE ack_cnt >= have_send_len /\ Requested
  <2>1. ~(ack_cnt < have_send_len)
    BY <1>1, <1>4 DEF TypeOK
  <2>2. Requested'
    BY <1>4, <2>1 DEF Requested
  <2> QED
    BY <1>2, <2>2 DEF Served, NothingForgotten
<1>5. CASE ack_cnt >= have_send_len /\ ~Requested
  <2>1. ~(ack_cnt < have_send_len)
    BY <1>1, <1>5 DEF TypeOK
  <2>2. kpc # "clear" /\ spc # "account" /\ UNCHANGED <<is_retransing, RETRANS>>
    BY <1>5, <2>1
  <2>3. ~(AckedInBuffer < have_send_len)
    BY <2>1, <2>2 DEF AckedInBuffer
  <2>4. NothingForgotten'
    BY <1>1, <2>2, <2>3 DEF NothingForgotten, Requested, AckedInBuffer, Retransmitting
  <2> QED
    BY <1>2, <2>4 DEF Served
<1> QED
  BY <1>1, <1>3, <1>4, <1>5 DEF TypeOK

\* receive_thread moves base to the end of what the peer has,
LEMMA K_BaseCover ==
    ASSUME Calm, TypeOK', K_Base, ~mistimed'
    PROVE  Served'
<1> USE DEF K_Base
<1>1. TypeOK /\ LockHolder /\ NextseqInv /\ BufferInv /\ BaseInv /\ ReachedInv
      /\ PassIsCurrent /\ VerdictInv /\ NothingForgotten
  BY DEF Calm
<1>2. spc \notin {"lock", "send", "start", "account"}
  BY <1>1 DEF TypeOK
<1>3. PassIsCurrent'
  BY <1>2 DEF PassIsCurrent
<1>4. VerdictInv'
  BY <1>1, <1>2 DEF VerdictInv, TypeOK, ReachedInv, AckedInBuffer, Unaccounted
<1>5. NothingForgotten'
  BY <1>1 DEF NothingForgotten, AckedInBuffer, Retransmitting, Requested
<1> QED
  BY <1>3, <1>4, <1>5 DEF Served

\* and finds out whether that is everything.
LEMMA K_TestCover ==
    ASSUME Calm, TypeOK', K_Test, ~mistimed'
    PROVE  Served'
<1> USE DEF K_Test
<1>1. TypeOK /\ LockHolder /\ NextseqInv /\ BufferInv /\ BaseInv /\ ReachedInv
      /\ PassIsCurrent /\ VerdictInv /\ NothingForgotten
  BY DEF Calm
<1>2. PassIsCurrent'
  BY <1>1 DEF PassIsCurrent
<1>3. AckedInBuffer = ack_cnt /\ AckedInBuffer' = ack_cnt
      /\ base = compacted + ack_cnt + 1 /\ ack_cnt <= have_send_len
  BY <1>1 DEF BaseInv, VerdictInv, AckedInBuffer
<1>4. CASE base = nextseq
  <2>1. ack_cnt >= have_send_len /\ spc # "account"
    BY <1>1, <1>4 DEF TypeOK
  <2>2. VerdictInv'
    BY <1>1, <1>3, <1>4, <2>1 DEF TypeOK, VerdictInv
  <2>3. NothingForgotten'
    BY <1>1, <1>3, <1>4, <2>1 DEF TypeOK, NothingForgotten, Requested, Retransmitting
  <2> QED
    BY <1>2, <2>2, <2>3 DEF Served
<1>5. CASE base # nextseq
  <2>1. base < compacted + have_send_len + 1
    BY <1>1, <1>3, <1>5 DEF TypeOK, NextseqInv, PassIsCurrent
  <2>2. VerdictInv'
    BY <1>1, <1>3, <1>5, <2>1 DEF TypeOK, VerdictInv
  <2>3. NothingForgotten'
    BY <1>1, <1>3, <1>5 DEF NothingForgotten, Requested, Retransmitting
  <2> QED
    BY <1>2, <2>2, <2>3 DEF Served
<1> QED
  BY <1>4, <1>5

\* In the other steps of tju_send and of sending_thread,
LEMMA SendingCover ==
    ASSUME Calm, TypeOK', ~mistimed',
           \/ \E n \in 1..StreamLen : AppSend(n)
           \/ S_Guard \/ S_Lock \/ S_Start \/ S_Finish
    PROVE  Served'
<1>1. TypeOK /\ LockHolder /\ PassIsCurrent /\ VerdictInv /\ NothingForgotten
  BY DEF Calm
<1> USE <1>1 DEF Served, PassIsCurrent, VerdictInv, NothingForgotten,
                 TypeOK, LockHolder, AckedInBuffer, Retransmitting, Requested
<1>2. CASE \E n \in 1..StreamLen : AppSend(n)
  BY <1>2 DEF AppSend
<1>3. CASE S_Guard
  BY <1>3 DEF S_Guard, MaySend
<1>4. CASE S_Lock
  BY <1>4 DEF S_Lock
<1>5. CASE S_Start
  BY <1>5 DEF S_Start, StartTimer
<1>6. CASE S_Finish
  BY <1>6 DEF S_Finish
<1> QED
  BY <1>2, <1>3, <1>4, <1>5, <1>6

\* of retrans_thread,
LEMMA RetransCover ==
    ASSUME Calm, TypeOK', ~mistimed',
           \/ R_Wake \/ R_Probe \/ R_Open \/ R_Begin \/ R_Lock \/ R_Collapse
           \/ R_ReadAck \/ R_ReadBase \/ R_Resend \/ R_Rearm \/ R_Finish
    PROVE  Served'
<1>1. TypeOK /\ LockHolder /\ PassIsCurrent /\ VerdictInv /\ NothingForgotten
  BY DEF Calm
<1> USE <1>1 DEF Served, PassIsCurrent, VerdictInv, NothingForgotten,
                 TypeOK, LockHolder, AckedInBuffer, Retransmitting, Requested
<1>2. CASE R_Wake
  BY <1>2 DEF R_Wake
<1>3. CASE R_Probe
  BY <1>3 DEF R_Probe, Transmit, StartTimer
<1>4. CASE R_Open
  BY <1>4 DEF R_Open
<1>5. CASE R_Begin
  BY <1>5 DEF R_Begin
<1>6. CASE R_Lock
  BY <1>6 DEF R_Lock, HalfCwnd
<1>7. CASE R_Collapse
  BY <1>7 DEF R_Collapse
<1>8. CASE R_ReadAck
  BY <1>8 DEF R_ReadAck
<1>9. CASE R_ReadBase
  BY <1>9 DEF R_ReadBase
<1>10. CASE R_Resend
  BY <1>10 DEF R_Resend, Transmit, ResendSegment, SegmentLen
<1>11. CASE R_Rearm
  BY <1>11 DEF R_Rearm, StartTimer, ResendSegment, SegmentLen
<1>12. CASE R_Finish
  BY <1>12 DEF R_Finish
<1> QED
  BY <1>2, <1>3, <1>4, <1>5, <1>6, <1>7, <1>8, <1>9, <1>10, <1>11, <1>12

\* of receive_thread and of the timer, each part follows from its old self.
LEMMA AckCover ==
    ASSUME Calm, TypeOK', ~mistimed',
           \/ Ack \/ K_Stop \/ K_Unmark \/ K_Restart \/ K_Mark \/ K_CompactTest
           \/ K_Compact \/ K_Clear \/ K_ZeroTest \/ K_Zero \/ Timeout
    PROVE  Served'
<1>1. TypeOK /\ LockHolder /\ PassIsCurrent /\ VerdictInv /\ NothingForgotten
  BY DEF Calm
<1> USE <1>1 DEF Served, PassIsCurrent, VerdictInv, NothingForgotten,
                 TypeOK, LockHolder, AckedInBuffer, Retransmitting, Requested
<1>2. CASE Ack
  BY <1>2 DEF Ack, K_Old, K_Dup, K_New
<1>3. CASE K_Stop
  BY <1>3 DEF K_Stop
<1>4. CASE K_Unmark
  BY <1>4 DEF K_Unmark
<1>5. CASE K_Restart
  BY <1>5 DEF K_Restart, StartTimer
<1>6. CASE K_Mark
  BY <1>6 DEF K_Mark
<1>7. CASE K_CompactTest
  BY <1>7 DEF K_CompactTest, Compactable
<1>8. CASE K_Compact
  BY <1>8 DEF K_Compact, Dropped
<1>9. CASE K_Clear
  BY <1>9 DEF K_Clear
<1>10. CASE K_ZeroTest
  BY <1>10 DEF K_ZeroTest
<1>11. CASE K_Zero
  BY <1>11 DEF K_Zero, StartTimer
<1>12. CASE Timeout
  BY <1>12 DEF Timeout
<1> QED
  BY <1>2, <1>3, <1>4, <1>5, <1>6, <1>7, <1>8, <1>9, <1>10, <1>11, <1>12

\* Every step preserves the part about what is outstanding.
LEMMA CoverStep == DataInv /\ CoverInv /\ [Next]_vars => CoverInv'
<1> SUFFICES ASSUME DataInv, CoverInv, [Next]_vars, ~overlap', ~mistimed' PROVE Served'
  BY DEF CoverInv, Served
<1>1. TypeOK /\ TypeOK'
  BY TypesStep DEF DataInv
<1>2. Calm
  BY <1>1, RacesStay DEF DataInv, CoverInv, Calm
<1> USE <1>1, <1>2
<1>3. CASE \E n \in 1..StreamLen : AppSend(n)
  BY <1>3, SendingCover
<1>4. CASE S_Guard \/ S_ReadBase \/ S_Lock \/ S_Send \/ S_Start \/ S_Account \/ S_Finish
  BY <1>4, SendingCover, S_ReadBaseCover, S_SendCover, S_AccountCover
<1>5. CASE R_Wake \/ R_Probe \/ R_Open \/ R_Begin \/ R_Clear \/ R_Recheck
  BY <1>5, RetransCover, R_ClearCover, R_RecheckCover
<1>6. CASE R_Lock \/ R_Collapse \/ R_ReadAck \/ R_ReadBase \/ R_Resend \/ R_Rearm \/ R_Finish
  BY <1>6, RetransCover
<1>7. CASE Ack \/ Timeout
  BY <1>7, AckCover
<1>8. CASE K_Base \/ K_Test \/ K_Stop \/ K_Unmark \/ K_Restart \/ K_Mark
  BY <1>8, AckCover, K_BaseCover, K_TestCover
<1>9. CASE K_CompactTest \/ K_Compact \/ K_Clear \/ K_ZeroTest \/ K_Zero
  BY <1>9, AckCover
<1>10. CASE UNCHANGED vars
  BY <1>10 DEF Calm, Served, PassIsCurrent, VerdictInv, NothingForgotten, AckedInBuffer,
               Retransmitting, Requested
<1> QED
  BY <1>3, <1>4, <1>5, <1>6, <1>7, <1>8, <1>9, <1>10 DEF Next

-----------------------------------------------------------------------------
(* How far sending_thread means to send.                                   *)

\* The window, and the one computed after a timeout, are never larger than the
\* largest advertised.
Windows == {window_size, rwnd, r_size} \subseteq 0..MAX_RWINDOW_SIZE

LEMMA WindowsStep == TypeOK /\ TypeOK' /\ Windows /\ [Next]_vars => Windows'
<1> SUFFICES ASSUME TypeOK, TypeOK', Windows, [Next]_vars PROVE Windows'
  OBVIOUS
<1> USE SenderAssumption DEF Windows, TypeOK
<1>1. CASE UNCHANGED <<window_size, rwnd, r_size>>
  BY <1>1
<1>2. CASE \E n \in 1..StreamLen : AppSend(n)
  BY <1>1, <1>2 DEF AppSend
<1>3. CASE S_Guard \/ S_ReadBase \/ S_Lock \/ S_Send \/ S_Start \/ S_Account \/ S_Finish
  BY <1>1, <1>3 DEF S_Guard, S_ReadBase, S_Lock, S_Send, S_Start, S_Account, S_Finish
<1>4. CASE R_Wake \/ R_Probe \/ R_Open \/ R_Begin \/ R_Clear \/ R_Recheck
  BY <1>1, <1>4 DEF R_Wake, R_Probe, R_Open, R_Begin, R_Clear, R_Recheck
<1>5. CASE R_ReadAck \/ R_ReadBase \/ R_Resend \/ R_Rearm \/ R_Finish
  BY <1>1, <1>5 DEF R_ReadAck, R_ReadBase, R_Resend, R_Rearm, R_Finish
<1>6. CASE R_Lock
  BY <1>6 DEF R_Lock
<1>7. CASE R_Collapse
  BY <1>7 DEF R_Collapse
<1>8. CASE Ack
  BY <1>8 DEF Ack, K_Old, K_Dup, K_New
<1>9. CASE K_Base \/ K_Test \/ K_Stop \/ K_Unmark \/ K_Restart \/ K_Mark
  BY <1>1, <1>9 DEF K_Base, K_Test, K_Stop, K_Unmark, K_Restart, K_Mark
<1>10. CASE K_CompactTest \/ K_Compact \/ K_Clear \/ K_ZeroTest \/ K_Zero \/ Timeout
  BY <1>1, <1>10 DEF K_CompactTest, K_Compact, K_Clear, K_ZeroTest, K_Zero, Timeout
<1> QED
  BY <1>1, <1>2, <1>3, <1>4, <1>5, <1>6, <1>7, <1>8, <1>9, <1>10 DEF Next

\* Before an overlap the last ACK never goes back.
LEMMA LastAckGrows ==
    ASSUME DataInv, TypeOK', [Next]_vars, ~overlap
    PROVE  LastAck \in Nat /\ LastAck' \in Nat /\ LastAck <= LastAck'
<1>1. TypeOK /\ BaseInv
  BY DEF DataInv
<1> USE <1>1 DEF LastAck, TypeOK
<1>2. CASE UNCHANGED <<base, kpc, kack>>
  BY <1>2
<1>3. CASE \E n \in 1..StreamLen : AppSend(n)
  BY <1>2, <1>3 DEF AppSend
<1>4. CASE S_Guard \/ S_ReadBase \/ S_Lock \/ S_Send \/ S_Start \/ S_Account \/ S_Finish
  BY <1>2, <1>4 DEF S_Guard, S_ReadBase, S_Lock, S_Send, S_Start, S_Account, S_Finish
<1>5. CASE R_Wake \/ R_Probe \/ R_Open \/ R_Begin \/ R_Clear \/ R_Recheck
  BY <1>2, <1>5 DEF R_Wake, R_Probe, R_Open, R_Begin, R_Clear, R_Recheck
<1>6. CASE R_Lock \/ R_Collapse \/ R_ReadAck \/ R_ReadBase \/ R_Resend \/ R_Rearm \/ R_Finish
  BY <1>2, <1>6 DEF R_Lock, R_Collapse, R_ReadAck, R_ReadBase, R_Resend, R_Rearm, R_Finish
<1>7. CASE Ack
  BY <1>7 DEF Ack, K_Old, K_Dup, K_New
<1>8. CASE K_Base \/ K_Test \/ K_Stop \/ K_Unmark \/ K_Restart \/ K_Mark
  <2>1. CASE K_Base
    BY <2>1 DEF K_Base
  <2>2. CASE K_Test \/ K_Stop
    <3>1. base' = base /\ kpc # "base" /\ kpc' # "base"
      BY <2>2 DEF K_Test, K_Stop
    <3> QED
      BY <3>1
  <2>3. CASE K_Unmark \/ K_Restart \/ K_Mark
    BY <2>3 DEF K_Unmark, K_Restart, K_Mark
  <2> QED
    BY <1>8, <2>1, <2>2, <2>3
<1>9. CASE K_CompactTest \/ K_Compact \/ K_Clear \/ K_ZeroTest \/ K_Zero
  BY <1>9 DEF K_CompactTest, K_Compact, K_Clear, K_ZeroTest, K_Zero
<1>10. CASE Timeout
  BY <1>2, <1>10 DEF Timeout
<1> QED
  BY <1>2, <1>3, <1>4, <1>5, <1>6, <1>7, <1>8, <1>9, <1>10 DEF Next

\* sending_thread's limit lies in the window when it is computed, and stays there,
\* unless the buffer is compacted before the lock is taken.
Limited ==
    /\ spc \in {"base", "lock"} => compacted + wnd_limit + 1 <= LastAck + MAX_RWINDOW_SIZE
    /\ spc \in {"send", "start", "account"} =>
          compacted + tmp_len + 1 <= LastAck + MAX_RWINDOW_SIZE

LEMMA LimitedStep ==
    ASSUME DataInv, TypeOK', Windows, [Next]_vars,
           ~overlap, ~outdated', ~outdated => Limited
    PROVE  Limited'
<1>1. TypeOK /\ LockHolder /\ BaseInv
  BY DEF DataInv
<1>2. LastAck \in Nat /\ LastAck' \in Nat /\ LastAck <= LastAck'
  BY LastAckGrows
<1> USE <1>1, <1>2, SenderAssumption DEF TypeOK, Limited
<1>3. CASE UNCHANGED <<compacted, spc, wnd_limit, tmp_len, outdated>>
  BY <1>3
<1>4. CASE \E n \in 1..StreamLen : AppSend(n)
  BY <1>3, <1>4 DEF AppSend
<1>5. CASE S_Guard
  <2>1. base' = base /\ kpc' = kpc /\ kack' = kack /\ kpc # "clear"
    BY <1>5 DEF S_Guard
  <2>2. LastAck = compacted + ack_cnt + 1
    BY <2>1 DEF BaseInv, LastAck, AckedInBuffer
  <2> QED
    BY <1>5, <2>2 DEF S_Guard, Limit, Windows
<1>6. CASE S_ReadBase \/ S_Lock
  BY <1>6 DEF S_ReadBase, S_Lock
<1>7. CASE S_Send \/ S_Start \/ S_Account
  BY <1>7 DEF S_Send, S_Start, S_Account
<1>8. CASE S_Finish
  BY <1>8 DEF S_Finish
<1>9. CASE R_Wake \/ R_Probe \/ R_Open \/ R_Begin \/ R_Clear \/ R_Recheck
  BY <1>3, <1>9 DEF R_Wake, R_Probe, R_Open, R_Begin, R_Clear, R_Recheck
<1>10. CASE R_Lock \/ R_Collapse \/ R_ReadAck \/ R_ReadBase \/ R_Resend \/ R_Rearm \/ R_Finish
  BY <1>3, <1>10 DEF R_Lock, R_Collapse, R_ReadAck, R_ReadBase, R_Resend, R_Rearm, R_Finish
<1>11. CASE Ack
  BY <1>3, <1>11 DEF Ack, K_Old, K_Dup, K_New
<1>12. CASE K_Base \/ K_Test \/ K_Stop \/ K_Unmark \/ K_Restart \/ K_Mark
  BY <1>3, <1>12 DEF K_Base, K_Test, K_Stop, K_Unmark, K_Restart, K_Mark
<1>13. CASE K_Compact
  <2>1. spc' = spc /\ spc \notin {"base", "lock", "send", "start", "account"}
    BY <1>13 DEF K_Compact, LockHolder
  <2> QED
    BY <2>1
<1>14. CASE K_CompactTest \/ K_Clear \/ K_ZeroTest \/ K_Zero \/ Timeout
  BY <1>3, <1>14 DEF K_CompactTest, K_Clear, K_ZeroTest, K_Zero, Timeout
<1>15. CASE UNCHANGED vars
  BY <1>3, <1>15
<1> QED
  BY <1>4, <1>5, <1>6, <1>7, <1>8, <1>9, <1>10, <1>11, <1>12, <1>13, <1>14, <1>15 DEF Next

\* An overlap that has happened has happened.
LEMMA OverlapStays == TypeOK /\ [Next]_vars /\ ~overlap' => ~overlap
<1> SUFFICES ASSUME TypeOK, [Next]_vars, ~overlap' PROVE ~overlap
  OBVIOUS
<1>1. CASE UNCHANGED overlap
  BY <1>1
<1>2. CASE \E n \in 1..StreamLen : AppSend(n)
  BY <1>1, <1>2 DEF AppSend
<1>3. CASE S_Guard \/ S_ReadBase \/ S_Lock \/ S_Send \/ S_Start \/ S_Account \/ S_Finish
  BY <1>1, <1>3 DEF S_Guard, S_ReadBase, S_Lock, S_Send, S_Start, S_Account, S_Finish
<1>4. CASE R_Wake \/ R_Probe \/ R_Open \/ R_Begin \/ R_Clear \/ R_Recheck
  BY <1>1, <1>4 DEF R_Wake, R_Probe, R_Open, R_Begin, R_Clear, R_Recheck
<1>5. CASE R_Lock \/ R_Collapse \/ R_ReadBase \/ R_Resend \/ R_Rearm \/ R_Finish
  BY <1>1, <1>5 DEF R_Lock, R_Collapse, R_ReadBase, R_Resend, R_Rearm, R_Finish
<1>6. CASE K_Test \/ K_Stop \/ K_Unmark \/ K_Restart \/ K_Mark \/ K_CompactTest
  BY <1>1, <1>6 DEF K_Test, K_Stop, K_Unmark, K_Restart, K_Mark, K_CompactTest
<1>7. CASE K_Compact \/ K_Clear \/ K_ZeroTest \/ K_Zero \/ Timeout
  BY <1>1, <1>7 DEF K_Compact, K_Clear, K_ZeroTest, K_Zero, Timeout
<1>8. CASE R_ReadAck \/ K_Base
  BY <1>8 DEF R_ReadAck, K_Base, TypeOK
<1>9. CASE Ack
  BY <1>9 DEF Ack, K_Old, K_Dup, K_New, TypeOK
<1> QED
  BY <1>1, <1>2, <1>3, <1>4, <1>5, <1>6, <1>7, <1>8, <1>9 DEF Next

LEMMA InitLimitInv == Init => LimitInv
<1> SUFFICES ASSUME Init PROVE LimitInv
  OBVIOUS
<1>1. {window_size, rwnd, r_size} \subseteq 0..MAX_RWINDOW_SIZE
  BY SenderAssumption DEF Init
<1> QED
  BY <1>1 DEF Init, LimitInv

LEMMA LimitStep == DataInv /\ LimitInv /\ [Next]_vars => LimitInv'
<1> SUFFICES ASSUME DataInv, LimitInv, [Next]_vars PROVE LimitInv'
  OBVIOUS
<1>1. TypeOK /\ TypeOK' /\ Windows
  BY TypesStep DEF DataInv, LimitInv, Windows
<1>2. Windows'
  BY <1>1, WindowsStep
<1>3. ASSUME ~overlap', ~outdated' PROVE Limited'
  <2>1. ~overlap
    BY <1>1, <1>3, OverlapStays
  <2> QED
    BY <1>1, <1>3, <2>1, LimitedStep DEF LimitInv, Limited
<1> QED
  BY <1>2, <1>3 DEF LimitInv, Windows, Limited

-----------------------------------------------------------------------------
\* The initial state satisfies the inductive invariant,
LEMMA InitSenderInv == Init => SenderInv
  BY InitDataInv, InitCoverInv, InitLimitInv DEF SenderInv

\* and every step preserves it.
LEMMA SenderStep == SenderInv /\ [Next]_vars => SenderInv'
  BY DataStep, CoverStep, LimitStep DEF SenderInv

\* Every reachable state satisfies the inductive invariant, whatever the
\* interleaving of the four threads and the timer.
THEOREM SenderCorrect == Spec => []SenderInv
  BY InitSenderInv, SenderStep, PTL DEF Spec

\* The variables keep their types.
THEOREM SenderTypes == Spec => []TypeOK
<1>1. SenderInv => TypeOK
  BY DEF SenderInv, DataInv
<1> QED
  BY <1>1, SenderCorrect, PTL

\* Every segment carries the bytes of its sequence number; only a
\* retransmission after an overlap may not.
THEOREM FaithfulSegments == Spec => []SegmentsAreFaithful
<1>1. SenderInv => SegmentsAreFaithful
  BY DEF SenderInv, DataInv, SegmentsAreFaithful, NextseqInv, SnapshotInv, Sending, Resending,
         SendSegment, ResendSegment
<1> QED
  BY <1>1, SenderCorrect, PTL

\* Compaction drops only acknowledged bytes and never underflows a length.
THEOREM SoundBuffer == Spec => []BufferIsSound
<1>1. SenderInv => BufferIsSound
  <2> SUFFICES ASSUME SenderInv, ~overlap
               PROVE  /\ compacted < base
                      /\ 0 <= have_send_len /\ have_send_len <= sending_len
                      /\ kpc = "lock" /\ send_lock = "free" => ack_cnt <= have_send_len
    BY DEF BufferIsSound
  <2>1. TypeOK /\ LockHolder /\ BufferInv /\ BaseInv /\ ReachedInv
    BY DEF SenderInv, DataInv
  <2>2. 0 <= have_send_len /\ have_send_len <= sending_len
    BY <2>1 DEF TypeOK, BufferInv
  <2>3. kpc = "lock" /\ send_lock = "free" => ack_cnt <= have_send_len
    BY <2>1 DEF TypeOK, LockHolder, BufferInv, ReachedInv, AckedInBuffer, Unaccounted
  <2>4. compacted < base
    BY <2>1 DEF TypeOK, BufferInv, BaseInv, ReachedInv, AckedInBuffer
  <2> QED
    BY <2>2, <2>3, <2>4
<1> QED
  BY <1>1, SenderCorrect, PTL

\* The sender stalls only after one of the named races: as long as none has
\* happened, a sender at rest with nothing requested either has no byte left that
\* is not acknowledged or may send one.
THEOREM StallsNeedRaces == Spec => []StallsAreRaces
<1>1. SenderInv => StallsAreRaces
  <2> SUFFICES ASSUME SenderInv, Stalled, ~overlap, ~mistimed PROVE FALSE
    BY DEF StallsAreRaces, SenderInv, DataInv, TypeOK
  <2>1. TypeOK /\ BufferInv /\ VerdictInv /\ NothingForgotten
    BY DEF SenderInv, DataInv, CoverInv
  <2>2. spc = "idle" /\ rpc = "idle" /\ kpc = "idle" /\ ~Requested /\ ack_cnt < sending_len
    BY DEF Stalled, Requested
  <2>3. ack_cnt = have_send_len /\ window_size # 0 /\ ~is_retransing
    BY <2>1, <2>2 DEF TypeOK, BufferInv, VerdictInv, NothingForgotten, AckedInBuffer,
                      Retransmitting
  <2>4. MaySend
    BY <2>1, <2>2, <2>3 DEF TypeOK, BufferInv, MaySend
  <2> QED
    BY <2>4 DEF Stalled
<1> QED
  BY <1>1, SenderCorrect, PTL

\* sending_thread sends beyond the largest window the peer can have advertised only
\* when the buffer was compacted between its reading of ack_cnt and its use of it.
THEOREM OverrunsNeedCompaction == Spec => []OverrunsAreOutdated
<1>1. SenderInv => OverrunsAreOutdated
  <2> SUFFICES ASSUME SenderInv, Sending, ~overlap, ~outdated
               PROVE  SendSegment.seq + SendSegment.dlen <= LastAck + MAX_RWINDOW_SIZE
    BY DEF OverrunsAreOutdated
  <2>1. TypeOK /\ wnd_nextseq = compacted + have_send_len + 1
    BY DEF SenderInv, DataInv, NextseqInv, Sending
  <2>2. compacted + tmp_len + 1 <= LastAck + MAX_RWINDOW_SIZE
    BY DEF SenderInv, LimitInv, Sending
  <2>3. SendSegment.seq + SendSegment.dlen <= compacted + tmp_len + 1
    BY <2>1, SenderAssumption DEF TypeOK, Sending, SendSegment, SegmentLen
  <2>4. SendSegment.seq + SendSegment.dlen \in Int /\ LastAck \in Int
    BY <2>1, SenderAssumption DEF TypeOK, SendSegment, SegmentLen, LastAck
  <2> QED
    BY <2>1, <2>2, <2>3, <2>4, SenderAssumption DEF TypeOK
<1> QED
  BY <1>1, SenderCorrect, PTL
=============================================================================
