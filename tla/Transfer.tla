------------------------------ MODULE Transfer ------------------------------
(***************************************************************************)
(* One direction of an established connection from end to end: the sending *)
(* half of one process (Sender), the receiving half of the other           *)
(* (Receiver), and the network between them.                               *)
(*                                                                         *)
(* Sender alone lets the peer acknowledge anything it was sent, Receiver   *)
(* alone lets the peer send any slice of its stream, right bytes under the *)
(* right number.  Here neither is assumed: the segments handled are those  *)
(* that sending_thread and retrans_thread built, the ACKs handled those    *)
(* that tju_handle_packet sent, with the window it advertised.             *)
(*                                                                         *)
(* The network reorders; it loses and duplicates messages, and the timer   *)
(* expires although an answer is on its way, up to MaxFaults times in all. *)
(***************************************************************************)
EXTENDS Integers, Sequences

CONSTANTS
    MAX_DLEN, MAX_SOCK_BUF_SIZE, COMPACT_AT, SSTHRESH, MAX_RWINDOW_SIZE,
    Readers, RecvLens,      \* as in Sender and Receiver
    StreamLen, MaxCwnd,     \* bounds, as in Sender
    MaxFaults               \* bound: losses, duplicates and premature timeouts

VARIABLES
    \* the sending half, as in Sender
    compacted, sending_len, have_send_len, send_lock, base, nextseq, ack_cnt,
    window_size, rwnd, cwnd, ssthresh, window_status, same_ack_cnt,
    is_retransing, RETRANS, TIMEOUT_FLAG, timer, spc, wnd_limit, wnd_base,
    wnd_nextseq, tmp_len, outdated, rpc, r_ack_cnt, r_base, r_size, kpc, kack, reached,
    overlap, mistimed,
    \* the receiving half, as in Receiver
    expect_seq, win, remain_size, received_buf, ack_sent, hpc, hfree,
    reader_pc, rlen, app,
    \* the network
    data,           \* segments in flight to the receiver
    acks,           \* ACKs in flight to the sender: [ack, wnd]
    faults          \* losses, duplicates and premature timeouts so far

\* The bytes the application has handed to tju_send.
written == compacted + sending_len

S == INSTANCE Sender WITH AdvWindows <- 0..MAX_RWINDOW_SIZE
R == INSTANCE Receiver WITH rpc <- reader_pc

ASSUME TransferAssumption ==
    S!SenderAssumption /\ R!SizesAssumption /\ MaxFaults \in Nat

sendVars == <<compacted, sending_len, have_send_len, send_lock, base, nextseq,
              ack_cnt, window_size, rwnd, cwnd, ssthresh, window_status,
              same_ack_cnt, is_retransing, RETRANS, TIMEOUT_FLAG, timer, spc,
              wnd_limit, wnd_base, wnd_nextseq, tmp_len, outdated, rpc, r_ack_cnt,
              r_base, r_size, kpc, kack, reached, overlap, mistimed>>
recvVars == <<expect_seq, win, remain_size, received_buf, ack_sent, hpc, hfree,
              reader_pc, rlen, app>>
netVars == <<data, acks, faults>>
vars == <<sendVars, recvVars, netVars>>

Init == S!Init /\ R!Init /\ data = {} /\ acks = {} /\ faults = 0

Fault == faults < MaxFaults /\ faults' = faults + 1

-----------------------------------------------------------------------------
(* The sending process.                                                    *)

\* Message m is taken from net, of which rest stays; a duplicate may stay.
Took(net, rest, m) ==
    \/ rest = net \ {m} /\ UNCHANGED faults
    \/ rest = net /\ Fault

\* sendToLayer3 of a segment.
Emit(p) == data' = data \cup {p} /\ UNCHANGED <<recvVars, acks, faults>>

\* A step of the process that sends nothing.
Quiet(step) == step /\ UNCHANGED <<recvVars, netVars>>

AppSend == Quiet(\E n \in 1..StreamLen : S!AppSend(n))

SendingThread ==
    \/ S!S_Send /\ Emit(S!SendSegment)
    \/ Quiet(S!S_Guard \/ S!S_ReadBase \/ S!S_Lock \/ S!S_Start \/ S!S_Account
                \/ S!S_Finish)

RetransThread ==
    \/ S!R_Probe /\ Emit([seq |-> base - 1, off |-> 0, dlen |-> 0])
    \/ S!R_Resend /\ Emit(S!ResendSegment)
    \/ Quiet(S!R_Wake \/ S!R_Open \/ S!R_Begin \/ S!R_Clear \/ S!R_Recheck \/ S!R_Lock
                \/ S!R_Collapse \/ S!R_ReadAck \/ S!R_ReadBase \/ S!R_Rearm \/ S!R_Finish)

\* receive_thread takes an ACK from the network.
TakeAck(m) ==
    /\ S!K_Old(m.ack, m.wnd) \/ S!K_Dup(m.ack, m.wnd) \/ S!K_New(m.ack, m.wnd)
    /\ Took(acks, acks', m)
    /\ UNCHANGED <<recvVars, data>>

AckThread ==
    \/ \E m \in acks : TakeAck(m)
    \/ Quiet(S!K_Base \/ S!K_Test \/ S!K_Stop \/ S!K_Unmark \/ S!K_Restart \/ S!K_Mark
                \/ S!K_CompactTest \/ S!K_Compact \/ S!K_Clear \/ S!K_ZeroTest \/ S!K_Zero)

\* A timeout is premature while any thread is busy or a message in flight.
Quiescent ==
    /\ spc = "idle" /\ rpc = "idle" /\ kpc = "idle" /\ hpc = "idle"
    /\ data = {} /\ acks = {}

Timeout ==
    /\ S!Timeout
    /\ IF Quiescent THEN UNCHANGED faults ELSE Fault
    /\ UNCHANGED <<recvVars, data, acks>>

-----------------------------------------------------------------------------
(* The receiving process.                                                  *)

\* receive_thread takes a segment; every way through the handler but the one
\* that goes on to deliver ends with an ACK.
TakeData(p) ==
    /\ UNCHANGED sendVars
    /\ R!Handle(p)
    /\ Took(data, data', p)
    /\ acks' = IF hpc' = "idle" THEN acks \cup {ack_sent'} ELSE acks

Deliver ==
    /\ UNCHANGED sendVars
    /\ R!Deliver
    /\ acks' = acks \cup {ack_sent'}
    /\ UNCHANGED <<data, faults>>

DataThread == Deliver \/ \E p \in data : TakeData(p)

Recv(r) == UNCHANGED sendVars /\ R!Recv(r) /\ UNCHANGED netVars

-----------------------------------------------------------------------------
\* The network loses a message.
Lose ==
    /\ Fault
    /\ \/ \E p \in data : data' = data \ {p} /\ UNCHANGED acks
       \/ \E m \in acks : acks' = acks \ {m} /\ UNCHANGED data
    /\ UNCHANGED <<sendVars, recvVars>>

Next ==
    \/ AppSend \/ SendingThread \/ RetransThread \/ AckThread \/ Timeout
    \/ DataThread
    \/ \E r \in Readers : Recv(r)
    \/ Lose

Spec == Init /\ [][Next]_vars

\* The threads of both processes run, an armed timer expires, and a message
\* that is not lost arrives.  receive_thread gets send_lock although
\* retrans_thread, which holds it only for a pass, may ask for it again and
\* again.
Fairness ==
    /\ WF_vars(SendingThread) /\ WF_vars(RetransThread) /\ WF_vars(AckThread /\ faults' = faults)
    /\ WF_vars(Timeout)
    /\ WF_vars(DataThread /\ faults' = faults)
    /\ \A r \in Readers : WF_vars(Recv(r))
    /\ SF_vars(Quiet(S!K_Compact))
FairSpec == Spec /\ Fairness

-----------------------------------------------------------------------------
(* Properties.                                                             *)

\* What Sender assumes of its peer is true of the receiving half: it never
\* acknowledges a byte that was not sent, nor advertises a window larger than
\* its own, so every step of the sending half is one that Sender allows.
FeedsSender == S!Spec

\* What Receiver assumes of its peer is true of the sending half until an
\* overlap: every segment, first sent or retransmitted, probe or data, is a
\* slice of the stream under its own sequence number.
FeedsReceiver == R!Init /\ [][overlap \/ R!Next]_(R!vars)

\* No byte is lost between the two buffers: until an overlap, every byte the
\* application wrote is in sending_buf, in received_buf or with the reader.
\* The sender drops acknowledged bytes, so this ties its compaction to what
\* the other process acknowledged.
NothingIsLost ==
    ~overlap =>
        \A k \in 1..written : k > compacted \/ k <= Len(app) + Len(received_buf)

\* The two halves and the network implement the byte stream until an overlap:
\* what tju_recv returns is what tju_send was given, each byte once, in order.
Stream == INSTANCE ByteStream WITH
    Capacity <- MAX_SOCK_BUF_SIZE,
    held <- received_buf,
    returned <- app
ImplementsStream == Stream!BInit /\ [][overlap \/ Stream!BNext]_(Stream!bvars)

\* Everything written is read and acknowledged.
CaughtUp == Len(app) = written /\ base = written + 1

\* Whatever is lost, timers, duplicate ACKs and retransmissions bring the
\* stream to its end: the connection catches up with the application again
\* and again, unless one of the races of the sender's threads happens.
CatchesUp == []<>(CaughtUp \/ overlap \/ mistimed)

\* The states explored: those before a race; see the README.
BeforeRace == ~overlap /\ ~mistimed

\* Nothing is under way in either process or between them, and nothing will be
\* until an application does something.
AtRest == Quiescent /\ ~timer /\ ~RETRANS /\ ~S!MaySend

\* Whatever was lost, duplicated or reordered, the connection comes to rest only
\* when the receiving process holds or has read every byte written and the
\* sending process knows it, unless one of the races happened.  This is what the
\* flags and the timer, set and cleared by three threads without a lock, are for.
RestIsDone ==
    AtRest /\ BeforeRace =>
        base = written + 1 /\ Len(app) + Len(received_buf) = written

-----------------------------------------------------------------------------
(* The inductive invariant behind the safety properties.                   *)

\* The receiver's window, delivered and marked, holds only positions that
\* were sent.
ReceivedWasSent ==
    /\ expect_seq \in Nat \ {0} /\ expect_seq <= reached
    /\ remain_size \in 0..MAX_RWINDOW_SIZE /\ hfree \in R!Slots
    /\ \A i \in R!Slots : win[i] # 0 => expect_seq + i < reached
    /\ hpc = "deliver" => \A i \in 0..(hfree - 1) : win[i] # 0

\* ACKs in flight, and those applied last, are for bytes delivered.
AcksAreDelivered ==
    /\ \A m \in acks : m.ack \in 1..expect_seq /\ m.wnd \in 0..MAX_RWINDOW_SIZE
    /\ S!LastAck <= expect_seq /\ base <= expect_seq

\* Segments in flight were sent and, until an overlap, are faithful.
FlightIsSent ==
    \A p \in data : p.seq \in Int /\ p.dlen \in Int /\ p.seq + p.dlen <= reached
FlightIsFaithful == data \subseteq R!DataSegments \cup R!Probes

\* Before the first segment there is nothing to acknowledge, and no timer.
NothingBeforeFirst ==
    reached = 1 =>
        /\ data = {} /\ acks = {}
        /\ ~timer /\ ~RETRANS /\ ~overlap
        /\ spc \notin {"start", "account"} /\ rpc = "idle" /\ kpc = "idle" /\ hpc = "idle"

TransferInv ==
    /\ S!SenderInv
    /\ ReceivedWasSent
    /\ AcksAreDelivered
    /\ FlightIsSent
    /\ NothingBeforeFirst
    /\ ~overlap => R!ReceiverInv /\ FlightIsFaithful
=============================================================================
