------------------------------- MODULE Sender -------------------------------
(***************************************************************************)
(* The sending half of an ESTABLISHED TJU_TCP socket.  Four threads and a  *)
(* signal share its variables:                                             *)
(*   - the application, in tju_send;                                       *)
(*   - sending_thread, which sends what the window allows;                 *)
(*   - retrans_thread, which retransmits when RETRANS is set;              *)
(*   - receive_thread, in the ACK branch of tju_handle_packet;             *)
(*   - timeout_handler, run when the one-shot interval timer expires.      *)
(* send_lock protects the send buffer only: base, ack_cnt, the congestion  *)
(* state and the flags are read and written without it.  A step below is a *)
(* stretch of one thread between two such accesses that matter; the README *)
(* lists the accesses that share a step, and why none of them matters.     *)
(*                                                                         *)
(* The k-th byte of the stream is the number k.  sending_buf[i] is byte    *)
(* compacted + i + 1, where compacted counts the bytes the buffer has been *)
(* rid of.  A segment carries dlen bytes from byte off on under sequence   *)
(* number seq, and is right exactly when off = seq.                        *)
(***************************************************************************)
EXTENDS Integers

CONSTANTS
    MAX_DLEN,           \* largest payload of a segment
    MAX_SOCK_BUF_SIZE,  \* size of sending_buf
    COMPACT_AT,         \* 4 * MAX_SOCK_BUF_SIZE / 5
    SSTHRESH,           \* the initial ssthresh, MAX_SWINDOW_SIZE >> 1
    MAX_RWINDOW_SIZE,   \* the largest window the peer advertises
    AdvWindows,         \* the windows it advertises
    StreamLen,          \* bound: bytes the application ever writes
    MaxCwnd             \* bound: the largest cwnd explored

ASSUME SenderAssumption ==
    /\ MAX_DLEN \in Nat \ {0}
    /\ MAX_SOCK_BUF_SIZE \in Nat \ {0}
    /\ COMPACT_AT \in Nat
    /\ SSTHRESH \in Nat
    /\ MAX_RWINDOW_SIZE \in Nat
    /\ AdvWindows \subseteq 0..MAX_RWINDOW_SIZE
    /\ StreamLen \in Nat
    /\ MaxCwnd \in Nat
    /\ MAX_DLEN <= MaxCwnd /\ MAX_DLEN <= MAX_RWINDOW_SIZE

VARIABLES
    compacted,      \* bytes dropped from the front of sending_buf so far
    sending_len,    \* sock->sending_len
    have_send_len,  \* sock->have_send_len
    send_lock,      \* who holds sock->send_lock across steps
    base,           \* wnd_send->base
    nextseq,        \* wnd_send->nextseq
    ack_cnt,        \* wnd_send->ack_cnt
    window_size,    \* wnd_send->window_size
    rwnd,           \* wnd_send->rwnd
    cwnd,           \* wnd_send->cwnd
    ssthresh,       \* wnd_send->ssthresh
    window_status,  \* wnd_send->window_status
    same_ack_cnt,   \* wnd_send->same_ack_cnt, only ever compared with 3
    is_retransing,  \* sock->is_retransing
    RETRANS,        \* the global RETRANS
    TIMEOUT_FLAG,   \* the global TIMEOUT_FLAG
    timer,          \* whether ITIMER_REAL is armed
    spc,            \* sending_thread: where it is
    wnd_limit,      \* its wnd_ack_cnt + wnd_size
    wnd_base,       \* its wnd_base
    wnd_nextseq,    \* its wnd_nextseq
    tmp_len,        \* its tmp_len
    outdated,       \* history: the buffer was compacted, in whole or in part,
                    \* between its reading of ack_cnt and its use of it
    rpc,            \* retrans_thread: where it is
    r_ack_cnt,      \* its wnd_ack_cnt
    r_base,         \* its wnd_base
    r_size,         \* the window it computes after a timeout
    kpc,            \* receive_thread: where it is in the ACK branch
    kack,           \* the ack number of the packet it handles
    reached,        \* the highest ack number the peer can have sent
    overlap,        \* history: a new ACK was applied between the two reads of
                    \* retrans_thread, or its first read fell between the two
                    \* writes of receive_thread
    mistimed        \* history: one of the other races that StallsAreRaces
                    \* lists

bufVars == <<compacted, sending_len, have_send_len>>
wndVars == <<base, nextseq, ack_cnt>>
congVars == <<window_size, rwnd, cwnd, ssthresh, window_status, same_ack_cnt>>
flagVars == <<is_retransing, RETRANS, TIMEOUT_FLAG, timer>>
sndVars == <<spc, wnd_limit, wnd_base, wnd_nextseq, tmp_len, outdated>>
rtVars == <<rpc, r_ack_cnt, r_base, r_size>>
ackVars == <<kpc, kack>>
vars == <<bufVars, send_lock, wndVars, congVars, flagVars, sndVars, rtVars,
          ackVars, reached, overlap, mistimed>>

Lesser(x, y) == IF x < y THEN x ELSE y
Greater(x, y) == IF x < y THEN y ELSE x

Init ==
    /\ compacted = 0 /\ sending_len = 0 /\ have_send_len = 0
    /\ send_lock = "free"
    /\ base = 1 /\ nextseq = 1 /\ ack_cnt = 0
    /\ window_size = MAX_DLEN /\ rwnd = MAX_RWINDOW_SIZE /\ cwnd = MAX_DLEN
    /\ ssthresh = SSTHRESH
    /\ window_status = "SLOW_START" /\ same_ack_cnt = 0
    /\ is_retransing = FALSE /\ RETRANS = FALSE /\ TIMEOUT_FLAG = FALSE
    /\ timer = FALSE
    /\ spc = "idle" /\ wnd_limit = 0 /\ wnd_base = 0 /\ wnd_nextseq = 0 /\ tmp_len = 0
    /\ outdated = FALSE
    /\ rpc = "idle" /\ r_ack_cnt = 0 /\ r_base = 0 /\ r_size = 0
    /\ kpc = "idle" /\ kack = 0
    /\ reached = 1
    /\ overlap = FALSE /\ mistimed = FALSE

\* Operators named ...Mut are mutants, used by no definition: each is what the
\* operator after it could have been, had the code a plausible bug.

\* startTimer when setitimer fails: the error is printed and ignored.
StartTimerMut == RETRANS' = FALSE /\ TIMEOUT_FLAG' = FALSE /\ UNCHANGED timer

\* startTimer: RETRANS and TIMEOUT_FLAG are cleared, the timer armed anew.
StartTimer == RETRANS' = FALSE /\ TIMEOUT_FLAG' = FALSE /\ timer' = TRUE

\* retrans_thread will run, now or when the timer expires.
Requested == timer \/ RETRANS

\* The payload of the next segment when rest bytes are left to send.
SegmentLen(rest) == Lesser(rest, MAX_DLEN)

\* A segment on the network lets the peer acknowledge up to its end.
Transmit(p) == reached' = Greater(reached, p.seq + p.dlen)

-----------------------------------------------------------------------------
(* The application.                                                        *)

\* tju_send when the free part of the buffer takes all n bytes.
AppSend(n) ==
    /\ send_lock = "free"
    /\ MAX_SOCK_BUF_SIZE - sending_len >= n
    /\ compacted + sending_len + n <= StreamLen
    /\ sending_len' = sending_len + n
    /\ UNCHANGED <<compacted, have_send_len, send_lock, wndVars, congVars,
                   flagVars, sndVars, rtVars, ackVars, reached, overlap, mistimed>>

-----------------------------------------------------------------------------
(* sending_thread.                                                         *)

\* The window has room for bytes that were never sent, and no retransmission
\* or first segment is waiting for its ACK.
MaySend ==
    /\ window_size # 0
    /\ have_send_len < sending_len
    /\ have_send_len < ack_cnt + window_size
    /\ ~is_retransing

\* Where in the buffer the window ends.
LimitMut == have_send_len + window_size
Limit == ack_cnt + window_size

\* The test of the busy loop, with the first two reads of the window.
S_Guard ==
    /\ spc = "idle"
    /\ MaySend
    /\ wnd_limit' = Limit
    /\ outdated' = (kpc = "clear")
    /\ spc' = "base"
    /\ UNCHANGED <<bufVars, send_lock, wndVars, congVars, flagVars, wnd_base,
                   wnd_nextseq, tmp_len, rtVars, ackVars, reached, overlap, mistimed>>

\* The other two reads.
S_ReadBase ==
    /\ spc = "base"
    /\ wnd_base' = base
    /\ wnd_nextseq' = nextseq
    /\ spc' = "lock"
    /\ UNCHANGED <<bufVars, send_lock, wndVars, congVars, flagVars, wnd_limit,
                   tmp_len, outdated, rtVars, ackVars, reached, overlap, mistimed>>

S_Lock ==
    /\ spc = "lock"
    /\ send_lock = "free"
    /\ send_lock' = "sending"
    /\ tmp_len' = Lesser(sending_len, wnd_limit)
    /\ wnd_limit' = 0
    /\ spc' = "send"
    /\ UNCHANGED <<bufVars, wndVars, congVars, flagVars, wnd_base, wnd_nextseq,
                   outdated, rtVars, ackVars, reached, overlap, mistimed>>

\* The segment the next iteration of the send loop builds.
SendSegmentMut ==
    [seq  |-> wnd_nextseq,
     off  |-> compacted + ack_cnt + 1,
     dlen |-> SegmentLen(tmp_len - have_send_len)]
SendSegment ==
    [seq  |-> wnd_nextseq,
     off  |-> compacted + have_send_len + 1,
     dlen |-> SegmentLen(tmp_len - have_send_len)]

S_Send ==
    /\ spc = "send"
    /\ have_send_len < tmp_len
    /\ Transmit(SendSegment)
    /\ spc' = IF wnd_base = wnd_nextseq THEN "start" ELSE "account"
    /\ UNCHANGED <<bufVars, send_lock, wndVars, congVars, flagVars, wnd_limit,
                   wnd_base, wnd_nextseq, tmp_len, outdated, rtVars, ackVars, overlap, mistimed>>

\* The first segment of the window starts the timer.  Should receive_thread
\* have decided to stop it, it will stop this one.
S_Start ==
    /\ spc = "start"
    /\ StartTimer
    /\ spc' = "account"
    /\ mistimed' = (mistimed \/ kpc = "stop")
    /\ UNCHANGED <<bufVars, send_lock, wndVars, congVars, is_retransing, wnd_limit,
                   wnd_base, wnd_nextseq, tmp_len, outdated, rtVars, ackVars, reached, overlap>>

\* The rest of the iteration: the mark of the first segment, the lengths.
S_Account ==
    /\ spc = "account"
    /\ is_retransing' = (is_retransing \/ wnd_base = wnd_nextseq)
    /\ have_send_len' = have_send_len + SendSegment.dlen
    /\ wnd_nextseq' = wnd_nextseq + SendSegment.dlen
    /\ spc' = "send"
    /\ UNCHANGED <<compacted, sending_len, send_lock, wndVars, congVars, RETRANS,
                   TIMEOUT_FLAG, timer, wnd_limit, wnd_base, tmp_len, outdated, rtVars,
                   ackVars, reached, overlap, mistimed>>

S_Finish ==
    /\ spc = "send"
    /\ have_send_len >= tmp_len
    /\ nextseq' = wnd_nextseq
    /\ send_lock' = "free"
    /\ spc' = "idle"
    /\ wnd_base' = 0 /\ wnd_nextseq' = 0 /\ tmp_len' = 0 /\ outdated' = FALSE
    /\ UNCHANGED <<bufVars, base, ack_cnt, congVars, flagVars, wnd_limit, rtVars,
                   ackVars, reached, overlap, mistimed>>

-----------------------------------------------------------------------------
(* retrans_thread, which spins until RETRANS is set.                       *)

R_Wake ==
    /\ rpc = "idle"
    /\ RETRANS
    /\ rpc' = "woken"
    /\ UNCHANGED <<bufVars, send_lock, wndVars, congVars, flagVars, sndVars,
                   r_ack_cnt, r_base, r_size, ackVars, reached, overlap, mistimed>>

\* The window is closed: send an empty segment numbered base - 1.
R_Probe ==
    /\ rpc = "woken"
    /\ window_size = 0
    /\ Transmit([seq |-> base - 1, off |-> 0, dlen |-> 0])
    /\ StartTimer
    /\ rpc' = "idle"
    /\ UNCHANGED <<bufVars, send_lock, wndVars, congVars, is_retransing, sndVars,
                   r_ack_cnt, r_base, r_size, ackVars, overlap, mistimed>>

R_Open ==
    /\ rpc = "woken"
    /\ window_size # 0
    /\ rpc' = "open"
    /\ UNCHANGED <<bufVars, send_lock, wndVars, congVars, flagVars, sndVars,
                   r_ack_cnt, r_base, r_size, ackVars, reached, overlap, mistimed>>

\* Is a retransmission, or the first segment of a window, under way?
R_Begin ==
    /\ rpc = "open"
    /\ rpc' = IF is_retransing THEN "lock" ELSE "clear"
    /\ UNCHANGED <<bufVars, send_lock, wndVars, congVars, flagVars, sndVars,
                   r_ack_cnt, r_base, r_size, ackVars, reached, overlap, mistimed>>

\* If not, clear RETRANS, and with it what was requested since the tests ...
R_Clear ==
    /\ rpc = "clear"
    /\ RETRANS' = FALSE
    /\ rpc' = "recheck"
    /\ mistimed' = (\/ mistimed
                    \/ /\ ~timer /\ ack_cnt >= have_send_len
                       /\ is_retransing \/ window_size = 0)
    /\ UNCHANGED <<bufVars, send_lock, wndVars, congVars, is_retransing,
                   TIMEOUT_FLAG, timer, sndVars, r_ack_cnt, r_base, r_size,
                   ackVars, reached, overlap>>

\* ... but set both flags again when sent data is unacknowledged.  Sent data that
\* the two counters do not show is missed.
R_Recheck ==
    /\ rpc = "recheck"
    /\ \/ /\ ack_cnt < have_send_len
          /\ is_retransing' = TRUE
          /\ RETRANS' = TRUE
          /\ UNCHANGED mistimed
       \/ /\ ack_cnt >= have_send_len
          /\ mistimed' = (\/ mistimed
                          \/ ~Requested /\ (kpc = "clear" \/ spc = "account"))
          /\ UNCHANGED <<is_retransing, RETRANS>>
    /\ rpc' = "idle"
    /\ UNCHANGED <<bufVars, send_lock, wndVars, congVars, TIMEOUT_FLAG, timer,
                   sndVars, r_ack_cnt, r_base, r_size, ackVars, reached, overlap>>

\* What ssthresh becomes after a loss.
HalfCwndMut == cwnd - MAX_DLEN
HalfCwnd == cwnd \div 2

\* The lock is taken.  After a timeout the congestion window collapses to one
\* segment, and the window is computed anew from rwnd ...
R_Lock ==
    /\ rpc = "lock"
    /\ send_lock = "free"
    /\ send_lock' = "retrans"
    /\ \/ /\ TIMEOUT_FLAG
          /\ ssthresh' = HalfCwnd
          /\ cwnd' = MAX_DLEN
          /\ window_status' = "SLOW_START"
          /\ r_size' = Lesser(MAX_DLEN, rwnd)
          /\ rpc' = "collapse"
       \/ /\ ~TIMEOUT_FLAG
          /\ rpc' = "snapshot"
          /\ UNCHANGED <<ssthresh, cwnd, window_status, r_size>>
    /\ UNCHANGED <<bufVars, wndVars, window_size, rwnd, same_ack_cnt, flagVars,
                   sndVars, r_ack_cnt, r_base, ackVars, reached, overlap, mistimed>>

\* ... but written only now, over the window of an ACK that came in between.
R_Collapse ==
    /\ rpc = "collapse"
    /\ window_size' = r_size
    /\ r_size' = 0
    /\ rpc' = "snapshot"
    /\ mistimed' = (mistimed \/ (r_size = 0 /\ window_size # 0))
    /\ UNCHANGED <<bufVars, send_lock, wndVars, rwnd, cwnd, ssthresh, window_status,
                   same_ack_cnt, flagVars, sndVars, r_ack_cnt, r_base, ackVars,
                   reached, overlap>>

\* The snapshot of ack_cnt and of have_send_len.  The lock does not keep
\* receive_thread from writing ack_cnt and base: between its two writes they
\* disagree.
R_ReadAck ==
    /\ rpc = "snapshot"
    /\ r_ack_cnt' = ack_cnt
    /\ rpc' = "base"
    /\ overlap' = (overlap \/ kpc = "base")
    /\ UNCHANGED <<bufVars, send_lock, wndVars, congVars, flagVars, sndVars, r_base,
                   r_size, ackVars, reached, mistimed>>

R_ReadBase ==
    /\ rpc = "base"
    /\ r_base' = base
    /\ rpc' = "resend"
    /\ UNCHANGED <<bufVars, send_lock, wndVars, congVars, flagVars, sndVars,
                   r_ack_cnt, r_size, ackVars, reached, overlap, mistimed>>

\* The segment the next iteration of the retransmission loop builds.  Its
\* have_sent is have_send_len, which the lock keeps from changing.
ResendSegment ==
    [seq  |-> r_base,
     off  |-> compacted + r_ack_cnt + 1,
     dlen |-> SegmentLen(have_send_len - r_ack_cnt)]

R_Resend ==
    /\ rpc = "resend"
    /\ r_ack_cnt < have_send_len
    /\ Transmit(ResendSegment)
    /\ rpc' = "rearm"
    /\ UNCHANGED <<bufVars, send_lock, wndVars, congVars, flagVars, sndVars,
                   r_ack_cnt, r_base, r_size, ackVars, overlap, mistimed>>

\* The rest of the iteration: the timer if this segment is still the first
\* unacknowledged one, then the local counters.
R_Rearm ==
    /\ rpc = "rearm"
    /\ \/ /\ r_ack_cnt = ack_cnt
          /\ StartTimer
          /\ is_retransing' = TRUE
       \/ /\ r_ack_cnt # ack_cnt
          /\ UNCHANGED flagVars
    /\ r_ack_cnt' = r_ack_cnt + ResendSegment.dlen
    /\ r_base' = r_base + ResendSegment.dlen
    /\ rpc' = "resend"
    /\ UNCHANGED <<bufVars, send_lock, wndVars, congVars, sndVars, r_size, ackVars,
                   reached, overlap, mistimed>>

\* The end of a pass, which clears every request made during it.
R_Finish ==
    /\ rpc = "resend"
    /\ r_ack_cnt >= have_send_len
    /\ RETRANS' = FALSE
    /\ is_retransing' = FALSE
    /\ send_lock' = "free"
    /\ rpc' = "idle"
    /\ r_ack_cnt' = 0 /\ r_base' = 0
    /\ mistimed' = (\/ mistimed
                    \/ /\ RETRANS /\ ~timer
                       /\ ack_cnt < have_send_len \/ window_size = 0)
    /\ UNCHANGED <<bufVars, wndVars, congVars, TIMEOUT_FLAG, timer, sndVars,
                   r_size, ackVars, reached, overlap>>

-----------------------------------------------------------------------------
(* receive_thread, handling an ACK with number a and window w.             *)

\* From before the window: only the flow control state is refreshed.
K_Old(a, w) ==
    /\ kpc = "idle"
    /\ a < base
    /\ rwnd' = w
    /\ window_size' = Lesser(cwnd, w)
    /\ kpc' = "last"
    /\ UNCHANGED <<bufVars, send_lock, wndVars, cwnd, ssthresh, window_status,
                   same_ack_cnt, flagVars, sndVars, rtVars, kack, reached, overlap, mistimed>>

\* same_ack_cnt is compared with 3 only: 4 stands for every larger count.
CountDuplicate == same_ack_cnt' = Lesser(same_ack_cnt + 1, 4)

\* A duplicate: the third in a row starts fast recovery and a retransmission,
\* each further one inflates the congestion window.
K_Dup(a, w) ==
    /\ kpc = "idle"
    /\ a = base
    /\ rwnd' = w
    /\ \/ /\ window_status # "FAST_RECOVERY"
          /\ CountDuplicate
          /\ same_ack_cnt' = 3
          /\ ssthresh' = HalfCwnd
          /\ cwnd' = HalfCwnd
          /\ window_status' = "FAST_RECOVERY"
          /\ is_retransing' = TRUE
          /\ RETRANS' = TRUE
          /\ UNCHANGED <<TIMEOUT_FLAG, timer>>
       \/ /\ window_status # "FAST_RECOVERY"
          /\ CountDuplicate
          /\ same_ack_cnt' # 3
          /\ UNCHANGED <<ssthresh, cwnd, window_status, flagVars>>
       \/ /\ window_status = "FAST_RECOVERY"
          /\ cwnd' = cwnd + MAX_DLEN
          /\ cwnd' <= MaxCwnd
          /\ UNCHANGED <<same_ack_cnt, ssthresh, window_status, flagVars>>
    /\ window_size' = Lesser(cwnd', w)
    /\ kpc' = "last"
    /\ UNCHANGED <<bufVars, send_lock, wndVars, sndVars, rtVars, kack, reached, overlap, mistimed>>

\* What an ACK for new data does to the congestion window.
Grow ==
    \/ /\ window_status = "SLOW_START"
       /\ 2 * cwnd >= ssthresh
       /\ cwnd' = ssthresh
       /\ window_status' = "CONGESTION_AVOIDANCE"
    \/ /\ window_status = "SLOW_START"
       /\ 2 * cwnd < ssthresh
       /\ cwnd' = 2 * cwnd
       /\ UNCHANGED window_status
    \/ /\ window_status = "CONGESTION_AVOIDANCE"
       /\ cwnd' = cwnd + MAX_DLEN
       /\ UNCHANGED window_status
    \/ /\ window_status = "FAST_RECOVERY"
       /\ window_status' = "CONGESTION_AVOIDANCE"
       /\ UNCHANGED cwnd

\* ack_cnt once the ACK with number a is applied.
AckCntAfterMut(a) == a - 1
AckCntAfter(a) == ack_cnt + (a - base)

\* An ACK for new data, up to the write of ack_cnt.
K_New(a, w) ==
    /\ kpc = "idle"
    /\ a > base
    /\ rwnd' = w
    /\ same_ack_cnt' = 0
    /\ Grow
    /\ cwnd' <= MaxCwnd
    /\ window_size' = Lesser(cwnd', w)
    /\ ack_cnt' = AckCntAfter(a)
    /\ kack' = a
    /\ kpc' = "base"
    /\ overlap' = (overlap \/ rpc = "base")
    /\ UNCHANGED <<bufVars, send_lock, base, nextseq, ssthresh, flagVars, sndVars,
                   rtVars, reached, mistimed>>

K_Base ==
    /\ kpc = "base"
    /\ base' = kack
    /\ kpc' = "test"
    /\ kack' = 0
    /\ overlap' = (overlap \/ rpc = "base")
    /\ mistimed' = (mistimed \/ spc \in {"lock", "send", "start", "account"})
    /\ UNCHANGED <<bufVars, send_lock, nextseq, ack_cnt, congVars, flagVars, sndVars,
                   rtVars, reached>>

\* Is anything published unacknowledged?  A send pass publishes nextseq when it
\* ends, and has by now started the timer and sent.
K_Test ==
    /\ kpc = "test"
    /\ kpc' = IF base = nextseq THEN "stop" ELSE "restart"
    /\ mistimed' = (\/ mistimed
                    \/ /\ base = nextseq
                       /\ ack_cnt < have_send_len \/ spc = "account")
    /\ UNCHANGED <<bufVars, send_lock, wndVars, congVars, flagVars, sndVars, rtVars,
                   kack, reached, overlap>>

\* If not, the timer is stopped, then the mark cleared.
K_Stop ==
    /\ kpc = "stop"
    /\ timer' = FALSE
    /\ kpc' = "unmark"
    /\ UNCHANGED <<bufVars, send_lock, wndVars, congVars, is_retransing, RETRANS,
                   TIMEOUT_FLAG, sndVars, rtVars, kack, reached, overlap, mistimed>>

K_Unmark ==
    /\ kpc = "unmark"
    /\ is_retransing' = FALSE
    /\ kpc' = "compact"
    /\ UNCHANGED <<bufVars, send_lock, wndVars, congVars, RETRANS, TIMEOUT_FLAG,
                   timer, sndVars, rtVars, kack, reached, overlap, mistimed>>

\* If so, the timer is restarted, then the mark set.
K_Restart ==
    /\ kpc = "restart"
    /\ StartTimer
    /\ kpc' = "mark"
    /\ UNCHANGED <<bufVars, send_lock, wndVars, congVars, is_retransing, sndVars,
                   rtVars, kack, reached, overlap, mistimed>>

K_Mark ==
    /\ kpc = "mark"
    /\ is_retransing' = TRUE
    /\ kpc' = "compact"
    /\ UNCHANGED <<bufVars, send_lock, wndVars, congVars, RETRANS, TIMEOUT_FLAG,
                   timer, sndVars, rtVars, kack, reached, overlap, mistimed>>

\* The buffer is worth compacting: all of it or most of it is acknowledged.
Compactable ==
    /\ sending_len # 0
    /\ ack_cnt = sending_len \/ ack_cnt > COMPACT_AT

\* The unlocked test.
K_CompactTest ==
    /\ kpc = "compact"
    /\ kpc' = IF Compactable THEN "lock" ELSE "last"
    /\ UNCHANGED <<bufVars, send_lock, wndVars, congVars, flagVars, sndVars, rtVars,
                   kack, reached, overlap, mistimed>>

\* How many bytes a compaction drops.
DroppedMut == have_send_len
Dropped == ack_cnt

\* The critical section: drop the acknowledged bytes from the buffer.  The
\* lengths change first and ack_cnt after them, where those who read them
\* without the lock can see the difference.
K_Compact ==
    /\ kpc = "lock"
    /\ send_lock = "free"
    /\ send_lock' = "compact"
    /\ compacted' = compacted + Dropped
    /\ sending_len' = sending_len - Dropped
    /\ have_send_len' = have_send_len - Dropped
    /\ kpc' = "clear"
    /\ outdated' = (outdated \/ spc \in {"base", "lock"})
    /\ UNCHANGED <<wndVars, congVars, flagVars, spc, wnd_limit, wnd_base, wnd_nextseq,
                   tmp_len, rtVars, kack, reached, overlap, mistimed>>

K_Clear ==
    /\ kpc = "clear"
    /\ ack_cnt' = 0
    /\ send_lock' = "free"
    /\ kpc' = "last"
    /\ UNCHANGED <<bufVars, base, nextseq, congVars, flagVars, sndVars, rtVars,
                   kack, reached, overlap, mistimed>>

\* Every ACK ends with a look at the window.
K_ZeroTest ==
    /\ kpc = "last"
    /\ kpc' = IF window_size = 0 THEN "zero" ELSE "idle"
    /\ UNCHANGED <<bufVars, send_lock, wndVars, congVars, flagVars, sndVars, rtVars,
                   kack, reached, overlap, mistimed>>

\* A closed window starts the timer for the probes.
K_Zero ==
    /\ kpc = "zero"
    /\ StartTimer
    /\ is_retransing' = FALSE
    /\ kpc' = "idle"
    /\ UNCHANGED <<bufVars, send_lock, wndVars, congVars, sndVars, rtVars, kack,
                   reached, overlap, mistimed>>

\* The peer acknowledges what it has, in any order and any number of times.
Ack == \E a \in 1..reached, w \in AdvWindows :
            reached > 1 /\ (K_Old(a, w) \/ K_Dup(a, w) \/ K_New(a, w))

-----------------------------------------------------------------------------
\* The timer expires: timeout_handler.
Timeout ==
    /\ timer
    /\ timer' = FALSE
    /\ RETRANS' = TRUE
    /\ TIMEOUT_FLAG' = TRUE
    /\ UNCHANGED <<bufVars, send_lock, wndVars, congVars, is_retransing, sndVars,
                   rtVars, ackVars, reached, overlap, mistimed>>

Next ==
    \/ \E n \in 1..StreamLen : AppSend(n)
    \/ S_Guard \/ S_ReadBase \/ S_Lock \/ S_Send \/ S_Start \/ S_Account \/ S_Finish
    \/ R_Wake \/ R_Probe \/ R_Open \/ R_Begin \/ R_Clear \/ R_Recheck
    \/ R_Lock \/ R_Collapse \/ R_ReadAck \/ R_ReadBase \/ R_Resend \/ R_Rearm \/ R_Finish
    \/ Ack \/ K_Base \/ K_Test \/ K_Stop \/ K_Unmark \/ K_Restart \/ K_Mark
    \/ K_CompactTest \/ K_Compact \/ K_Clear \/ K_ZeroTest \/ K_Zero
    \/ Timeout

Spec == Init /\ [][Next]_vars

-----------------------------------------------------------------------------
(* Properties.                                                             *)

\* Every variable has its type.  (The counters are C ints and unsigneds; they
\* leave Nat only after an overlap, see BufferIsSound.)
TypeOK ==
    /\ {compacted, sending_len, have_send_len, ack_cnt, nextseq} \subseteq Int
    /\ {base, window_size, rwnd, cwnd, ssthresh, r_size} \subseteq Nat
    /\ same_ack_cnt \in 0..4
    /\ window_status \in {"SLOW_START", "CONGESTION_AVOIDANCE", "FAST_RECOVERY"}
    /\ {is_retransing, RETRANS, TIMEOUT_FLAG, timer} \subseteq BOOLEAN
    /\ {outdated, overlap, mistimed} \subseteq BOOLEAN
    /\ send_lock \in {"free", "sending", "retrans", "compact"}
    /\ spc \in {"idle", "base", "lock", "send", "start", "account"}
    /\ {wnd_limit, wnd_base, wnd_nextseq, tmp_len} \subseteq Int
    /\ rpc \in {"idle", "woken", "open", "clear", "recheck", "lock", "collapse",
                "snapshot", "base", "resend", "rearm"}
    /\ {r_ack_cnt, r_base} \subseteq Int
    /\ kpc \in {"idle", "base", "test", "stop", "unmark", "restart", "mark", "compact",
                "lock", "clear", "last", "zero"}
    /\ {kack, reached} \subseteq Nat

Sending == spc = "send" /\ have_send_len < tmp_len
Resending == rpc = "resend" /\ r_ack_cnt < have_send_len

\* Every segment, first sent or retransmitted, carries the bytes its sequence
\* number stands for, although sequence numbers and buffer offsets live in
\* variables written by different threads and the buffer is compacted in
\* between.  The one exception is a retransmission after an overlap.
SegmentsAreFaithful ==
    /\ Sending => SendSegment.off = SendSegment.seq
    /\ Resending /\ ~overlap => ResendSegment.off = ResendSegment.seq

\* The last ACK number applied, at least to ack_cnt.
LastAck == IF kpc = "base" THEN kack ELSE base

\* The same of every retransmission the peer can still take anything from,
\* overlap or not: a retransmission resends the window from base on.  It does
\* not hold of the code.
RetransmissionsAreFaithful ==
    Resending /\ ResendSegment.seq >= LastAck
        => ResendSegment.off = ResendSegment.seq

\* The buffer never forgets a byte the peer has not acknowledged, and
\* compaction never takes more from the two lengths than they count, though
\* it uses an ack_cnt that may run ahead of have_send_len while a send pass
\* has not accounted for what it sent.
BufferIsSound ==
    ~overlap =>
        /\ compacted < base
        /\ 0 <= have_send_len /\ have_send_len <= sending_len
        /\ kpc = "lock" /\ send_lock = "free" => ack_cnt <= have_send_len

\* Nothing is under way, nothing will be until the application or the peer
\* does something, and yet not every byte is acknowledged.
Stalled ==
    /\ spc = "idle" /\ rpc = "idle" /\ kpc = "idle"
    /\ ~timer /\ ~RETRANS
    /\ ack_cnt < sending_len
    /\ ~MaySend

\* The timer that the first segment of a window starts, or a request to
\* retransmit, covers unacknowledged data and closed windows.  It does not
\* hold of the code.
NoSilentStall == ~Stalled

\* The sender stalls only after one of these races:
\*   - an overlap;
\*   - base moves while sending_thread works with the base and nextseq it read
\*     before (K_Base);
\*   - receive_thread stops a timer that sending_thread has started since base
\*     moved, for a segment nextseq does not show (K_Test, S_Start);
\*   - retrans_thread, having found no mark and an open window, erases a request
\*     that came with a mark or a closed window since (R_Clear);
\*   - its recheck falls between the two halves of a compaction, or before
\*     sending_thread has counted the segment it sent (R_Recheck);
\*   - the end of a retransmission erases a timeout or a third duplicate that
\*     came during it (R_Finish);
\*   - after a timeout it closes the window again that an ACK has just opened
\*     (R_Collapse).
StallsAreRaces == Stalled => mistimed \/ overlap

\* sending_thread sends only what lies within the largest window the peer can have
\* advertised, counted from the last ACK applied, unless the buffer was compacted
\* between its reading of ack_cnt, before it takes the lock, and its use of it:
\* then it sends too much, by as many bytes as were dropped.
OverrunsAreOutdated ==
    Sending /\ ~overlap /\ ~outdated =>
        SendSegment.seq + SendSegment.dlen <= LastAck + MAX_RWINDOW_SIZE

\* The states explored in full; see the README.
BeforeOverlap == ~overlap

-----------------------------------------------------------------------------
(* The inductive invariant behind the safety properties.                   *)

\* retrans_thread is in its critical section.
Retransmitting == rpc \in {"collapse", "snapshot", "base", "resend", "rearm"}

\* Each holder of send_lock is inside its critical section and the reverse.
LockHolder ==
    /\ send_lock = "sending" <=> spc \in {"send", "start", "account"}
    /\ send_lock = "retrans" <=> Retransmitting
    /\ send_lock = "compact" <=> kpc = "clear"

\* The bytes at the front of the buffer that are acknowledged, and the bytes
\* on the network that have_send_len does not count yet.
AckedInBuffer == IF kpc = "clear" THEN 0 ELSE ack_cnt
Unaccounted == IF spc \in {"start", "account"} THEN SendSegment.dlen ELSE 0

BufferInv ==
    /\ {compacted, sending_len, have_send_len, ack_cnt} \subseteq Nat
    /\ have_send_len <= sending_len
    /\ spc \in {"send", "start", "account"} => tmp_len <= sending_len
    /\ spc \in {"start", "account"} => have_send_len < tmp_len

\* nextseq and its copy in sending_thread count the bytes sent.
NextseqInv ==
    IF spc \in {"send", "start", "account"}
    THEN wnd_nextseq = compacted + have_send_len + 1
    ELSE nextseq = compacted + have_send_len + 1

\* base and ack_cnt agree, except between the two writes of receive_thread.
BaseInv ==
    IF kpc = "base"
    THEN kack = compacted + ack_cnt + 1 /\ compacted < base
    ELSE base = compacted + AckedInBuffer + 1

\* The peer acknowledges only what was sent.
ReachedInv ==
    /\ base <= reached
    /\ compacted + AckedInBuffer + 1 <= reached
    /\ reached <= compacted + have_send_len + Unaccounted + 1

\* retrans_thread's snapshot of ack_cnt and base, once both are read.
SnapshotInv ==
    /\ rpc = "base" => r_ack_cnt = ack_cnt /\ kpc # "base"
    /\ rpc \in {"resend", "rearm"} => r_base = compacted + r_ack_cnt + 1
    /\ rpc \in {"base", "resend", "rearm"} => r_ack_cnt \in Nat
    /\ rpc = "rearm" => r_ack_cnt < have_send_len

\* The buffer, the sequence numbers, the lock and the snapshots agree with each
\* other until an overlap happens; what the lock and sending_thread's own
\* numbering promise holds even after one.
DataInv ==
    /\ TypeOK
    /\ LockHolder
    /\ NextseqInv
    /\ spc = "lock" => wnd_nextseq = nextseq
    /\ ~overlap => BufferInv /\ BaseInv /\ ReachedInv /\ SnapshotInv

\* sending_thread in a pass knows whether it sends the first segment of a window,
\* for which it starts the timer.
PassIsCurrent ==
    spc \in {"lock", "send", "start", "account"} =>
        /\ wnd_base = base
        /\ base <= nextseq /\ nextseq <= wnd_nextseq

\* receive_thread, once it has decided about the timer, is right.
VerdictInv ==
    /\ kpc # "base" => AckedInBuffer <= have_send_len
    /\ kpc = "stop" => AckedInBuffer = have_send_len /\ spc # "account"
    /\ kpc \in {"restart", "mark"} => AckedInBuffer < have_send_len

\* A closed window is probed, bytes sent and not acknowledged are sent again, and
\* is_retransing, which keeps sending_thread from sending, is cleared: when no
\* thread is about to see to it, it is requested.
NothingForgotten ==
    /\ window_size = 0 =>
          \/ Requested \/ kpc # "idle"
          \/ rpc = "recheck" /\ AckedInBuffer < have_send_len
    /\ AckedInBuffer < have_send_len \/ spc = "account" =>
          Requested \/ rpc = "recheck" \/ kpc \in {"base", "test", "restart"}
    /\ is_retransing =>
          \/ Requested \/ Retransmitting
          \/ kpc \in {"base", "test", "stop", "unmark", "restart"}
          \/ rpc = "recheck" /\ AckedInBuffer < have_send_len

\* Nothing is forgotten until one of the races happens.
CoverInv ==
    ~overlap /\ ~mistimed => PassIsCurrent /\ VerdictInv /\ NothingForgotten

\* How far into the stream sending_thread means to send: where its limit, or the
\* part of the buffer it takes, ends.  The lock keeps the buffer from moving once
\* it is held.
LimitInv ==
    /\ {window_size, rwnd, r_size} \subseteq 0..MAX_RWINDOW_SIZE
    /\ ~overlap /\ ~outdated =>
          /\ spc \in {"base", "lock"} =>
                compacted + wnd_limit + 1 <= LastAck + MAX_RWINDOW_SIZE
          /\ spc \in {"send", "start", "account"} =>
                compacted + tmp_len + 1 <= LastAck + MAX_RWINDOW_SIZE

\* The inductive invariant.
SenderInv == DataInv /\ CoverInv /\ LimitInv
=============================================================================
