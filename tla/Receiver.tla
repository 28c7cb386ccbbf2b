------------------------------ MODULE Receiver ------------------------------
(***************************************************************************)
(* The receiving half of an ESTABLISHED TJU_TCP socket: the data branch of *)
(* tju_handle_packet, run by the one receive_thread, and tju_recv, run by  *)
(* any number of application threads.                                      *)
(*                                                                         *)
(* The k-th byte of the peer's stream is the number k and travels under    *)
(* sequence number k (the initial expect_seq is 1).  A segment is a record *)
(* [seq, off, dlen]: dlen bytes off, off+1, ... under sequence number seq. *)
(* win[i] stands for mark[i] and recv_buf[i] together: 0 when mark[i] is   *)
(* 0, otherwise the byte in recv_buf[i].                                   *)
(*                                                                         *)
(* The network may lose, duplicate and reorder: a segment that has ever    *)
(* been sent may be handled at any later time, any number of times.        *)
(***************************************************************************)
EXTENDS Integers, Sequences

CONSTANTS
    MAX_DLEN,           \* largest payload of a segment
    MAX_RWINDOW_SIZE,   \* slots of recv_buf and mark
    MAX_SOCK_BUF_SIZE,  \* bytes received_buf can hold
    StreamLen,          \* bound: bytes the peer ever writes
    Readers,            \* application threads that call tju_recv
    RecvLens            \* the len arguments they pass

ASSUME SizesAssumption ==
    /\ MAX_DLEN \in Nat \ {0}
    /\ MAX_RWINDOW_SIZE \in Nat
    /\ MAX_SOCK_BUF_SIZE \in Nat
    /\ MAX_DLEN < MAX_RWINDOW_SIZE
    /\ MAX_RWINDOW_SIZE <= MAX_SOCK_BUF_SIZE + 1
    /\ StreamLen \in Nat
    /\ RecvLens \subseteq Nat \ {0}

VARIABLES
    written,        \* how many bytes the peer has put into its stream
    expect_seq,     \* wnd_recv->expect_seq
    win,            \* wnd_recv->recv_buf and wnd_recv->mark
    remain_size,    \* wnd_recv->remain_size
    received_buf,   \* the first received_len bytes of sock->received_buf
    ack_sent,       \* the last ACK sent: [ack, wnd]
    hpc,            \* receive_thread: "idle", or "deliver" past the space check
    hfree,          \* its local free_len
    rpc,            \* each reader: "out", or "copy" past the spin loop
    rlen,           \* each reader's len argument
    app             \* history: every byte tju_recv has returned, in order

vars == <<written, expect_seq, win, remain_size, received_buf, ack_sent,
          hpc, hfree, rpc, rlen, app>>
winVars == <<expect_seq, win, received_buf>>
readVars == <<rpc, rlen, app>>

Slots == 0..(MAX_RWINDOW_SIZE - 1)
Segments == [seq : Nat, off : Nat, dlen : 0..MAX_DLEN]

\* The segments the peer may have on the network: slices of what it has
\* written, under their own sequence numbers, and the empty probe it sends
\* for a zero window, numbered one below a sequence number already expected.
DataSegments ==
    { p \in [seq : 1..StreamLen, off : 1..StreamLen, dlen : 1..MAX_DLEN] :
        p.off = p.seq /\ p.seq + p.dlen <= written + 1 }
Probes == { p \in [seq : 0..StreamLen, off : {0}, dlen : {0}] : p.seq < expect_seq }

Init ==
    /\ written = 0
    /\ expect_seq = 1
    /\ win = [i \in Slots |-> 0]
    /\ remain_size = MAX_RWINDOW_SIZE
    /\ received_buf = << >>
    /\ ack_sent = [ack |-> 1, wnd |-> MAX_RWINDOW_SIZE]
    /\ hpc = "idle"
    /\ hfree = 0
    /\ rpc = [r \in Readers |-> "out"]
    /\ rlen = [r \in Readers |-> 0]
    /\ app = << >>

PeerWrite ==
    /\ written' \in (written + 1)..StreamLen
    /\ UNCHANGED <<winVars, remain_size, ack_sent, hpc, hfree, readVars>>

-----------------------------------------------------------------------------
(* tju_handle_packet, the branch for a packet without flags.               *)

\* Operators named ...Mut are mutants, used by no definition: each is what the
\* operator after it could have been, had the code a plausible bug.
WindowHoldsMut(p) == p.seq + p.dlen <= expect_seq + MAX_RWINDOW_SIZE
WindowHolds(p) == p.seq + p.dlen < expect_seq + MAX_RWINDOW_SIZE

\* The window after the payload of p was copied in and marked.
StoredMut(p) ==
    [i \in Slots |-> IF p.seq <= expect_seq + i /\ expect_seq + i < p.seq + p.dlen
                     THEN p.off + i
                     ELSE win[i]]
Stored(p) ==
    IF WindowHolds(p)
    THEN [i \in Slots |->
            IF p.seq <= expect_seq + i /\ expect_seq + i < p.seq + p.dlen
            THEN p.off + (expect_seq + i - p.seq)
            ELSE win[i]]
    ELSE win

\* get_wnd_free_len(mark) returns n: slot n is the first unmarked one.
IsFreeLen(w, n) == w[n] = 0 /\ \A i \in 0..(n - 1) : w[i] # 0

NeverNoRoomMut(n) == FALSE
NoRoomMut(n) == MAX_SOCK_BUF_SIZE - Len(received_buf) <= n
NoRoom(n) == MAX_SOCK_BUF_SIZE - Len(received_buf) < n

\* The window left for the sender while n bytes wait in recv_buf.
RemainBlockedMut(n) == MAX_SOCK_BUF_SIZE - Len(received_buf)
RemainBlocked(n) == MAX_RWINDOW_SIZE - n

\* An ACK carries expect_seq and remain_size as they are when it is built.
SendAckMut == ack_sent' = [ack |-> expect_seq' + 1, wnd |-> remain_size']
SendAck == ack_sent' = [ack |-> expect_seq', wnd |-> remain_size']

\* A segment from before the window: its payload is ignored.
HandleOld(p) ==
    /\ hpc = "idle"
    /\ p.seq < expect_seq
    /\ UNCHANGED <<written, winVars, remain_size, hpc, hfree, readVars>>
    /\ SendAck

\* The segment is kept, if it fits, and the byte expected next is missing.
HandleGap(p) ==
    /\ hpc = "idle"
    /\ p.seq >= expect_seq
    /\ win' = Stored(p)
    /\ win'[0] = 0
    /\ UNCHANGED <<written, expect_seq, received_buf, remain_size, hpc, hfree, readVars>>
    /\ SendAck

\* The window could move, but received_buf has no room for all of it.
HandleBlocked(p) ==
    /\ hpc = "idle"
    /\ p.seq >= expect_seq
    /\ win' = Stored(p)
    /\ \E n \in Slots \ {0} :
        /\ IsFreeLen(win', n)
        /\ NoRoom(n)
        /\ remain_size' = RemainBlocked(n)
    /\ UNCHANGED <<written, expect_seq, received_buf, hpc, hfree, readVars>>
    /\ SendAck

\* There is room: receive_thread goes on to lock recv_lock.  The space check
\* was made without it, so readers may run before Deliver.
HandleFits(p) ==
    /\ hpc = "idle"
    /\ p.seq >= expect_seq
    /\ win' = Stored(p)
    /\ \E n \in Slots \ {0} :
        /\ IsFreeLen(win', n)
        /\ ~NoRoom(n)
        /\ hfree' = n
    /\ remain_size' = MAX_RWINDOW_SIZE
    /\ hpc' = "deliver"
    /\ UNCHANGED <<written, expect_seq, received_buf, ack_sent, readVars>>

\* The window after its first n slots were dropped; the new tail is unmarked.
ShiftedMut(w, n) == [i \in Slots |-> 0]
Shifted(w, n) == [i \in Slots |-> IF i + n \in Slots THEN w[i + n] ELSE 0]

\* The bytes at the head of the window that are copied to received_buf.
HeadBytesMut == [i \in 1..(hfree - 1) |-> win[i - 1]]
HeadBytes == [i \in 1..hfree |-> win[i - 1]]

\* Append the head of the window to received_buf, slide the window, send the
\* ACK.  Only the append is under recv_lock, but nothing else that runs reads
\* what the rest writes.
Deliver ==
    /\ hpc = "deliver"
    /\ received_buf' = received_buf \o HeadBytes
    /\ win' = Shifted(win, hfree)
    /\ expect_seq' = expect_seq + hfree
    /\ hpc' = "idle"
    /\ hfree' = 0
    /\ UNCHANGED <<written, remain_size, readVars>>
    /\ SendAck

Handle(p) == HandleOld(p) \/ HandleGap(p) \/ HandleBlocked(p) \/ HandleFits(p)

-----------------------------------------------------------------------------
(* tju_recv.                                                               *)

\* The unlocked spin loop ends: this reader saw received_len > 0.
RecvSee(r) ==
    /\ rpc[r] = "out"
    /\ received_buf # << >>
    /\ rpc' = [rpc EXCEPT ![r] = "copy"]
    /\ \E n \in RecvLens : rlen' = [rlen EXCEPT ![r] = n]
    /\ UNCHANGED <<written, winVars, remain_size, ack_sent, hpc, hfree, app>>

ReadLen(n) == IF Len(received_buf) >= n THEN n ELSE Len(received_buf)

\* The critical section: return the first bytes, keep what is left.
RecvCopy(r) ==
    /\ rpc[r] = "copy"
    /\ LET n == ReadLen(rlen[r]) IN
        /\ app' = app \o SubSeq(received_buf, 1, n)
        /\ received_buf' = SubSeq(received_buf, n + 1, Len(received_buf))
    /\ rpc' = [rpc EXCEPT ![r] = "out"]
    /\ rlen' = [rlen EXCEPT ![r] = 0]
    /\ UNCHANGED <<written, expect_seq, win, remain_size, ack_sent, hpc, hfree>>

Recv(r) == RecvSee(r) \/ RecvCopy(r)

-----------------------------------------------------------------------------
Next ==
    \/ PeerWrite
    \/ \E p \in DataSegments \cup Probes : Handle(p)
    \/ Deliver
    \/ \E r \in Readers : Recv(r)

Spec == Init /\ [][Next]_vars

\* The peer keeps retransmitting the segment at expect_seq until it is
\* acknowledged and the network does not lose every copy; receive_thread and
\* the application threads keep running.
HandleExpected ==
    \E p \in DataSegments : p.seq = expect_seq /\ Handle(p)
Fairness ==
    /\ SF_vars(HandleExpected)
    /\ WF_vars(Deliver)
    /\ \A r \in Readers : WF_vars(RecvSee(r)) /\ WF_vars(RecvCopy(r))
FairSpec == Spec /\ Fairness

-----------------------------------------------------------------------------
(* Properties.                                                             *)

\* Every variable has its type.
TypeOK ==
    /\ written \in 0..StreamLen
    /\ expect_seq \in Nat \ {0}
    /\ win \in [Slots -> Nat]
    /\ remain_size \in 1..MAX_RWINDOW_SIZE
    /\ received_buf \in Seq(Nat)
    /\ ack_sent \in [ack : Nat, wnd : 1..MAX_RWINDOW_SIZE]
    /\ hpc \in {"idle", "deliver"}
    /\ hfree \in 0..(MAX_RWINDOW_SIZE - 1)
    /\ rpc \in [Readers -> {"out", "copy"}]
    /\ rlen \in [Readers -> Nat]
    /\ app \in Seq(Nat)

\* get_wnd_free_len scans mark until it meets a 0 and has no other bound: the
\* last slot is never marked, whatever segments arrive and however the window
\* slides, so the scan stays inside the array.
ScanStops == win[MAX_RWINDOW_SIZE - 1] = 0

\* A byte that has been acknowledged is in the application's hands or in
\* received_buf: the peer forgets acknowledged bytes, so one kept nowhere
\* would be lost for good.
AckedIsHeld == ack_sent.ack - 1 <= Len(app) + Len(received_buf)

\* A byte that was kept, out of order or not, is never dropped again: sliding
\* the window, a full receive buffer and an overlapping retransmission all
\* leave it in the window, in received_buf or with the application.
HeldBytes ==
    LET bytes(s) == { s[i] : i \in 1..Len(s) } IN
    bytes(app) \cup bytes(received_buf) \cup ({ win[i] : i \in Slots } \ {0})
NeverReneges == [][HeldBytes \subseteq HeldBytes']_vars

\* The receive buffer and tju_recv implement the byte stream: the bytes the
\* readers get are the peer's, each once, in order, and received_buf never
\* overflows although its free space is checked before the lock is taken.
Stream == INSTANCE ByteStream WITH
    Capacity <- MAX_SOCK_BUF_SIZE,
    held <- received_buf,
    returned <- app
ImplementsStream == Stream!BSpec

\* Every byte the peer writes reaches the application, however often the
\* receiver had to refuse it for want of room: a blocked window is delivered
\* when the segment at expect_seq comes again.
EverythingIsRead ==
    \A n \in 1..StreamLen : (written >= n) ~> (Len(app) >= n)

-----------------------------------------------------------------------------
(* The inductive invariant behind the safety properties.                   *)

\* expect_seq counts exactly the bytes delivered, and they are the stream.
InOrder ==
    /\ expect_seq = Len(app) + Len(received_buf) + 1
    /\ \A i \in 1..Len(app) : app[i] = i
    /\ \A i \in 1..Len(received_buf) : received_buf[i] = Len(app) + i

\* A marked slot holds the byte its position stands for.
WindowAligned ==
    \A i \in Slots : win[i] # 0 => win[i] = expect_seq + i /\ win[i] <= written

\* What the space check established still holds when Deliver runs.
DeliverReady ==
    hpc = "deliver" =>
        /\ hfree > 0
        /\ \A i \in 0..(hfree - 1) : win[i] # 0
        /\ Len(received_buf) + hfree <= MAX_SOCK_BUF_SIZE

\* The inductive invariant: delivery is in order, the window is aligned with
\* expect_seq, the space check of the handler outlives the lock it lacks, no
\* ACK is ahead of expect_seq, and the byte counts stay within the stream.
ReceiverInv ==
    /\ TypeOK
    /\ InOrder
    /\ WindowAligned
    /\ ScanStops
    /\ DeliverReady
    /\ ack_sent.ack <= expect_seq
    /\ expect_seq <= written + 1
    /\ Len(received_buf) <= MAX_SOCK_BUF_SIZE
=============================================================================
