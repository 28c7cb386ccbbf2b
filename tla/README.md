# TJU_TCP: a TLA+ verification project

`src/` is a user-space TCP written for a networking course: connections,
flow control and congestion control on top of a UDP socket that plays the IP
layer. This directory holds TLA+ models of it, the TLC runs that check them, and
TLAPS proofs of their central invariants. Line numbers below are those of the
sources; `timer.c`, `tju_tcp.c`, `syn.c`, `kernel.c` are in `src/src/`, headers
in `src/inc/`.

## 1. The system

Two hosts, fixed by `global.h`: a client and a server. On each, these run:

| thread | code | what it does |
|---|---|---|
| application threads | callers of `tju_*` | connect, listen, accept, send, recv, close |
| `receive_thread` | kernel.c:83 | takes one packet at a time from the UDP socket and runs `onTCPPocket` and `tju_handle_packet` to the end, `sleep()` included |
| `sending_thread` | timer.c:20 | busy loop: sends what the window allows, for the first time |
| `retrans_thread` | timer.c:88 | busy loop: retransmits, or probes a closed window, when the global `RETRANS` is set |
| `timeout_handler` | timer.c:202 | SIGALRM handler of the one-shot interval timer |
| `tju_close_thread` | timer.c:15 | calls `tju_close` for the end that received the first FIN |

Three locks exist: `send_lock` (send buffer), `recv_lock` (receive buffer), and
one per queue. Everything else, `sock->state`, the windows, the flags
`RETRANS`, `TIMEOUT_FLAG` and `is_retransing`, is shared without any.

### Components

**Receiving half of a socket** (tju_tcp.c:250-281, 369-440, 681-687). State:
`expect_seq`, the reassembly window `recv_buf` with its `mark` bytes,
`remain_size`, `received_buf`/`received_len`. Operations: handle a data segment,
`tju_recv`. Hard: the space check is outside `recv_lock`; several readers leave
the spin loop together; overlapping, repeated and reordered segments; a full
buffer. Correct when the application gets the peer's bytes once, in order, all
of them, and no acknowledged byte is dropped.

**Sending half** (tju_tcp.c:226-249, 442-566, timer.c:20-175). State: the send
buffer with `sending_len`, `have_send_len`, `ack_cnt`; `base`, `nextseq`;
`cwnd`, `rwnd`, `ssthresh`, the congestion state; three flags and the timer.
Operations: `tju_send` (a loop that waits for room without the lock and copies
under it), a send pass, a retransmission, a probe, an ACK (old,
duplicate, new), compaction of the buffer, a timeout. Hard: four threads and a
signal, one lock that covers a third of what they share. Correct when each
segment carries the bytes its number stands for, unacknowledged bytes are kept,
the window is respected, and data outstanding is always covered by a timer.

**Retransmission timer** (timer.c:177-206). Armed or not, one shot for the whole
process.

**RTT estimation** (timer.c:62-67, 208-230, tju_tcp.c:519-525). State: the
estimate, the deviation, the interval, and which segment is being measured.
Hard: the arithmetic truncates at each step; a retransmission does not end a
measurement; the interval goes into `tv_usec`, where `setitimer` takes less than a
second only. Correct when the interval covers the round trip and can be armed.

**Packet encoding** (tju_packet.c). No state: a header of 20 bytes in network
order, then the data. Correct when every field is read back as it was written,
within its width.

**Connection establishment** (tju_tcp.c:87-224, 286-334, syn.c): `tju_connect`,
`tju_listen`, `tju_accept`, the SYN queue and the accept queue. Hard: every
handshake packet can be lost, repeated or late, and the client's SYN leaves
before its socket can be found. Correct when both ends agree that there is a
connection.

**Connection teardown** (tju_tcp.c:335-367, 579-679, timer.c:15): `tju_close` and the FIN
branches. Hard: three threads of one end write `state`; the handler sleeps in
the middle; ACKs of FINs are sent once; simultaneous close. Correct when no end
finishes before the other has closed, and `tju_close` returns.

**Dispatch and simulated network** (kernel.c): established sockets first,
then listening ones, looked up by `cal_hash`; packets travel over UDP.

**Not modelled**: the event log (output only), `syn_retrans_thread` (dead: the
call that starts it is commented out), the programs and tests (callers). Section 7
has the parts of modelled components that are left out.

### Hazards

`PROJECT.json` lists each hazard at its line with the properties that cover it.
In short: unlocked pairs of reads and writes (`ack_cnt`/`base`, lengths/`ack_cnt`
during compaction, flags), values read before a lock and used after it, requests
that arrive during what would serve them and are erased at its end, lost and late
control packets, numbers that mean several things (1 acknowledges the SYN, the
SYN_ACK and the FIN, and announces the first data byte), unbounded scans, and
buffers at their limit.

## 2. Modules

| module | models | used by |
|---|---|---|
| `ByteStream` | abstract: what one direction of a connection promises | `Receiver`, `Transfer` (INSTANCE), `ByteStreamProofs` |
| `Lifecycle` | abstract: what connecting, accepting and closing promise | `Connection` (INSTANCE) |
| `Receiver` | the receiving half | `MCReceiver`, `ReceiverProofs` |
| `Sender` | the sending half, its timer, flow and congestion control | `MCSender`, `SenderProofs` |
| `Connection` | handshake, queues, accept, teardown, dispatch | `MCConnection`, `ConnectionProofs` |
| `Transfer` | one direction end to end: `Sender`, `Receiver` (INSTANCE) and the network between them | `MCTransfer`, `TransferProofs` |
| `Rto` | RTT measurement, the interval, `setitimer` | `MCRto`, `RtoProofs` |
| `SendCall` | `tju_send` by several callers against compaction | `MCSendCall`, `SendCallProofs` |
| `Packet` | the bytes of a packet | `PacketProofs` |
| `ReceiverProofs`, `SenderProofs`, `ConnectionProofs`, `RtoProofs`, `SendCallProofs`, `PacketProofs`, `ByteStreamProofs`, `TransferProofs` | TLAPS proofs | the last instantiates the first two |

Operators whose name ends in `Mut` are used by no definition. Each is a
plausible mistake in the operator that follows it, and `PROJECT.json` names the
property that it would violate: a check that the properties depend on the code.

### Abstractions common to the models

*Bytes.* The k-th byte of a stream is the number k, under sequence number k (data
starts at 1 on both sides). Payload that is misplaced, repeated or lost is then
visible as a wrong number. Sequence numbers are naturals, not `uint32_t`.

*Network.* `Receiver` and `Sender` never remove a packet: any segment ever sent
may be handled at any time, any number of times, or never; this is loss,
duplication and reordering together. `Sender` represents the peer by `reached`,
the highest number it can acknowledge: it may send any ACK up to that in any
order (in TCP a cumulative ACK may lag behind, be repeated or overtaken).
`Transfer` and `Connection` keep sets of packets in flight, because their liveness
depends on what is still there: `Took` may leave a copy behind (duplication), `Lose` and a
full network drop one (loss), and a set has no order (reordering).

*Steps.* A step is the stretch of one thread between two accesses to shared
variables whose interleaving can matter. What is under a lock, and touched by
others only under it, is one step. The merged stretches are named at the action.
`clock()` timers become "may fire at any time" (`Rto` alone has times). A flag or length that a busy loop
polls is read when the loop's test succeeds.

### Receiver

| action | code |
|---|---|
| `PeerWrite` | the peer's application (environment) |
| `HandleOld` | 428-439, `seq < expect_seq`: ACK only |
| `HandleGap` | 374-384, 417-427 when `mark[0]` is 0 |
| `HandleBlocked` | 387-393: no room, the advertised window shrinks |
| `HandleFits`, `Deliver` | 394-427, split at the lock: readers run in between |
| `RecvSee`, `RecvCopy` | `tju_recv`: the unlocked loop, the critical section |

`win[i]` stands for `mark[i]` and `recv_buf[i]` together (0: not marked).
`DataSegments` are all slices of what the peer has written, so retransmissions
may be cut differently from the originals; `Probes` are the empty window probes,
numbered below `expect_seq`.

### Sender

`S_...` are steps of `sending_thread`, `R_...` of `retrans_thread`, `K_...` of
`receive_thread` in the ACK branch; `AppSend` is `tju_send`, `Timeout` is
`timeout_handler`. One step ends wherever another thread can see, or spoil, what was
done so far:

| steps | code |
|---|---|
| `S_Guard`, `S_ReadBase`, `S_Lock` | timer.c:24-37: the window is read in pieces before the lock |
| `S_Send`, `S_Start`, `S_Account`, `S_Finish` | 38-83: a segment leaves, its timer is started, it is counted, `nextseq` shows it |
| `R_Wake`, `R_Probe`, `R_Open`, `R_Begin`, `R_Clear`, `R_Recheck` | 91-113: each test, the clearing of `RETRANS`, the second look |
| `R_Lock`, `R_Collapse`, `R_ReadAck`, `R_ReadBase` | 115-135: the window after a timeout computed and written, the snapshot of `ack_cnt`, of `base` |
| `R_Resend`, `R_Rearm`, `R_Finish` | 137-172 |
| `K_Old`, `K_Dup` | tju_tcp.c:445-489 |
| `K_New`, `K_Base` | 491-528, 529: `ack_cnt`, then `base` |
| `K_Test`, `K_Stop`, `K_Unmark`, `K_Restart`, `K_Mark` | 532-541: the test, the timer, the mark |
| `K_CompactTest`, `K_Compact`, `K_Clear` | 544-555: test, lengths, `ack_cnt` |
| `K_ZeroTest`, `K_Zero` | 561-565 |

These accesses share a step, because their interleavings add nothing that the
properties tell apart:

- `startTimer` (177-191): arming comes after the two flags are cleared, so whatever
  falls between finds the timer armed at the end.
- 483-484, 170-171, 563-564 and 109-110, each a flag and a mark: what comes between
  leaves more requested, or the mark cleared, than the step does.
- 159-161 in `R_Rearm`: an ACK between the two leaves a mark that `R_Finish`, still
  to come, clears.
- 72-78: the mark and the count in `S_Account` are seen by no test together.
- 107 compares two variables; to see one of them before and one after `K_Compact`
  is what `R_Recheck` sees inside the compaction.
- 24-31 in `S_Guard`: tests that pass on mixed values lead to an empty pass, which
  other windows give as well; a limit read inside a compaction is `outdated`.
- 32-33: `nextseq` is written by the reading thread only.
- 96-102 in `R_Probe`: an ACK of the probe before the timer starts is one that comes
  after and finds nothing to stop.
- `cwnd`, `ssthresh` and the window computed from them: two threads may lose each
  other's update. The properties depend on whether the window is 0 and on its largest
  value only; `receive_thread` looks at the window it wrote once more (561), and
  `retrans_thread` writing it after that is `R_Collapse`.

Three history variables name races that the code has; no guard reads them.
`overlap`: retrans_thread's pair of reads crossed receive_thread's pair of writes.
`mistimed`: one of the other six listed at `StallsAreRaces`. `outdated`: the buffer
was compacted between `sending_thread`'s reading of `ack_cnt` and its use of it in
this pass.

Left out: `tju_send` calls that do not fit (`SendCall`), RTT measurement and a
failing `setitimer` (`Rto`). ACK number 1 is not explored
before the first segment was sent (`reached > 1`): repeated handshake ACKs would
only add to `same_ack_cnt`.

### Connection

Each end has `state`, an entry in the hash table or not (`hashed`), `packet_FIN`,
its threads' positions `pc` (application and `tju_close_thread`), the position of
`receive_thread` (`kpc`, asleep in a handler or not) and `gone`, how its socket
ended: freed by `tju_close`, or with the whole process (`exit(-1)` when
`tju_close` is called in the wrong state). Actions follow the calls
(`ConnectSend` ... `ConnectReturn`, `AcceptTake`, `AcceptRegister`, `CloseActive`
... `CloseReturn`) and the handler's branches (`ListenSyn`, `ListenAck`,
`HandleSynSent`, `HandlePeerFin`, `SendOwnFin`, `HandleFinAcked`,
`HandleBothClose`, `HandleTimeWait`, `TimeWaitEnd`, `HandleLastAck`). A packet no
branch wants is dropped, which is `Lose`. Data appears as `DataAck`: an ACK with one
of the numbers `DataAcks`. The code acknowledges data with any `expect_seq`
(tju_tcp.c:419, 431); with the numbers of `global.h` only 1, sent for data that arrives
before the first expected byte, is also one that acknowledges a SYN or a FIN, so the
runs have `DataAcks = {1}`. Safety was explored with `{1, 2}` too (155,283 states).

There is one client and one connection, so each queue is the one slot its hash
value selects: a second SYN or ACK meets the slot taken or empty as in
`en_syn_queue`, `get_from_syn` and `en_accept_queue`. A thread that would go on
with a freed socket is not followed: it uses freed memory.

### Transfer

The variables are those of `Sender` and `Receiver`, joined by two sets, `data` and
`acks`, in place of the environments of the parts: the segments handled are the
ones `S_Send`, `R_Resend` and `R_Probe` built (`Emit`, that is `sendToLayer3`), the
ACKs handled the ones the receive branch sent, with their window (`TakeData`,
`Deliver`). `written`, the bytes given to `tju_send`, is what `Receiver` calls the
peer's stream. `AppSend` of the sender is at once `PeerWrite` of the receiver.
Each process has its own `receive_thread`: `AckThread` in one, `DataThread` in the
other; the other direction of the connection is idle, so its fields of the packets
are left out.

`faults` counts losses, duplicates and premature timeouts (a timeout while a
thread is busy or a message in flight); the run bounds them. A timeout when nothing
else can happen is free.

### Rto

Microseconds, with every division truncated as the conversion to `uint64_t` does.

| action | code |
|---|---|
| `SendWindow` | timer.c:62-74: the first segment is measured, the timer started |
| `SendMore` | timer.c:62-78 after a retransmission cleared `is_retransing`: measured only when nothing is |
| `Expire`, `FastRetransmit` | `timeout_handler`, or the third duplicate ACK, then timer.c:137-171 |
| `Ack` | tju_tcp.c:519-541: a sample if the ACK is for exactly the measured segment, then `stopTimer` or `startTimer` |

`measured` joins `is_estimating_rtt` and `rtt_expect_ack`: which of the outstanding
segments is measured, 0 for none. `waited` is the time from `send_time` to the last
retransmission, so the sample an ACK gives is `waited` plus one round trip.
`StartTimer` arms the timer or, from a second on, leaves it as it was: `setitimer`
fails, and timer.c:187-190 prints that and goes on. Each pass of a thread is one
step: their races are `Sender`'s.

### SendCall

| action | code |
|---|---|
| `Call`, `Leave`, `See` | the call and the unlocked loop (tju_tcp.c:226-230) |
| `Fit`, `Cut` | the critical section (231-245), whole or in part |
| `Acknowledge`, `Test`, `Compact` | `receive_thread` (527-529, 544, 547-555) |

A byte in `sending_buf` is a triple: caller, place in the call, length of the call.
`Cut` shows what line 241 does to lines 242-243: `Advance`, the room that is left, is
computed from the new `sending_len` and is 0. So `tmp_buffer` and `tmp_len` do not
move, and the call copies its beginning again when there is room.

### Packet

`packet_to_buf` is a function from offsets to bytes, `get_...` read it. Arguments
are truncated to the parameters' widths, which matters for `adv_window` only.

## 3. Runs

TLC, one instance each. "Violation" runs each check one statement of a comment
of the sources that the code does not keep; the counterexample is the finding.

| run | result | states | shows |
|---|---|---|---|
| `receiver` | pass | 8,766 | delivery once, in order, complete; two readers; a buffer that fills |
| `sender` | pass | 2,861,770 | right bytes under right numbers, nothing forgotten, stalls only after the named races, the window left only after a compaction |
| `connection` | pass | 111,999 | handshake and teardown over the lossy network |
| `transfer` | pass | 230,880 | the two halves keep what each assumes of the other; the stream arrives, whatever is lost |
| `rto` | pass | 1,076,274 | when `setitimer` refuses the interval, and the floor the interval has |
| `sendcall` | pass | 609,624 | what a call that does not fit does to the stream, and to the other callers |
| `torn_snapshot` | violation | | a retransmission after an overlap carries wrong bytes |
| `silent_stall` | violation | | data unacknowledged, no timer, no request, forever |
| `lost_third_packet` | violation | | `tju_connect` returns, `tju_accept` never does |
| `close_hangs` | violation | | both ends in `tju_close` for ever |
| `stale_fin_ack` | violation | | an ACK of something else acknowledges the FIN |
| `repeated_bytes` | violation | | a call that does not fit queues its first bytes twice |

**receiver.** `TypeOK`; `ScanStops` (the unbounded scan of `mark` stays in the
array); `AckedIsHeld`; `ReceiverInv`, the inductive invariant; `NeverReneges` (a
byte once kept is never dropped, also out of order); `ImplementsStream`
(refinement of `ByteStream`, which includes that `received_buf` never overflows);
`EverythingIsRead` (liveness).
Bounds: segments up to 2, window 5, buffer 4, stream 8, two readers that ask for 1
or 3. The window is larger than the buffer's free space most of the time, as many
segments fit a window as are needed for gaps on both sides of a segment, and the
stream turns both over. The code's proportions differ (window 44,000, buffer
8,400,000) but only their order enters, and the proofs cover all sizes.

**sender.** `TypeOK`; `SegmentsAreFaithful`; `BufferIsSound`; `StallsAreRaces`;
`OverrunsAreOutdated`; `SenderInv`, the inductive invariant. Bounds: segments up to 2,
buffer 4, stream 3, advertised windows 0 and 2, `cwnd` up to 4, compaction from 2 acknowledged
bytes on: enough for several segments in flight, partial ACKs, all three congestion
states, closed windows, compaction by each of its two conditions, and a congestion
window that halves to 0, which closes the window. `BeforeOverlap` is a state constraint:
states with `overlap` are checked but not continued. After an overlap the snapshot of
`retrans_thread` is wrong, the peer holds wrong bytes, and the lengths may leave their
range; only `TypeOK`, the lock and the numbering of first transmissions still hold, and
those are proved without the constraint. The two violation runs do not use it.

`StallsAreRaces` is the precise form of "data outstanding is covered by a timer":
if nothing runs, nothing is armed and data is outstanding, one of the seven races named
there has happened. No stall comes from the sequential logic. In `silent_stall` TLC
shows the shortest stall; it is the race of `R_Recheck` with a segment not yet counted.

`OverrunsAreOutdated`: a first transmission ends beyond the last ACK plus the largest
window the peer advertises only when the pass used an `ack_cnt` from before a
compaction (timer.c:31 and 37). The exception is needed: with segments of 1, a
buffer of 4 compacted above 2, a window of 2 and a stream of 7 TLC finds, at depth
26, a pass that leaves the window by the bytes dropped.

**connection.** `AcceptedIsConnected`; `ClosedByBoth`; `ConnectionInv`, the inductive
invariant, types included; `ImplementsLifecycle` (refinement of `Lifecycle`: the
handshake ends at the client before the server, only an open end sends its FIN, a
socket is freed only after both FINs, and none of this is ever taken back); liveness
`ClientConnects` and `CloseReturns`. Sequence numbers are the 0s of
`global.h`. `MaxInFlight` 2 lets a late packet meet a fresh one. Safety was also
explored with 3, 4 and no limit (up to 988,000 states), with the same result.
`CloseReturns` says that `tju_close` returns except in the listed ways to be
`Wedged`; each of them is reachable and one is the finding `close_hangs`. With
`FIN_SEQ` 5 and `DataAcks` {1, 2} `FinAckIsForFin` and the invariant `OwnNumberInv`
hold on all 171,135 states; with `FIN_SEQ` 1, whose ACK has the number of the second
byte's, TLC finds `FinAckIsForFin` violated again. Section 4 proves what separates the
two cases.

**transfer.** `TransferInv`, what the two halves and the network know of each
other, `SenderInv` and `ReceiverInv` included; `NothingIsLost`; `RestIsDone` (the
safety side of `CatchesUp`: when no thread works, nothing is in flight and nothing
is armed or requested, the stream is complete); `FeedsSender` and
`FeedsReceiver`: every step of the composition is a step of `Sender`'s and of
`Receiver`'s specification, so what is shown of the parts with their generous
environments holds here; `ImplementsStream`: end to end, a `ByteStream`;
`CatchesUp`: liveness. Bounds: one byte a segment, a send buffer of 2, a window
of 3, a stream of 3, 1 fault: the buffer fills and is compacted, the receive
window wraps, segments overtake each other, and a loss, a duplicate or an early timeout
falls anywhere in between. The theorems cover any number of faults. `MaxCwnd` 8 is never reached. `BeforeRace` is a state constraint: states with
`overlap` or `mistimed` are not continued. For safety that is the exception the
properties make; `CatchesUp` is met by such a state, because both variables stay
true once they are.

**rto.** `RtoInv`, the inductive invariant; `TimerCoversWindow`;
`RefusedAfterAmbiguity`; `IntervalCoversRoundTrip`. The constants are the code's
own: 200 ms, 500 ms, a second. Round trips of 1 ms, 60 ms and 222.221 ms, the last
being the longest the theorem admits; windows of 2, 3 samples, 2 retransmissions of
a window: one sample over two retransmissions already exceeds a second. A segment
that is lost twice on a network of 50 ms waits 500 ms twice, is measured as
1,050 ms, and leaves an interval of 1,049,998: from then on `setitimer` fails, and
the next loss is repaired by three duplicate ACKs or not at all. `TCP_RTO_MIN`, in
spite of its comment (global.h:78, 最短超时重传间隔, the shortest interval), is the first
estimate and no lower bound: what the interval stays above is the fastest sample. Each
pass of a thread is one step here, so `TimerCoversWindow` speaks of the interval and
of `setitimer`; the windows that lose their timer when passes interleave are the
stalls of `Sender`.

**sendcall.** `TypeOK` (several callers that saw the same room never overrun the buffer);
`CallsAreWhole`; `OnlyRestarts`; `ReturnedIsQueued`; `SomeCallReturns`, liveness.
`repeated_bytes` has the same bounds: `EachByteOnce` is what tju_tcp.c:227-228 say of
`tmp_buffer` and `tmp_len`. Two callers, a buffer of 4 that is
compacted when more than 2 bytes are acknowledged, calls of 0, 1, 2 and 4 bytes:
empty, often fitting, fitting after a compaction only, and longer than one frees.
The exception in `SomeCallReturns` is needed: without it TLC finds two long calls, or
one, that fill the buffer with their beginnings for ever. In the code that takes
calls of more than 6,720,001 bytes; bytes are sent twice already when a call is
longer than the room it finds.

Deadlock is not checked: a stream that has been sent, or a connection that is
closed, is a proper end; the busy loops of a finished system do nothing.

### Fairness

*Receiver.* `receive_thread` and the readers run on (WF). The segment at
`expect_seq` is sent again and again by the peer's `retrans_thread` and not always
lost, so it is handled infinitely often if it is possible infinitely often (SF):
between two arrivals the handler is busy, hence strong fairness. Nothing else the
network does is assumed.

*Connection.* Threads run on: WF of connect, accept, the sleeping handler, and
`tju_close` once called. SF of each packet-handling step: `tju_connect` and
`tju_close` send their packet again whenever their timer expires, so one of the
copies arrives. For packets that are sent only once SF assumes nothing, because
they may be lost by `Lose` and are then not there to be handled. An application
need not call `tju_close` at all.

*Transfer.* Threads run on and messages that are not lost arrive (WF of each
thread, of the readers, and of taking messages without duplicating them). An
armed timer expires if nothing disarms it (WF of `Timeout`). SF of `K_Compact`: it
waits for `send_lock`, which `retrans_thread` and `sending_thread` take and release
for ever; a mutex that is free infinitely often is obtained at some time, which
the code relies on and `pthread_mutex_lock` does not promise in so many words: that
`receive_thread` might never get it is a hazard this run assumes away.
Losses are bounded by `MaxFaults`, not by fairness.

*SendCall.* The callers and `receive_thread` run on (WF), and what is sent is
acknowledged (WF of `Acknowledge` as part of `receive_thread`, the promise of
`CatchesUp`). Nobody has to call `tju_send`; no caller is promised the lock, hence
*some* call returns.

*Rto.* None: its properties are about safety.

*Sender.* No fairness: its liveness statement is the safety property
`StallsAreRaces`.

## 4. Proofs

For every value of the constants under `SizesAssumption`, `SenderAssumption`,
`NumbersAssumption`, `RtoAssumption`, `SendCallAssumption` and `TransferAssumption` (sizes are natural numbers, a segment fits the window, the
window exceeds the buffer by at most one, advertised windows are bounded), and
with no bound on the number of readers or of packets in flight.

| theorem | statement |
|---|---|
| `ReceiverCorrect` | `Spec => []ReceiverInv` |
| `ReceiverTypes`, `ScanStaysInside`, `AckedBytesAreHeld` | its consequences |
| `ReceiverImplementsStream` | `Spec => ImplementsStream` |
| `ReceiverNeverReneges` | `Spec => NeverReneges` |
| `SenderCorrect` | `Spec => []SenderInv` |
| `SenderTypes`, `FaithfulSegments`, `SoundBuffer`, `StallsNeedRaces`, `OverrunsNeedCompaction` | its consequences |
| `ConnectionCorrect` | `Spec => []ConnectionInv` |
| `ConnectionTypes`, `AcceptedConnections`, `ClosedConnections` | its consequences |
| `ConnectionImplementsLifecycle` | `Spec => ImplementsLifecycle` |
| `OwnNumberSuffices` | `FinHasOwnNumber => (Spec => []FinAckIsForFin)` |
| `TransferIsInvariant` | `Spec => []TransferInv` |
| `BytesAreKept`, `RestIsCompletion` | its consequences |
| `SenderIsFed`, `ReceiverIsFed` | `Spec => FeedsSender`, `Spec => FeedsReceiver` |
| `TransferImplementsStream` | `Spec => ImplementsStream`, end to end |
| `RtoIsInvariant` | `Spec => []RtoInv` |
| `WindowIsCovered`, `RefusalNeedsAmbiguity`, `IntervalHasFloor` | its consequences |
| `SendCallTypes`, `FittingCallsAreWhole`, `PrefixesRepeat`, `ReturnMeansQueued` | `Spec =>` the four safety properties of `sendcall` |
| `StreamsAreExact` | `Capacity \in Nat => (BSpec => []StreamIsExact)`: what a refinement of `ByteStream` is worth |
| `PacketRoundTrip` | what `create_packet_buf` lays out, `get_...` and the copy of the payload read back |
| `WindowFits` | an advertised window survives 16 bits up to 47 segments, and not from 48 to 64 |

**Receiver.** The safety properties are not inductive: that the scan stops needs
the window aligned with `expect_seq` (`WindowAligned`), that an ACK is backed needs
`expect_seq` to count the delivered bytes exactly (`InOrder`), and that delivery
does not overflow needs the space check of `HandleFits` to survive until `Deliver`
though no lock is held (`DeliverReady`: readers only make room). Each action is
one step of the proof. The refinement maps `Deliver` to `Accept(hfree)`,
`RecvCopy` to `Return(n)`, `PeerWrite` to `Write`, everything else to a stutter.
`NeverReneges` follows from seeing what is held as the numbers below `expect_seq`
and those marked in the window: a step unmarks a slot only as `expect_seq` passes it.

**Sender.** `SenderInv` has three parts. `DataInv` relates `base`, `nextseq`, `ack_cnt`, the lengths and the
threads' local copies: position in the buffer plus `compacted` equals sequence
number, with the exceptions the unlocked writes create (`kpc = "base"`,
`kpc = "clear"`, `spc = "account"`). `LockHolder` and `NextseqInv` hold always,
the rest until an overlap. The key case is a compaction that subtracts an
`ack_cnt` that is momentarily ahead of `have_send_len`: `ReachedInv` bounds it,
and the lock makes the compaction wait for the send pass to account.

`CoverInv` is why the sender stalls only in a race. Its one idea is `Requested`: the
timer is armed or `RETRANS` is set, so `retrans_thread` will run. Until a race, every
closed window, every byte sent and not acknowledged, and `is_retransing`, which silences
`sending_thread`, has a request or a thread on its way to see to it
(`NothingForgotten`). Most steps only ever add requests; the proof is about those that
take one away, or act on what was tested earlier:

- `S_Start` starts the timer for the first segment of a window, which it recognises
  because `wnd_base` is still `base` (`PassIsCurrent`);
- `K_Stop` stops the timer on the verdict of `K_Test`, which must still be true
  (`VerdictInv`): nothing is outstanding and nothing has been sent since;
- `K_Unmark`, `K_Restart` and `K_Mark` act on the same verdict;
- `R_Clear` and `R_Finish` erase requests, and `R_Recheck` makes up for the first when
  it sees unacknowledged data;
- `R_Collapse` writes a closed window over a closed one only.

In each of these, what another thread may have done in between is a disjunct of
`mistimed'`; those disjuncts are the list at `StallsAreRaces`.

`LimitInv` follows the limit of a send pass from `S_Guard` to the last segment: it
stays within the largest window because the last ACK only grows, and the lock keeps
the buffer from moving once it is held.

**Connection.** Packets in flight testify to what their sender has done: an ACK
to the server means a connected client (`HandshakeInv`), a FIN means that its
sender has built one (`FinInv`), and an end past CLOSE_WAIT has seen the peer's
(`PeerFinInv`). The proof does not use `MaxInFlight`: `Held` only ever removes
packets. `NotOpenInv` adds that an end whose handshake has not ended has no thread that
could close it; with it each step is a step of `Lifecycle` or stutters: `HandleSynSent`
and `AcceptTake` open, `CloseActive` and `SendOwnFin` shut, `CloseReturn` ends.

`OwnNumberSuffices` is the counterpart of the finding `stale_fin_ack`. Its hypothesis,
`FinHasOwnNumber`, is not true of the code, where all three numbers are 0; it makes
precise what the comment at global.h:28, that `FIN_SEQ` is random, is for: `FIN_SEQ`
is not the number of a SYN, and `FIN_SEQ + 1` is the number of no ACK of data
(`FIN_SEQ + 1 \notin DataAcks`), whatever other numbers those carry. Then the handlers
are right as they are: an ACK with number `FIN_SEQ + 1` comes only from an end that the
FIN took out of ESTABLISHED (`FinAckedInv`), which it never enters again, and an end goes
on to FIN_WAIT_2, TIME_WAIT or CLOSED only with such an ACK or a FIN.

**Transfer.** What `SenderProofs` and `ReceiverProofs` show of a step of the parts is
used as it is: `TransferProofs` instantiates both and shows that its instances are
`Transfer`'s. What is left is that the composition supplies the steps the parts
allow. The steps of the sending half are sorted into those that send (`Sends`),
those that take an ACK (`TakesAck`) and the rest (`Silent`), and each sort meets
`Shared`, the invariant on what crosses the network: segments and marked window slots
lie below `reached` (`FlightIsSent`, `ReceivedWasSent`), ACKs at or below `expect_seq`
(`AcksAreDelivered`), so every ACK in flight is one `Sender` can be given.
`NothingBeforeFirst` is there because `Sender` takes no ACK before the first segment.
This half needs no faithful bytes, so `SenderIsFed` holds even after an overlap. That
the segments are slices of the stream (`FlightIsFaithful`) is `SenderInv`'s, until an
overlap; with it every step is `Receiver`'s, and the byte stream follows.
`RestIsCompletion` joins both: at rest, and unless one of the seven races happened,
`CoverInv` leaves no byte unsent or
unacknowledged, so `base` is behind the last byte written, `AcksAreDelivered` puts
`expect_seq` there too, and `InOrder` counts the bytes held and read up to it.

**Rto.** Until a sample is ambiguous, the estimate stays between the fastest sample
and `MaxRtt`, the deviation below `MaxDev`, seven eighths of it: then the interval is
at most `MaxRtt + 4 * MaxDev`, less than a second when `9 * MaxRtt + 7` is less than
two. `RtoAssumption` says so; it is enough, not necessary, because estimate and
deviation are not both at their largest at once. The floor follows by cases on whether
the sample is above the estimate: where the truncated average falls below the
sample, four truncated deviations make up for it.

**SendCall.** `CallsAreWhole`, `OnlyRestarts` and `ReturnedIsQueued` are about the buffer
as it stands. The proof's own invariant adds to them where a call that waits stands, which
is at its first byte: the flaw that `repeated_bytes` shows. Lemmas say what appending a
call's bytes and dropping a front do to each of the three.

**Packet.** Byte by byte: division and remainder by 256 and 65536.

**ByteStream.** Four lines, each preserved by appending the right bytes and by moving a
front from one sequence to the other. With `ReceiverImplementsStream` and
`TransferImplementsStream` it says what the applications get.

**Only model-checked**: all liveness (`EverythingIsRead`, `ClientConnects`,
`CloseReturns`, `CatchesUp`, `SomeCallReturns`), which is out of the prover's reach. Of
the safety properties of the passing runs every one is proved.

## 5. Findings

1. `torn_snapshot` (timer.c:133-135 with tju_tcp.c:528-529).
2. `silent_stall` (timer.c:106 and 170).
3. `lost_third_packet` (tju_tcp.c:290).
4. `close_hangs` (tju_tcp.c:580-597, 612-624).
5. `stale_fin_ack` (global.h:25, 29 with tju_tcp.c:580, 613, 619).
6. `repeated_bytes` (tju_tcp.c:241-243).

`PROJECT.json` quotes for each the line of the sources it contradicts.

The passing runs and the theorems record more that the sources do not intend, as the
exception or the bound of a property that holds:

- A send pass leaves the peer's window after a compaction (timer.c:31, 37), against
  the comment at timer.c:36, 只发送窗口中未发送的数据 (send only what is in the window and
  unsent): the exception of `OverrunsAreOutdated`.
- `TCP_RTO_MIN`, by global.h:78 the shortest interval, is not kept as one:
  `IntervalCoversRoundTrip` has the fastest sample in its place.
- The timer is given up for good after an ambiguous sample (timer.c:187, 227):
  `RefusedAfterAmbiguity`.
- A long `tju_send` may never end, nor let others end: `SomeCallReturns`.
- The window sizes of 48 segments and more in `test/avg_throughput_wnd.py` do not fit
  the header: `WindowFits`.

## 6. Plan

Every module planned is written and every safety property of the passing runs is proved.
What is left is in section 7.

## 7. Not modelled

- A second connection: several acceptors, several clients, the tables of `cal_hash`
  with their collisions (models take each lookup to find what was stored), and the windows and buffers that accepted sockets share
  with the listening one (tju_tcp.c:308). Every program of the repository accepts
  once, and `tju_connect` always uses the same local port. For the one connection
  `cal_hash` gives the same slot at every call, although its addresses are negative as
  `int` and their sum overflows; the index of the listening socket is -11, outside
  its table (tju_tcp.c:104), which is undefined.
- The address that `tju_connect` sets only after ESTABLISHED (tju_tcp.c:199): an ACK
  of data that goes to the unset port until then is a lost one.
- What a thread does with a socket after it was freed (undefined behaviour in
  every close).
- Wraparound of 32-bit sequence numbers: a stream of 4 GB.
- FINs while data is in flight: `Connection` has the ACKs of data, not the data.
- In `Rto` the probes of a closed window, which use the timer but take no sample.
- `syn_retrans_thread` (never started), the event log, the set-up of sockets and
  threads (`startSimulation`, `tju_bind`), the programs and the test scripts.
