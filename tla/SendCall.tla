------------------------------ MODULE SendCall ------------------------------
(***************************************************************************)
(* tju_send: threads of the application copy the bytes of their calls into *)
(* sending_buf, each waiting in an unlocked loop for room, while           *)
(* receive_thread drops acknowledged bytes from the front.                 *)
(*                                                                         *)
(* A call that does not fit fills the buffer and tries again.  It sets     *)
(* sending_len before it computes how far it came (241-243), finds that it *)
(* came nowhere, and copies everything again when there is room.  Sender   *)
(* and Transfer see the bytes of the buffer and number those; this module  *)
(* is about whose bytes they are, and whether the call ends.               *)
(***************************************************************************)
EXTENDS Integers, Sequences

CONSTANTS
    Callers,            \* threads that call tju_send
    Lens,               \* lengths of their calls
    MAX_SOCK_BUF_SIZE,  \* size of sending_buf
    COMPACT_AT          \* the code's 4*MAX_SOCK_BUF_SIZE/5

ASSUME SendCallAssumption ==
    /\ Lens \subseteq Nat
    /\ MAX_SOCK_BUF_SIZE \in Nat /\ COMPACT_AT \in 0..MAX_SOCK_BUF_SIZE

VARIABLES
    sending_buf,    \* of triples: caller, place in its call, length of the call
    ack_cnt,        \* wnd_send->ack_cnt
    pc, len, tmp_len,   \* per caller: out, waiting or locking; its locals
    kpc,            \* receive_thread: idle, testing, compacting
    cut,            \* history: a call was copied in part
    returns         \* history: the parity of the calls that returned

vars == <<sending_buf, ack_cnt, pc, len, tmp_len, kpc, cut, returns>>

sending_len == Len(sending_buf)

\* Operators named ...Mut are mutants, used by no definition: each is what the
\* operator after it could have been, had the code a plausible bug.

RoomMut == MAX_SOCK_BUF_SIZE + 1 - sending_len
Room == MAX_SOCK_BUF_SIZE - sending_len

Init ==
    /\ sending_buf = <<>>
    /\ ack_cnt = 0
    /\ pc = [c \in Callers |-> "out"]
    /\ len = [c \in Callers |-> 0]
    /\ tmp_len = [c \in Callers |-> 0]
    /\ kpc = "idle"
    /\ cut = FALSE
    /\ returns = 0

-----------------------------------------------------------------------------
(* tju_send.                                                               *)

\* The next n bytes from tmp_buffer on.
Bytes(c, n) == [i \in 1..n |-> <<c, len[c] - tmp_len[c] + i, len[c]>>]

Call(c, n) ==
    /\ pc[c] = "out"
    /\ pc' = [pc EXCEPT ![c] = "wait"]
    /\ len' = [len EXCEPT ![c] = n]
    /\ tmp_len' = [tmp_len EXCEPT ![c] = n]
    /\ UNCHANGED <<sending_buf, ack_cnt, kpc, cut, returns>>

Return(c) ==
    /\ pc' = [pc EXCEPT ![c] = "out"]
    /\ returns' = 1 - returns
    /\ UNCHANGED <<len, tmp_len>>

\* The unlocked loop: over for an empty call that finds the buffer full, ...
Leave(c) ==
    /\ pc[c] = "wait"
    /\ Room <= 0 /\ tmp_len[c] = 0
    /\ Return(c)
    /\ UNCHANGED <<sending_buf, ack_cnt, kpc, cut>>

\* ... spinning while there is no room, and locking when there is.
See(c) ==
    /\ pc[c] = "wait"
    /\ Room > 0
    /\ pc' = [pc EXCEPT ![c] = "lock"]
    /\ UNCHANGED <<sending_buf, ack_cnt, len, tmp_len, kpc, cut, returns>>

\* The critical section when all the rest fits, ...
Fit(c) ==
    /\ pc[c] = "lock"
    /\ Room >= tmp_len[c]
    /\ sending_buf' = sending_buf \o Bytes(c, tmp_len[c])
    /\ Return(c)
    /\ UNCHANGED <<ack_cnt, kpc, cut>>

\* ... and when it does not.  tmp_buffer and tmp_len advance by the room that
\* is left after the buffer was filled.
AdvanceMut(c) == Room + 1
Advance(c) == MAX_SOCK_BUF_SIZE - Len(sending_buf')
Cut(c) ==
    /\ pc[c] = "lock"
    /\ Room < tmp_len[c]
    /\ sending_buf' = sending_buf \o Bytes(c, Room)
    /\ tmp_len' = [tmp_len EXCEPT ![c] = @ - Advance(c)]
    /\ pc' = [pc EXCEPT ![c] = "wait"]
    /\ cut' = (cut \/ Room > 0)
    /\ UNCHANGED <<ack_cnt, len, kpc, returns>>

Caller(c) ==
    \/ \E n \in Lens : Call(c, n)
    \/ Leave(c) \/ See(c) \/ Fit(c) \/ Cut(c)

-----------------------------------------------------------------------------
(* receive_thread: a new ACK, see Sender for its other effects.            *)

Acknowledge(n) ==
    /\ kpc = "idle"
    /\ ack_cnt + n <= sending_len
    /\ ack_cnt' = ack_cnt + n
    /\ kpc' = "test"
    /\ UNCHANGED <<sending_buf, pc, len, tmp_len, cut, returns>>

MustCompactMut == sending_len > 0 /\ ack_cnt > 0
MustCompact ==
    /\ sending_len > 0
    /\ ack_cnt = sending_len \/ ack_cnt > COMPACT_AT
Test ==
    /\ kpc = "test"
    /\ kpc' = IF MustCompact THEN "compact" ELSE "idle"
    /\ UNCHANGED <<sending_buf, ack_cnt, pc, len, tmp_len, cut, returns>>

\* What stays of the buffer, taken under the lock.
KeptMut == SubSeq(sending_buf, 1, sending_len - ack_cnt)
Kept == SubSeq(sending_buf, ack_cnt + 1, sending_len)
Compact ==
    /\ kpc = "compact"
    /\ kpc' = "idle"
    /\ sending_buf' = Kept
    /\ ack_cnt' = 0
    /\ UNCHANGED <<pc, len, tmp_len, cut, returns>>

ReceiveThread ==
    \/ \E n \in 1..MAX_SOCK_BUF_SIZE : Acknowledge(n)
    \/ Test \/ Compact

Next == (\E c \in Callers : Caller(c)) \/ ReceiveThread

Spec == Init /\ [][Next]_vars

\* All threads run, and what is sent is acknowledged in the end.  Nobody has
\* to call tju_send, and the lock is given to no one in particular.
Fairness ==
    /\ \A c \in Callers : WF_vars(Leave(c) \/ See(c) \/ Fit(c) \/ Cut(c))
    /\ WF_vars(ReceiveThread)
FairSpec == Spec /\ Fairness

-----------------------------------------------------------------------------
(* Properties.                                                             *)

\* Types and ranges: the bytes never exceed the buffer, although a caller's look at
\* the room is unlocked, and no more than what is there is acknowledged.
TypeOK ==
    /\ sending_buf \in Seq(Callers \X (Nat \ {0}) \X Lens)
    /\ sending_len <= MAX_SOCK_BUF_SIZE
    /\ ack_cnt \in 0..sending_len
    /\ pc \in [Callers -> {"out", "wait", "lock"}]
    /\ len \in [Callers -> Nat] /\ tmp_len \in [Callers -> Nat]
    /\ \A c \in Callers : pc[c] # "out" => len[c] \in Lens
    /\ kpc \in {"idle", "test", "compact"}
    /\ cut \in BOOLEAN /\ returns \in {0, 1}

\* Byte y may follow byte x when calls are queued whole, one after the other.
Follows(x, y) ==
    IF x[2] = x[3] THEN y[2] = 1 ELSE y = <<x[1], x[2] + 1, x[3]>>

\* As long as every call found room for all of its bytes, whatever the other
\* callers did between the unlocked test and the lock, sending_buf holds whole
\* calls, each once, none inside another.
CallsAreWhole ==
    ~cut =>
        /\ \A i \in 1..(sending_len - 1) : Follows(sending_buf[i], sending_buf[i + 1])
        /\ sending_len > 0 => sending_buf[sending_len][2] = sending_buf[sending_len][3]

\* What survives when a call did not fit: bytes are repeated, but only from the
\* start of a call; no byte is skipped, ...
OnlyRestarts ==
    \A i \in 1..(sending_len - 1) :
        sending_buf[i + 1][2] = 1 \/ Follows(sending_buf[i], sending_buf[i + 1])

\* ... and tju_send does not return before the last byte of its call is queued:
\* the last byte of a caller that is still in the buffer is the end of a call,
\* unless the caller is inside one that is not empty.
ReturnedIsQueued ==
    \A i \in 1..sending_len :
        LET b == sending_buf[i] IN
            \/ b[2] = b[3]
            \/ pc[b[1]] # "out" /\ tmp_len[b[1]] > 0
            \/ \E j \in (i + 1)..sending_len : sending_buf[j][1] = b[1]

\* tju_send says of tmp_buffer and tmp_len that they are the data still to be copied
\* and the length of it: the bytes of a caller in sending_buf are those of its
\* calls, one call after the other and each byte once, whatever the other callers
\* put between them.  It does not hold of the code.
EachByteOnce ==
    \A i, j \in 1..sending_len :
        /\ i < j /\ sending_buf[i][1] = sending_buf[j][1]
        /\ \A k \in (i + 1)..(j - 1) : sending_buf[k][1] # sending_buf[i][1]
        => Follows(sending_buf[i], sending_buf[j])

\* Progress: while calls are waiting, one of them returns, unless one of them
\* is longer than what a compaction is sure to free: such a call may fill the
\* room with its beginning again and again and keep the others out.
TooLong(c) == pc[c] # "out" /\ tmp_len[c] > COMPACT_AT + 1
SomeCallReturns ==
    \A b \in {0, 1} :
        (returns = b /\ \E c \in Callers : pc[c] # "out")
            ~> (returns # b \/ \E c \in Callers : TooLong(c))
=============================================================================
