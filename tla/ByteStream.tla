----------------------------- MODULE ByteStream -----------------------------
(***************************************************************************)
(* What one direction of a TJU_TCP connection promises to its two users:   *)
(* a reliable, ordered byte stream through a bounded receive buffer.  The  *)
(* k-th byte handed to tju_send is represented by the number k, so the     *)
(* stream is <<1, 2, 3, ...>> and "the right bytes in the right order"     *)
(* means: the bytes returned so far are 1, 2, ..., n.                      *)
(*                                                                         *)
(* The specification mentions no packet, window, timer or thread.  It is   *)
(* the abstract side of the refinements of Receiver.                       *)
(***************************************************************************)
EXTENDS Naturals, Sequences

CONSTANT
    Capacity     \* bytes the receive buffer can hold, a natural number

VARIABLES
    written,     \* how many bytes the sending application has handed over
    held,        \* bytes accepted from the network and not yet read
    returned     \* bytes tju_recv has returned, in the order it returned them

bvars == <<written, held, returned>>

BInit ==
    /\ written = 0
    /\ held = << >>
    /\ returned = << >>

\* The sending application hands over more bytes.
Write ==
    /\ written' \in Nat
    /\ written' > written
    /\ UNCHANGED <<held, returned>>

\* The next n bytes of the stream arrive: only bytes that were written, each
\* exactly once, in order, and never more than the buffer can hold.
Accept(n) ==
    /\ Len(returned) + Len(held) + n <= written
    /\ Len(held) + n <= Capacity
    /\ held' = held \o [i \in 1..n |-> Len(returned) + Len(held) + i]
    /\ UNCHANGED <<written, returned>>

\* The reading application takes the first n bytes of the buffer.
Return(n) ==
    /\ n <= Len(held)
    /\ returned' = returned \o SubSeq(held, 1, n)
    /\ held' = SubSeq(held, n + 1, Len(held))
    /\ UNCHANGED written

BNext ==
    \/ Write
    \/ \E n \in 0..Capacity : Accept(n) \/ Return(n)

BSpec == BInit /\ [][BNext]_bvars

\* What the promise comes to: the readers have had 1, 2, ..., n in this order,
\* the buffer goes on with n + 1 and is never overfull, and nobody gets a byte
\* before it is written.
StreamIsExact ==
    /\ \A i \in 1..Len(returned) : returned[i] = i
    /\ \A i \in 1..Len(held) : held[i] = Len(returned) + i
    /\ Len(held) <= Capacity
    /\ Len(returned) + Len(held) <= written
=============================================================================
