-------------------------- MODULE ByteStreamProofs --------------------------
(***************************************************************************)
(* What ByteStream, and with it every specification proved to implement    *)
(* it, promises the two applications.                                      *)
(***************************************************************************)
EXTENDS ByteStream, SequenceTheorems, TLAPS

StreamInv ==
    /\ written \in Nat /\ held \in Seq(Nat) /\ returned \in Seq(Nat)
    /\ StreamIsExact

\* Accepted bytes go behind those that are held.
LEMMA AcceptKeeps ==
    ASSUME StreamInv, Capacity \in Nat, NEW n \in 0..Capacity, Accept(n)
    PROVE  StreamInv'
<1> DEFINE m == Len(returned) + Len(held)
           new == [i \in 1..n |-> m + i]
<1>1. /\ Len(returned) \in Nat /\ Len(held) \in Nat /\ n \in Nat
      /\ held \in Seq(Nat) /\ m \in Nat
  BY DEF StreamInv
<1>2. new \in Seq(Nat) /\ Len(new) = n /\ \A i \in 1..n : new[i] = m + i
  <2>1. \A i \in 1..n : m + i \in Nat
    BY <1>1
  <2> QED
    BY <1>1, <2>1
<1>3. /\ held' = held \o new /\ m + n <= written /\ Len(held) + n <= Capacity
      /\ UNCHANGED <<written, returned>>
  BY DEF Accept
<1> HIDE DEF new
<1>4. held' \in Seq(Nat) /\ Len(held') = Len(held) + n
  BY <1>1, <1>2, <1>3, ConcatProperties
<1>5. ASSUME NEW i \in 1..Len(held') PROVE held'[i] = Len(returned) + i
  <2>1. CASE i <= Len(held)
    <3>1. held'[i] = held[i] /\ i \in 1..Len(held)
      BY <1>1, <1>2, <1>3, <1>4, <2>1
    <3> QED
      BY <3>1 DEF StreamInv, StreamIsExact
  <2>2. CASE i > Len(held)
    <3>1. held'[i] = new[i - Len(held)] /\ i - Len(held) \in 1..n
      BY <1>1, <1>2, <1>3, <1>4, <2>2
    <3>2. held'[i] = m + (i - Len(held))
      BY <1>2, <3>1
    <3> QED
      BY <1>1, <1>4, <3>2
  <2> QED
    BY <1>1, <1>4, <2>1, <2>2
<1> QED
  BY <1>1, <1>3, <1>4, <1>5 DEF StreamInv, StreamIsExact

\* Returned bytes are those at the front, and the rest goes on behind them.
LEMMA ReturnKeeps ==
    ASSUME StreamInv, Capacity \in Nat, NEW n \in Nat, Return(n)
    PROVE  StreamInv'
<1> DEFINE head == SubSeq(held, 1, n)
<1>1. /\ Len(returned) \in Nat /\ Len(held) \in Nat /\ n <= Len(held)
      /\ held \in Seq(Nat) /\ returned \in Seq(Nat)
  BY DEF StreamInv, Return
<1>2. head \in Seq(Nat) /\ Len(head) = n /\ \A i \in 1..n : head[i] = held[i]
  BY <1>1
<1>3. /\ returned' = returned \o head /\ held' = SubSeq(held, n + 1, Len(held))
      /\ written' = written
  BY DEF Return
<1>4. /\ held' \in Seq(Nat) /\ Len(held') = Len(held) - n
      /\ \A i \in 1..(Len(held) - n) : held'[i] = held[n + i]
  BY <1>1, <1>3, SubSeqProperties
<1> HIDE DEF head
<1>5. returned' \in Seq(Nat) /\ Len(returned') = Len(returned) + n
  BY <1>1, <1>2, <1>3, ConcatProperties
<1>6. ASSUME NEW i \in 1..Len(returned') PROVE returned'[i] = i
  <2>1. CASE i <= Len(returned)
    <3>1. returned'[i] = returned[i] /\ i \in 1..Len(returned)
      BY <1>1, <1>2, <1>3, <1>5, <2>1
    <3> QED
      BY <3>1 DEF StreamInv, StreamIsExact
  <2>2. CASE i > Len(returned)
    <3>1. returned'[i] = head[i - Len(returned)] /\ i - Len(returned) \in 1..n
      BY <1>1, <1>2, <1>3, <1>5, <2>2
    <3>2. returned'[i] = held[i - Len(returned)] /\ i - Len(returned) \in 1..Len(held)
      BY <1>1, <1>2, <3>1
    <3>3. returned'[i] = Len(returned) + (i - Len(returned))
      BY <3>2 DEF StreamInv, StreamIsExact
    <3> QED
      BY <1>1, <1>5, <3>3
  <2> QED
    BY <1>1, <1>5, <2>1, <2>2
<1>7. ASSUME NEW i \in 1..Len(held') PROVE held'[i] = Len(returned') + i
  <2>1. n + i \in 1..Len(held) /\ i \in 1..(Len(held) - n)
    BY <1>1, <1>4
  <2>2. held'[i] = Len(returned) + (n + i)
    BY <1>4, <2>1 DEF StreamInv, StreamIsExact
  <2> QED
    BY <1>1, <1>5, <2>1, <2>2
<1>8. Len(held') <= Len(held) /\ Len(returned') + Len(held') = Len(returned) + Len(held)
  BY <1>1, <1>4, <1>5
<1>9. Len(held') <= Capacity /\ Len(returned') + Len(held') <= written'
  <2>1. Len(held) <= Capacity /\ Len(returned) + Len(held) <= written
    BY DEF StreamInv, StreamIsExact
  <2>2. Len(held') \in 0..Len(held)
    BY <1>1, <1>4
  <2>3. Len(held') <= Capacity
    BY <1>1, <2>1, <2>2
  <2>4. Len(returned') + Len(held') <= written'
    BY <1>3, <1>8, <2>1
  <2> QED
    BY <2>3, <2>4
<1> QED
  BY <1>3, <1>4, <1>5, <1>6, <1>7, <1>9 DEF StreamInv, StreamIsExact

\* Whatever implements ByteStream gives the readers exactly the stream that was
\* written, for every capacity of the buffer.
THEOREM StreamsAreExact == Capacity \in Nat => (BSpec => []StreamIsExact)
<1> SUFFICES ASSUME Capacity \in Nat PROVE BSpec => []StreamIsExact
  OBVIOUS
<1>1. BInit => StreamInv
  BY DEF BInit, StreamInv, StreamIsExact
<1>2. StreamInv /\ [BNext]_bvars => StreamInv'
  <2> SUFFICES ASSUME StreamInv, [BNext]_bvars PROVE StreamInv'
    OBVIOUS
  <2>1. CASE Write
    <3>1. Len(returned) + Len(held) \in Nat /\ Len(returned) + Len(held) <= written
      BY DEF StreamInv, StreamIsExact
    <3>2. /\ written' \in Nat /\ written < written' /\ written \in Nat
          /\ UNCHANGED <<held, returned>>
      BY <2>1 DEF Write, StreamInv
    <3> QED
      BY <3>1, <3>2 DEF StreamInv, StreamIsExact
  <2>2. ASSUME NEW n \in 0..Capacity, Accept(n) PROVE StreamInv'
    BY <2>2, AcceptKeeps
  <2>3. ASSUME NEW n \in 0..Capacity, Return(n) PROVE StreamInv'
    BY <2>3, ReturnKeeps
  <2>4. CASE UNCHANGED bvars
    BY <2>4 DEF bvars, StreamInv, StreamIsExact
  <2> QED
    BY <2>1, <2>2, <2>3, <2>4 DEF BNext
<1>3. StreamInv => StreamIsExact
  BY DEF StreamInv
<1> QED
  BY <1>1, <1>2, <1>3, PTL DEF BSpec
=============================================================================
