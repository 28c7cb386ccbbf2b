----------------------------- MODULE RtoProofs -----------------------------
(***************************************************************************)
(* Proofs about Rto: the interval of the retransmission timer for every    *)
(* bound on round trips that RtoAssumption admits, windows of any size and *)
(* any number of samples and retransmissions.                              *)
(***************************************************************************)
EXTENDS Rto, TLAPS

\* Truncation: the quotient is the integer just below the fraction.
LEMMA Eighth ==
    ASSUME NEW x \in Nat
    PROVE  x \div 8 \in Nat /\ 8 * (x \div 8) <= x /\ x < 8 * (x \div 8) + 8
  BY SMT

LEMMA Quarter ==
    ASSUME NEW x \in Nat
    PROVE  x \div 4 \in Nat /\ 4 * (x \div 4) <= x /\ x < 4 * (x \div 4) + 4
  BY SMT

\* The smoothed estimate is a weighted mean: it is no less than the smaller of
\* estimate and sample and no more than the larger.
LEMMA EstimateIsMean ==
    ASSUME NEW e \in Nat \ {0}, NEW s \in Nat \ {0}
    PROVE  LET f == (7 * e + s) \div 8 IN
             /\ f \in Nat \ {0}
             /\ e <= f \/ s <= f
             /\ f <= e \/ f <= s
             /\ Distance(s, f) \in Nat
             /\ \A m \in Nat : e <= m /\ s <= m => 8 * Distance(s, f) <= 7 * m + 7
<1> DEFINE f == (7 * e + s) \div 8
<1>1. f \in Nat /\ 8 * f <= 7 * e + s /\ 7 * e + s < 8 * f + 8
  BY Eighth
<1> HIDE DEF f
<1>2. f \in Nat \ {0} /\ (e <= f \/ s <= f) /\ (f <= e \/ f <= s)
  BY <1>1
<1>3. Distance(s, f) \in Nat
  BY <1>1 DEF Distance
<1>4. ASSUME NEW m \in Nat, e <= m, s <= m PROVE 8 * Distance(s, f) <= 7 * m + 7
  BY <1>1, <1>4 DEF Distance
<1> QED
  BY <1>2, <1>3, <1>4 DEF f

\* What the three formulas of CalTimeout give: an estimate between the old one
\* and the sample, an interval no shorter than the estimate, and, as long as
\* estimate and sample are round trips of the network, a deviation below
\* MaxDev and an interval below a second.
LEMMA Formulas ==
    ASSUME estmated_rtt \in Nat \ {0}, dev_rtt \in Nat, NEW s \in Nat \ {0}
    PROVE  /\ Estimated(s) \in Nat \ {0}
           /\ Deviation(s) \in Nat
           /\ Interval(s) \in Nat /\ Interval(s) >= Estimated(s)
           /\ estmated_rtt <= Estimated(s) \/ s <= Estimated(s)
           /\ estmated_rtt <= MaxRtt /\ dev_rtt <= MaxDev /\ s <= MaxRtt =>
                /\ Estimated(s) <= MaxRtt
                /\ Deviation(s) <= MaxDev
                /\ Interval(s) < SECOND
<1> DEFINE E == Estimated(s)
           D == Distance(s, E)
<1>1. /\ E \in Nat \ {0}
      /\ estmated_rtt <= E \/ s <= E
      /\ E <= estmated_rtt \/ E <= s
      /\ D \in Nat
      /\ \A m \in Nat : estmated_rtt <= m /\ s <= m => 8 * D <= 7 * m + 7
  BY EstimateIsMean DEF Estimated
<1> HIDE DEF E, D
<1> DEFINE V == (3 * dev_rtt + D) \div 4
<1>2. V \in Nat /\ 4 * V <= 3 * dev_rtt + D
  BY <1>1, Quarter
<1>3. Deviation(s) = V /\ Interval(s) = E + 4 * V
  BY DEF Deviation, Interval, E, D
<1> HIDE DEF V
<1>4. ASSUME estmated_rtt <= MaxRtt, dev_rtt <= MaxDev, s <= MaxRtt
      PROVE  E <= MaxRtt /\ V <= MaxDev /\ E + 4 * V < SECOND
  <2>1. MaxDev \in Nat /\ 8 * MaxDev <= 7 * MaxRtt + 7 /\ 7 * MaxRtt + 7 < 8 * MaxDev + 8
    BY Eighth, RtoAssumption DEF MaxDev
  <2>2. 8 * D <= 7 * MaxRtt + 7
    BY <1>1, <1>4, RtoAssumption
  <2>3. D <= MaxDev
    BY <1>1, <2>1, <2>2, RtoAssumption
  <2>4. V <= MaxDev
    BY <1>2, <1>1, <2>1, <2>3, <1>4
  <2>5. E <= MaxRtt
    BY <1>1, <1>4, RtoAssumption
  <2>6. E + 4 * V < SECOND
    BY <1>1, <1>2, <2>1, <2>4, <2>5, RtoAssumption
  <2> QED
    BY <2>4, <2>5, <2>6
<1> QED
  BY <1>1, <1>2, <1>3, <1>4 DEF E

\* RtoInv without what it says of the timer, which startTimer re-establishes.
EstimateInv ==
    /\ {estmated_rtt, fastest} \subseteq Nat \ {0}
    /\ {dev_rtt, tv_usec, samples} \subseteq Nat
    /\ ambiguous \in BOOLEAN
    /\ estmated_rtt >= fastest
    /\ tv_usec >= estmated_rtt
    /\ ~ambiguous => estmated_rtt <= MaxRtt /\ dev_rtt <= MaxDev /\ tv_usec < SECOND

\* A sample keeps it.
LEMMA CalTimeoutInv ==
    ASSUME EstimateInv, waited \in Nat, NEW r \in Rtts, CalTimeout(waited + r)
    PROVE  EstimateInv' /\ (ambiguous => ambiguous')
<1> DEFINE s == waited + r
<1>1. s \in Nat \ {0} /\ (waited = 0 => s <= MaxRtt)
  BY RtoAssumption
<1>2. /\ samples' = samples + 1
      /\ estmated_rtt' = Estimated(s)
      /\ dev_rtt' = Deviation(s)
      /\ tv_usec' = Interval(s)
      /\ ambiguous' = (ambiguous \/ waited > 0)
      /\ fastest' = IF s < fastest THEN s ELSE fastest
  BY DEF CalTimeout
<1> HIDE DEF s
<1>3. /\ Estimated(s) \in Nat \ {0}
      /\ Deviation(s) \in Nat
      /\ Interval(s) \in Nat /\ Interval(s) >= Estimated(s)
      /\ estmated_rtt <= Estimated(s) \/ s <= Estimated(s)
      /\ estmated_rtt <= MaxRtt /\ dev_rtt <= MaxDev /\ s <= MaxRtt =>
           /\ Estimated(s) <= MaxRtt
           /\ Deviation(s) <= MaxDev
           /\ Interval(s) < SECOND
  BY <1>1, Formulas DEF EstimateInv
<1>4. fastest' \in Nat \ {0} /\ estmated_rtt' >= fastest'
  BY <1>1, <1>2, <1>3 DEF EstimateInv
<1>5. ambiguous' \in BOOLEAN /\ (ambiguous => ambiguous')
  BY <1>2 DEF EstimateInv
<1>6. ASSUME ~ambiguous'
      PROVE  estmated_rtt' <= MaxRtt /\ dev_rtt' <= MaxDev /\ tv_usec' < SECOND
  <2>1. ~ambiguous /\ ~(waited > 0)
    BY <1>2, <1>6, Zenon
  <2>2. s <= MaxRtt
    BY <1>1, <2>1
  <2> QED
    BY <2>1, <2>2, <1>2, <1>3 DEF EstimateInv
<1>7. samples' \in Nat /\ dev_rtt' \in Nat /\ tv_usec' \in Nat /\ tv_usec' >= estmated_rtt'
      /\ estmated_rtt' \in Nat \ {0}
  BY <1>2, <1>3 DEF EstimateInv
<1> QED
  BY <1>4, <1>5, <1>6, <1>7 DEF EstimateInv

\* startTimer leaves a timer armed or setitimer refused, and is refused only
\* after an ambiguous sample.
LEMMA StartTimerInv ==
    ASSUME EstimateInv', NEW left \in Nat, StartTimer(left), refused \in BOOLEAN,
           refused => ambiguous, ambiguous => ambiguous'
    PROVE  /\ timer' \in Nat /\ refused' \in BOOLEAN
           /\ timer' > 0 \/ refused'
           /\ refused' => ambiguous'
<1>1. /\ timer' = IF tv_usec' < SECOND THEN tv_usec' ELSE left
      /\ refused' = (refused \/ tv_usec' >= SECOND)
  BY DEF StartTimer
<1>2. /\ tv_usec' \in Nat \ {0} /\ SECOND \in Nat
      /\ ~ambiguous' => tv_usec' < SECOND
  BY RtoAssumption DEF EstimateInv
<1>3. CASE tv_usec' < SECOND
  BY <1>1, <1>2, <1>3
<1>4. CASE ~(tv_usec' < SECOND)
  <2>1. tv_usec' >= SECOND
    BY <1>2, <1>4
  <2> QED
    BY <2>1, <1>1, <1>2, <1>4
<1> QED
  BY <1>3, <1>4

\* RtoInv is the estimates' invariant and the timer's.
LEMMA RtoInvParts ==
    RtoInv <=> /\ EstimateInv
               /\ {measured, waited, unacked, timer, resends} \subseteq Nat
               /\ refused \in BOOLEAN
               /\ refused => ambiguous
               /\ unacked > 0 => timer > 0 \/ refused
  BY DEF RtoInv, TypeOK, EstimateInv, RefusedAfterAmbiguity, TimerCoversWindow

\* The initial state satisfies the inductive invariant.
LEMMA InitRtoInv == Init => RtoInv
<1> SUFFICES ASSUME Init PROVE RtoInv
  OBVIOUS
<1>1. MaxDev \in Nat
  BY Eighth, RtoAssumption DEF MaxDev
<1>2. /\ {estmated_rtt, fastest} \subseteq Nat \ {0}
      /\ {dev_rtt, tv_usec, measured, waited, unacked, timer, resends, samples} \subseteq Nat
  BY RtoAssumption DEF Init
<1>3. {refused, ambiguous} \subseteq BOOLEAN /\ ~refused
  BY DEF Init
<1>4. /\ estmated_rtt >= fastest /\ tv_usec >= estmated_rtt
      /\ estmated_rtt <= MaxRtt /\ dev_rtt <= MaxDev /\ tv_usec < SECOND
      /\ ~(unacked > 0)
  BY <1>1, RtoAssumption DEF Init
<1> QED
  BY <1>2, <1>3, <1>4, Zenon DEF RtoInv, TypeOK, RefusedAfterAmbiguity, TimerCoversWindow

\* A new window gets a timer.
LEMMA SendWindowInv ==
    ASSUME RtoInv, NEW n \in 1..Window, SendWindow(n)
    PROVE  RtoInv'
<1>1. EstimateInv /\ EstimateInv' /\ ambiguous' = ambiguous
  BY RtoInvParts DEF SendWindow, rttVars, EstimateInv, MaxDev
<1>2. /\ timer' \in Nat /\ refused' \in BOOLEAN
      /\ timer' > 0 \/ refused'
      /\ refused' => ambiguous'
  BY <1>1, StartTimerInv, RtoInvParts DEF SendWindow
<1>3. unacked' \in Nat /\ waited' \in Nat /\ resends' \in Nat /\ measured' \in Nat
  BY RtoAssumption DEF SendWindow
<1> QED
  BY <1>1, <1>2, <1>3 DEF RtoInv, TypeOK, EstimateInv, RefusedAfterAmbiguity, TimerCoversWindow

\* Segments added to a window leave its timer alone.
LEMMA SendMoreInv ==
    ASSUME RtoInv, NEW n \in 1..Window, SendMore(n)
    PROVE  RtoInv'
<1>1. /\ unacked > 0 /\ unacked' = unacked + n
      /\ UNCHANGED <<rttVars, waited, timer, resends, refused>>
      /\ measured' = measured \/ measured' = unacked + 1
  BY DEF SendMore
<1>2. EstimateInv /\ EstimateInv' /\ unacked \in Nat /\ measured \in Nat
  BY <1>1, RtoInvParts DEF rttVars, EstimateInv, MaxDev
<1>3. unacked' \in Nat /\ measured' \in Nat
  BY <1>1, <1>2, RtoAssumption
<1>4. /\ {waited, timer, resends} \subseteq Nat /\ refused \in BOOLEAN
      /\ refused => ambiguous
      /\ timer > 0 \/ refused
  BY <1>1, RtoInvParts
<1> QED
  BY <1>1, <1>2, <1>3, <1>4
     DEF RtoInv, TypeOK, EstimateInv, RefusedAfterAmbiguity, TimerCoversWindow, rttVars

\* So does a window that is sent again.
LEMMA RetransmitInv ==
    ASSUME RtoInv, NEW span \in Nat, NEW left \in Nat, Retransmit(span, left)
    PROVE  RtoInv'
<1>1. EstimateInv /\ EstimateInv' /\ ambiguous' = ambiguous
  BY RtoInvParts DEF Retransmit, rttVars, EstimateInv, MaxDev
<1>2. /\ timer' \in Nat /\ refused' \in BOOLEAN
      /\ timer' > 0 \/ refused'
      /\ refused' => ambiguous'
  BY <1>1, StartTimerInv, RtoInvParts DEF Retransmit
<1>3. unacked' \in Nat /\ resends' \in Nat /\ measured' \in Nat
  <2>1. unacked' = unacked /\ measured' = measured /\ resends' = resends + 1
    BY DEF Retransmit
  <2> QED
    BY <2>1, RtoInvParts
<1>4. waited' \in Nat
  <2>1. CASE waited' = IF measured > 0 THEN waited + span ELSE 0
    BY <2>1, RtoInvParts
  <2>2. CASE \E part \in Rtts : waited' = part
    BY <2>2, RtoAssumption
  <2> QED
    BY <2>1, <2>2 DEF Retransmit
<1> QED
  BY <1>1, <1>2, <1>3, <1>4
     DEF RtoInv, TypeOK, EstimateInv, RefusedAfterAmbiguity, TimerCoversWindow

\* And the rest of a window, whether its ACK gives a sample or not.
LEMMA AckInv ==
    ASSUME RtoInv, NEW n \in 1..Window, NEW r \in Rtts, Ack(n, r)
    PROVE  RtoInv'
<1>1. EstimateInv /\ EstimateInv' /\ (ambiguous => ambiguous')
  <2>1. CASE measured = n
    BY <2>1, CalTimeoutInv, RtoInvParts DEF Ack
  <2>2. CASE ~(measured = n)
    BY <2>2, RtoInvParts DEF Ack, rttVars, EstimateInv, MaxDev
  <2> QED
    BY <2>1, <2>2
<1>2. unacked' \in Nat /\ waited' \in Nat /\ resends' \in Nat /\ measured' \in Nat
  <2>1. unacked \in Nat /\ n \in Nat
    BY RtoInvParts, RtoAssumption
  <2>2. n <= unacked /\ unacked' = unacked - n /\ waited' = 0 /\ resends' = 0
    BY DEF Ack
  <2>3. measured' \in Nat
    BY DEF Ack
  <2> QED
    BY <2>1, <2>2, <2>3
<1>3. /\ timer' \in Nat /\ refused' \in BOOLEAN
      /\ unacked' > 0 => timer' > 0 \/ refused'
      /\ refused' => ambiguous'
  <2>1. CASE unacked' = 0
    BY <2>1, <1>1, RtoInvParts DEF Ack, Rearm
  <2>2. CASE unacked' # 0
    BY <2>2, <1>1, StartTimerInv, RtoInvParts DEF Ack, Rearm
  <2> QED
    BY <2>1, <2>2
<1> QED
  BY <1>1, <1>2, <1>3 DEF RtoInv, TypeOK, EstimateInv, RefusedAfterAmbiguity, TimerCoversWindow

\* Every step keeps the inductive invariant.
LEMMA StepRtoInv == RtoInv /\ [Next]_vars => RtoInv'
<1> SUFFICES ASSUME RtoInv, [Next]_vars PROVE RtoInv'
  OBVIOUS
<1>1. CASE \E n \in 1..Window : SendWindow(n) \/ SendMore(n)
  BY <1>1, SendWindowInv, SendMoreInv
<1>2. CASE Expire
  BY <1>2, RetransmitInv, RtoInvParts DEF Expire
<1>3. CASE FastRetransmit
  BY <1>3, RetransmitInv, RtoInvParts, RtoAssumption DEF FastRetransmit
<1>4. CASE \E n \in 1..Window, r \in Rtts : Ack(n, r)
  BY <1>4, AckInv
<1>5. CASE UNCHANGED vars
  BY <1>5 DEF vars, rttVars, RtoInv, TypeOK, RefusedAfterAmbiguity, TimerCoversWindow, MaxDev
<1> QED
  BY <1>1, <1>2, <1>3, <1>4, <1>5 DEF Next

\* The estimates, the interval and the timer keep their invariant for ever.
THEOREM RtoIsInvariant == Spec => []RtoInv
<1>1. Init => RtoInv
  BY InitRtoInv
<1>2. RtoInv /\ [Next]_vars => RtoInv'
  BY StepRtoInv
<1> QED
  BY <1>1, <1>2, PTL DEF Spec

\* When the passes of the threads do not interleave, an unacknowledged window has
\* an armed timer unless setitimer ever failed.
THEOREM WindowIsCovered == Spec => []TimerCoversWindow
<1>1. RtoInv => TimerCoversWindow
  BY DEF RtoInv
<1> QED
  BY <1>1, RtoIsInvariant, PTL

\* setitimer fails only after a sample that spans a retransmission.
THEOREM RefusalNeedsAmbiguity == Spec => []RefusedAfterAmbiguity
<1>1. RtoInv => RefusedAfterAmbiguity
  BY DEF RtoInv
<1> QED
  BY <1>1, RtoIsInvariant, PTL

\* The interval is never below the fastest round trip measured.
THEOREM IntervalHasFloor == Spec => []IntervalCoversRoundTrip
<1>1. RtoInv => IntervalCoversRoundTrip
  BY DEF RtoInv, TypeOK, IntervalCoversRoundTrip
<1> QED
  BY <1>1, RtoIsInvariant, PTL
=============================================================================
