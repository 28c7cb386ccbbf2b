-------------------------------- MODULE Rto --------------------------------
(***************************************************************************)
(* How the retransmission interval follows the measured round trips, in    *)
(* microseconds and with the code's truncations, and what setitimer makes  *)
(* of it.                                                                  *)
(*                                                                         *)
(* sending_thread measures one segment at a time: the first of a window,   *)
(* for which it also starts the timer, or the first of those it adds after *)
(* a retransmission.  Each new ACK ends the measurement, with a sample     *)
(* only when it acknowledges exactly the measured segment                  *)
(* (rtt_expect_ack).  A retransmission does not end it and does not touch  *)
(* send_time, so the sample may span any number of them.                   *)
(*                                                                         *)
(* Each pass of a thread is one step here: Sender has the races between    *)
(* them, and the probes of a closed window, and leaves the times out.      *)
(***************************************************************************)
EXTENDS Integers

CONSTANTS
    TCP_RTO_MIN,    \* the initial estimate
    INITIAL_RTO,    \* the initial interval
    SECOND,         \* the tv_usec from which on setitimer fails with EINVAL
    Rtts,           \* round trips of the network
    MaxRtt,         \* the longest of them
    Window,         \* bound: segments in a window
    MaxSamples,     \* bound: samples taken
    MaxResends      \* bound: retransmissions of a window

ASSUME RtoAssumption ==
    /\ {TCP_RTO_MIN, INITIAL_RTO, SECOND, MaxRtt} \subseteq Nat \ {0}
    /\ Rtts \subseteq 1..MaxRtt
    /\ TCP_RTO_MIN <= INITIAL_RTO /\ TCP_RTO_MIN <= MaxRtt
    /\ INITIAL_RTO < SECOND
    /\ 9 * MaxRtt + 7 < 2 * SECOND
    /\ {Window, MaxSamples, MaxResends} \subseteq Nat

VARIABLES
    estmated_rtt,       \* wnd_send->estmated_rtt
    dev_rtt,            \* wnd_send->dev_rtt
    tv_usec,            \* wnd_send->timeout.it_value.tv_usec
    measured,           \* 0, or which of the unacknowledged segments is measured
    waited,             \* the time from send_time to the last retransmission
    unacked,            \* segments sent and not acknowledged
    timer,              \* what ITIMER_REAL was armed with, 0 when it is off
    resends,            \* retransmissions of this window so far
    samples,            \* samples taken so far
    refused,            \* history: setitimer failed
    ambiguous,          \* history: a sample spanned a retransmission
    fastest             \* history: the least of TCP_RTO_MIN and the samples

rttVars == <<estmated_rtt, dev_rtt, tv_usec, samples, ambiguous, fastest>>
vars == <<rttVars, measured, waited, unacked, timer, resends, refused>>

Init ==
    /\ estmated_rtt = TCP_RTO_MIN
    /\ dev_rtt = 0
    /\ tv_usec = INITIAL_RTO
    /\ measured = 0
    /\ waited = 0
    /\ unacked = 0
    /\ timer = 0
    /\ resends = 0
    /\ samples = 0
    /\ refused = FALSE
    /\ ambiguous = FALSE
    /\ fastest = TCP_RTO_MIN

\* Operators named ...Mut are mutants, used by no definition: each is what the
\* operator after it could have been, had the code a plausible bug.

\* startTimer, once the interval is what it will be after the step and left is
\* what is left of the timer: when setitimer fails it changes nothing, and the
\* failure is printed and ignored.
StartTimer(left) ==
    /\ timer' = IF tv_usec' < SECOND THEN tv_usec' ELSE left
    /\ refused' = (refused \/ tv_usec' >= SECOND)

Distance(x, y) == IF x < y THEN y - x ELSE x - y

\* The three formulas of CalTimeout, each truncated to an integer.
EstimatedMut(sample) == (7 * estmated_rtt + sample) \div 4
Estimated(sample) == (7 * estmated_rtt + sample) \div 8
Deviation(sample) ==
    (3 * dev_rtt + Distance(sample, Estimated(sample))) \div 4
IntervalMut(sample) == 4 * Deviation(sample)
Interval(sample) == Estimated(sample) + 4 * Deviation(sample)

CalTimeout(sample) ==
    /\ samples < MaxSamples
    /\ samples' = samples + 1
    /\ estmated_rtt' = Estimated(sample)
    /\ dev_rtt' = Deviation(sample)
    /\ tv_usec' = Interval(sample)
    /\ ambiguous' = (ambiguous \/ waited > 0)
    /\ fastest' = IF sample < fastest THEN sample ELSE fastest

-----------------------------------------------------------------------------
\* sending_thread sends a window of n segments.
SendWindow(n) ==
    /\ unacked = 0
    /\ unacked' = n
    /\ measured' = 1
    /\ waited' = 0
    /\ resends' = 0
    /\ UNCHANGED rttVars
    /\ StartTimer(timer)

\* A retransmission clears is_retransing, so sending_thread may add n segments
\* to what is outstanding; the timer runs on.
SendMore(n) ==
    /\ unacked > 0 /\ resends > 0
    /\ unacked + n <= Window
    /\ unacked' = unacked + n
    /\ measured' = IF measured = 0 THEN unacked + 1 ELSE measured
    /\ UNCHANGED <<rttVars, waited, timer, resends, refused>>

\* retrans_thread resends the window, span after the last time; an added
\* segment that is measured has been on its way for a part of the span.
Retransmit(span, left) ==
    /\ unacked > 0
    /\ resends < MaxResends
    /\ resends' = resends + 1
    /\ \/ waited' = IF measured > 0 THEN waited + span ELSE 0
       \/ \E part \in Rtts : measured > 1 /\ waited = 0 /\ part < span /\ waited' = part
    /\ UNCHANGED <<rttVars, unacked, measured>>
    /\ StartTimer(left)

\* ... because the one-shot timer expired,
Expire == timer > 0 /\ Retransmit(timer, 0)

\* ... or because of the third duplicate ACK.
FastRetransmit == \E r \in Rtts : Retransmit(r, timer)

\* The timer after a new ACK: stopped when nothing is outstanding, restarted
\* otherwise.
RearmMut == timer' = 0 /\ UNCHANGED refused
Rearm ==
    IF unacked' = 0 THEN timer' = 0 /\ UNCHANGED refused ELSE StartTimer(timer)

\* A new ACK for n segments arrives, a round trip of r after the last time
\* they were sent.
Ack(n, r) ==
    /\ n <= unacked
    /\ unacked' = unacked - n
    /\ IF measured = n THEN CalTimeout(waited + r)
                       ELSE UNCHANGED rttVars
    /\ measured' = 0
    /\ waited' = 0
    /\ resends' = 0
    /\ Rearm

Next ==
    \/ \E n \in 1..Window : SendWindow(n) \/ SendMore(n)
    \/ Expire
    \/ FastRetransmit
    \/ \E n \in 1..Window, r \in Rtts : Ack(n, r)

Spec == Init /\ [][Next]_vars

-----------------------------------------------------------------------------
(* Properties.                                                             *)

\* When the threads' passes do not interleave, whatever is unacknowledged has an
\* armed timer, unless setitimer has ever failed: no sequence of samples makes the
\* interval zero, which would disarm the timer, and no ACK leaves the rest of a
\* window without one.  (Interleaved passes can: NoSilentStall of Sender.)
TimerCoversWindow == unacked > 0 => timer > 0 \/ refused

\* On a network whose round trips stay below MaxRtt, two ninths of a second,
\* setitimer fails only after a sample was taken over a retransmission, which
\* counts the intervals waited for it as round trip (Karn's ambiguity): only
\* then does the interval run past what tv_usec may hold.
RefusedAfterAmbiguity == refused => ambiguous

\* There is no floor TCP_RTO_MIN under the interval, whatever its name says,
\* but a floor there is: the interval never drops below the fastest round trip
\* measured, though every step of the average rounds down.
IntervalCoversRoundTrip == tv_usec >= fastest

-----------------------------------------------------------------------------
(* The inductive invariant behind the safety properties.                   *)

TypeOK ==
    /\ {estmated_rtt, fastest} \subseteq Nat \ {0}
    /\ {dev_rtt, tv_usec, measured, waited, unacked, timer, resends, samples}
            \subseteq Nat
    /\ {refused, ambiguous} \subseteq BOOLEAN

\* The deviation that samples between 0 and MaxRtt can reach.
MaxDev == (7 * MaxRtt + 7) \div 8

\* Until an ambiguous sample, estimate and deviation stay where the samples
\* are, and with them the interval stays below a second.
RtoInv ==
    /\ TypeOK
    /\ estmated_rtt >= fastest
    /\ tv_usec >= estmated_rtt
    /\ ~ambiguous =>
        /\ estmated_rtt <= MaxRtt
        /\ dev_rtt <= MaxDev
        /\ tv_usec < SECOND
    /\ RefusedAfterAmbiguity
    /\ TimerCoversWindow
=============================================================================
