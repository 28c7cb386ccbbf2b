----------------------------- MODULE Connection -----------------------------
(***************************************************************************)
(* The life of one TJU_TCP connection between the two hosts: tju_connect,  *)
(* the listening socket with its queues, tju_accept, tju_close, and the    *)
(* branches of tju_handle_packet that move sock->state.                    *)
(*                                                                         *)
(* Each end has an application thread; a receive_thread, which handles one *)
(* packet at a time and sleeps inside the handler; and, once its peer has  *)
(* closed, the helper tju_close_thread.  All of them read and write        *)
(* sock->state without a lock.  Segments that carry data appear only       *)
(* through the ACKs that answer them (DataAck): no state depends on them.  *)
(*                                                                         *)
(* net holds the packets in flight: the network may lose one (Lose, and    *)
(* when it is full), deliver it twice (Took) and reorder them.              *)
(***************************************************************************)
EXTENDS Naturals, FiniteSets

CONSTANTS
    CLIENT_ISN, SERVER_ISN, FIN_SEQ,    \* sequence numbers of SYN, SYN_ACK, FIN
    DataAcks,                           \* the numbers that ACKs of data carry
    MaxInFlight                         \* bound: packets the network holds

\* The first byte of data has number 1.
ASSUME NumbersAssumption ==
    /\ {CLIENT_ISN, SERVER_ISN, FIN_SEQ} \subseteq Nat
    /\ DataAcks \subseteq Nat \ {0}

Ends == {"client", "server"}
Threads == {"app", "helper"}
Peer(e) == IF e = "client" THEN "server" ELSE "client"

States == {"CLOSED", "LISTEN", "SYN_SENT", "SYN_RECV", "ESTABLISHED", "FIN_WAIT_1",
           "FIN_WAIT_2", "CLOSE_WAIT", "CLOSING", "LAST_ACK", "TIME_WAIT"}

VARIABLES
    net,            \* the packets in flight
    state,          \* sock->state of each end; of the server, the socket accepted
    hashed,         \* whether established_socks holds the socket of each end
    packet_FIN,     \* the flags of sock->packet_FIN, "none" for NULL
    syn_queue,      \* the state of the socket in the SYN queue, or "none"
    accept_queue,   \* the state of the socket in the accept queue, or "none"
    pc,             \* where each thread that runs application calls is
    kpc,            \* receive_thread: "idle", or asleep in a handler
    gone            \* how the socket of each end ended: "no", "freed", or
                    \* "exited" when the whole process did

queueVars == <<syn_queue, accept_queue>>
vars == <<net, state, hashed, packet_FIN, queueVars, pc, kpc, gone>>

Packet(e, flags, seq, ack) == [to |-> e, flags |-> flags, seq |-> seq, ack |-> ack]
Packets == [to : Ends, flags : {"SYN", "SYN_ACK", "ACK", "FIN", "FIN_ACK"},
            seq : Nat, ack : Nat]

\* What the network may hold when the packets in s are put into it.
Held(s) == IF Cardinality(s) <= MaxInFlight THEN {s} ELSE { s \ {p} : p \in s }

Send(p) == net' \in Held(net \cup {p})

\* p was taken from the network, or one copy of it, and the packets in out
\* were sent in reply.
Took(p, out) == \E left \in {net, net \ {p}} : net' \in Held(left \cup out)

\* There is one client, so each queue is modelled by the one slot that cal_hash
\* gives its connection.
Init ==
    /\ net = {}
    /\ state = [e \in Ends |-> IF e = "client" THEN "CLOSED" ELSE "LISTEN"]
    /\ hashed = [e \in Ends |-> FALSE]
    /\ packet_FIN = [e \in Ends |-> "none"]
    /\ syn_queue = "none" /\ accept_queue = "none"
    /\ pc = [e \in Ends |-> [t \in Threads |->
                IF t = "helper" THEN "none"
                ELSE IF e = "client" THEN "connect" ELSE "accept"]]
    /\ kpc = [e \in Ends |-> "idle"]
    /\ gone = [e \in Ends |-> "no"]

Goto(e, t, l) == pc' = [pc EXCEPT ![e][t] = l]
SetState(e, s) == state' = [state EXCEPT ![e] = s]

-----------------------------------------------------------------------------
(* tju_connect, in the client's application thread.                        *)

SYN == Packet("server", "SYN", CLIENT_ISN, 0)

\* The SYN goes out before the socket can be found by receive_thread.
ConnectSend ==
    /\ pc["client"]["app"] = "connect"
    /\ Send(SYN)
    /\ Goto("client", "app", "register")
    /\ UNCHANGED <<state, hashed, packet_FIN, queueVars, kpc, gone>>

ConnectRegister ==
    /\ pc["client"]["app"] = "register"
    /\ SetState("client", "SYN_SENT")
    /\ hashed' = [hashed EXCEPT !["client"] = TRUE]
    /\ Goto("client", "app", "connecting")
    /\ UNCHANGED <<net, packet_FIN, queueVars, kpc, gone>>

\* The busy loop: resend when the timer says so, leave it in ESTABLISHED.
ConnectResendMut ==
    /\ pc["client"]["app"] = "connecting"
    /\ gone["client"] = "no"
    /\ state["client"] = "CLOSED"
    /\ Send(SYN)
    /\ UNCHANGED <<state, hashed, packet_FIN, queueVars, pc, kpc, gone>>
ConnectResend ==
    /\ pc["client"]["app"] = "connecting"
    /\ gone["client"] = "no"
    /\ state["client"] # "ESTABLISHED"
    /\ Send(SYN)
    /\ UNCHANGED <<state, hashed, packet_FIN, queueVars, pc, kpc, gone>>

ConnectReturn ==
    /\ pc["client"]["app"] = "connecting"
    /\ gone["client"] = "no"
    /\ state["client"] = "ESTABLISHED"
    /\ Goto("client", "app", "open")
    /\ UNCHANGED <<net, state, hashed, packet_FIN, queueVars, kpc, gone>>

-----------------------------------------------------------------------------
(* tju_accept, in the server's application thread.                         *)

AcceptTake ==
    /\ pc["server"]["app"] = "accept"
    /\ accept_queue # "none"
    /\ SetState("server", accept_queue)
    /\ accept_queue' = "none"
    /\ Goto("server", "app", "accepting")
    /\ UNCHANGED <<net, hashed, packet_FIN, syn_queue, kpc, gone>>

AcceptRegister ==
    /\ pc["server"]["app"] = "accepting"
    /\ hashed' = [hashed EXCEPT !["server"] = TRUE]
    /\ Goto("server", "app", "open")
    /\ UNCHANGED <<net, state, packet_FIN, queueVars, kpc, gone>>

-----------------------------------------------------------------------------
(* receive_thread and tju_handle_packet: one packet p for the end e.       *)

\* receive_thread is free to handle p, and onTCPPocket finds e's socket.
Found(e, p) ==
    /\ p \in net /\ p.to = e
    /\ kpc[e] = "idle"
    /\ gone[e] # "exited"
    /\ hashed[e]

\* It does not: p goes to the listening socket of a server, and is dropped by
\* a client.
NotFound(e, p) ==
    /\ p \in net /\ p.to = e
    /\ kpc[e] = "idle"
    /\ gone[e] # "exited"
    /\ ~hashed[e]

\* Operators named ...Mut are mutants, used by no definition: each is what the
\* operator after it could have been, had the code a plausible bug.

\* The ACK that answers p.  No handler reads the sequence number of an ACK: it
\* is left 0.
AckOf(p) == Packet(Peer(p.to), "ACK", 0, p.seq + 1)

\* Any packet with the right number completes the client's handshake.
HandleSynSent(e, p) ==
    /\ Found(e, p)
    /\ state[e] = "SYN_SENT"
    /\ p.ack = CLIENT_ISN + 1
    /\ Took(p, {AckOf(p)})
    /\ SetState(e, "ESTABLISHED")
    /\ UNCHANGED <<hashed, packet_FIN, queueVars, pc, kpc, gone>>

\* A SYN taken for the ACK that ends the handshake.
EndsHandshakeMut(p) == p.flags \in {"SYN", "ACK"}
EndsHandshake(p) == p.flags = "ACK" /\ p.ack = SERVER_ISN + 1

\* Every SYN is answered; en_syn_queue keeps the first socket of the slot.
ListenSyn(p) ==
    /\ NotFound("server", p)
    /\ p.flags = "SYN"
    /\ Took(p, {Packet("client", "SYN_ACK", SERVER_ISN, p.seq + 1)})
    /\ syn_queue' = "SYN_RECV"
    /\ UNCHANGED <<state, hashed, packet_FIN, accept_queue, pc, kpc, gone>>

\* get_from_syn takes the socket; en_accept_queue drops it when the slot of
\* the accept queue is taken.
ListenAck(p) ==
    /\ NotFound("server", p)
    /\ EndsHandshake(p)
    /\ syn_queue # "none"
    /\ accept_queue' = "ESTABLISHED"
    /\ Took(p, {})
    /\ syn_queue' = "none"
    /\ UNCHANGED <<state, hashed, packet_FIN, pc, kpc, gone>>

\* The peer closes: acknowledge, and sleep in the handler ...
HandlePeerFin(e, p) ==
    /\ Found(e, p)
    /\ state[e] = "ESTABLISHED"
    /\ p.flags = "FIN"
    /\ Took(p, {AckOf(p)})
    /\ SetState(e, "CLOSE_WAIT")
    /\ kpc' = [kpc EXCEPT ![e] = "close_wait"]
    /\ UNCHANGED <<hashed, packet_FIN, queueVars, pc, gone>>

\* ... then send the own FIN and start tju_close_thread.
SendOwnFin(e) ==
    /\ kpc[e] = "close_wait"
    /\ gone[e] # "exited"
    /\ Send(Packet(Peer(e), "FIN_ACK", FIN_SEQ, FIN_SEQ + 1))
    /\ packet_FIN' = [packet_FIN EXCEPT ![e] = "FIN_ACK"]
    /\ SetState(e, "LAST_ACK")
    /\ Goto(e, "helper", "open")
    /\ kpc' = [kpc EXCEPT ![e] = "idle"]
    /\ UNCHANGED <<hashed, queueVars, gone>>

\* The number that acknowledges a FIN.
AcksFin(p) == p.flags = "ACK" /\ p.ack = FIN_SEQ + 1

HandleFinAcked(e, p) ==
    /\ Found(e, p)
    /\ state[e] = "FIN_WAIT_1"
    /\ AcksFin(p)
    /\ Took(p, {})
    /\ SetState(e, "FIN_WAIT_2")
    /\ UNCHANGED <<hashed, packet_FIN, queueVars, pc, kpc, gone>>

HandleBothClose(e, p) ==
    /\ Found(e, p)
    /\ state[e] = "FIN_WAIT_1"
    /\ p.flags \in {"FIN", "FIN_ACK"}
    /\ Took(p, {AckOf(p)})
    /\ SetState(e, "CLOSING")
    /\ UNCHANGED <<hashed, packet_FIN, queueVars, pc, kpc, gone>>

IsFinAckMut(p) == p.flags \in {"FIN_ACK", "ACK"}
IsFinAck(p) == p.flags = "FIN_ACK"

\* The peer's FIN, or in CLOSING the ACK of the own one: sleep in TIME_WAIT.
HandleTimeWait(e, p) ==
    /\ Found(e, p)
    /\ \/ /\ state[e] = "FIN_WAIT_2"
          /\ IsFinAck(p)
          /\ Took(p, {AckOf(p)})
       \/ /\ state[e] = "CLOSING"
          /\ AcksFin(p)
          /\ Took(p, {})
    /\ SetState(e, "TIME_WAIT")
    /\ kpc' = [kpc EXCEPT ![e] = "time_wait"]
    /\ UNCHANGED <<hashed, packet_FIN, queueVars, pc, gone>>

TimeWaitEnd(e) ==
    /\ kpc[e] = "time_wait"
    /\ gone[e] # "exited"
    /\ SetState(e, "CLOSED")
    /\ kpc' = [kpc EXCEPT ![e] = "idle"]
    /\ UNCHANGED <<net, hashed, packet_FIN, queueVars, pc, gone>>

HandleLastAck(e, p) ==
    /\ Found(e, p)
    /\ state[e] = "LAST_ACK"
    /\ AcksFin(p)
    /\ Took(p, {})
    /\ SetState(e, "CLOSED")
    /\ UNCHANGED <<hashed, packet_FIN, queueVars, pc, kpc, gone>>

\* Any other packet, and any packet while the branches above do not want it,
\* is thrown away without a trace: that is Lose.
Lose(p) ==
    /\ p \in net
    /\ net' = net \ {p}
    /\ UNCHANGED <<state, hashed, packet_FIN, queueVars, pc, kpc, gone>>

\* Every segment of the peer's data, expected, late or early, and every probe is
\* answered with an ACK for the byte expected next.
DataAck(e) ==
    /\ kpc[e] = "idle"
    /\ gone[e] = "no"
    /\ hashed[e]
    /\ state[e] = "ESTABLISHED"
    /\ pc[Peer(e)]["app"] \notin {"connect", "register", "connecting", "accept", "accepting"}
    /\ \E a \in DataAcks : Send(Packet(Peer(e), "ACK", 0, a))
    /\ UNCHANGED <<state, hashed, packet_FIN, queueVars, pc, kpc, gone>>

-----------------------------------------------------------------------------
(* tju_close, in the application thread of either end or in the helper      *)
(* tju_close_thread.  A thread of the end whose socket is freed already is  *)
(* not followed any further: it uses freed memory.                          *)

\* tju_close in ESTABLISHED: the state is read and the FIN sent ...
CloseActive(e, t) ==
    /\ pc[e][t] = "open"
    /\ gone[e] = "no"
    /\ state[e] = "ESTABLISHED"
    /\ Send(Packet(Peer(e), "FIN", FIN_SEQ, 0))
    /\ packet_FIN' = [packet_FIN EXCEPT ![e] = "FIN"]
    /\ Goto(e, t, "fin_sent")
    /\ UNCHANGED <<state, hashed, queueVars, kpc, gone>>

\* ... and the state written, whatever receive_thread made of it meanwhile.
CloseMark(e, t) ==
    /\ pc[e][t] = "fin_sent"
    /\ gone[e] = "no"
    /\ SetState(e, "FIN_WAIT_1")
    /\ Goto(e, t, "closing")
    /\ UNCHANGED <<net, hashed, packet_FIN, queueVars, kpc, gone>>

\* tju_close in LAST_ACK waits; in any other state it ends the process.
ClosePassive(e, t) ==
    /\ pc[e][t] = "open"
    /\ gone[e] = "no"
    /\ state[e] = "LAST_ACK"
    /\ Goto(e, t, "closing")
    /\ UNCHANGED <<net, state, hashed, packet_FIN, queueVars, kpc, gone>>

CloseExits(e, t) ==
    /\ pc[e][t] = "open"
    /\ gone[e] = "no"
    /\ state[e] \notin {"ESTABLISHED", "LAST_ACK"}
    /\ gone' = [gone EXCEPT ![e] = "exited"]
    /\ UNCHANGED <<net, state, hashed, packet_FIN, queueVars, pc, kpc>>

\* The busy loop: resend packet_FIN when the timer says so, leave in CLOSED.
UnfinishedMut(e) == state[e] = "FIN_WAIT_1"
Unfinished(e) == state[e] # "CLOSED"
CloseResend(e, t) ==
    /\ pc[e][t] = "closing"
    /\ gone[e] = "no"
    /\ Unfinished(e)
    /\ Send(IF packet_FIN[e] = "FIN" THEN Packet(Peer(e), "FIN", FIN_SEQ, 0)
            ELSE Packet(Peer(e), "FIN_ACK", FIN_SEQ, FIN_SEQ + 1))
    /\ UNCHANGED <<state, hashed, packet_FIN, queueVars, pc, kpc, gone>>

CloseReturn(e, t) ==
    /\ pc[e][t] = "closing"
    /\ gone[e] = "no"
    /\ state[e] = "CLOSED"
    /\ hashed' = [hashed EXCEPT ![e] = FALSE]
    /\ gone' = [gone EXCEPT ![e] = "freed"]
    /\ Goto(e, t, "closed")
    /\ UNCHANGED <<net, state, packet_FIN, queueVars, kpc>>

Close(e, t) ==
    \/ CloseActive(e, t) \/ CloseMark(e, t) \/ ClosePassive(e, t) \/ CloseExits(e, t)
    \/ CloseResend(e, t) \/ CloseReturn(e, t)

-----------------------------------------------------------------------------
Connect == ConnectSend \/ ConnectRegister \/ ConnectResend \/ ConnectReturn
Accept == AcceptTake \/ AcceptRegister

Handle(e, p) ==
    \/ HandleSynSent(e, p) \/ HandlePeerFin(e, p) \/ HandleFinAcked(e, p)
    \/ HandleBothClose(e, p) \/ HandleTimeWait(e, p) \/ HandleLastAck(e, p)

Awake(e) == SendOwnFin(e) \/ TimeWaitEnd(e)

Next ==
    \/ Connect
    \/ Accept
    \/ \E p \in net : ListenSyn(p) \/ ListenAck(p) \/ Lose(p)
    \/ \E e \in Ends :
        \/ \E p \in net : Handle(e, p)
        \/ Awake(e) \/ DataAck(e)
        \/ \E t \in Threads : Close(e, t)

Spec == Init /\ [][Next]_vars

\* The threads keep running and the timers keep expiring; a packet that is
\* sent again and again gets through again and again.  The application need
\* not close.
Fairness ==
    /\ WF_vars(Connect) /\ WF_vars(Accept)
    /\ SF_vars(\E p \in net : ListenSyn(p))
    /\ SF_vars(\E p \in net : ListenAck(p))
    /\ \A e \in Ends :
        /\ SF_vars(\E p \in net : Handle(e, p))
        /\ WF_vars(Awake(e))
        /\ WF_vars(Close(e, "helper"))
        /\ WF_vars(pc[e]["app"] # "open" /\ Close(e, "app"))
FairSpec == Spec /\ Fairness

-----------------------------------------------------------------------------
(* Properties.                                                             *)

\* Every variable has its type.
TypeOK ==
    /\ net \subseteq Packets
    /\ state \in [Ends -> States]
    /\ hashed \in [Ends -> BOOLEAN]
    /\ packet_FIN \in [Ends -> {"none", "FIN", "FIN_ACK"}]
    /\ syn_queue \in {"none", "SYN_RECV"}
    /\ accept_queue \in {"none", "ESTABLISHED"}
    /\ pc \in [Ends -> [Threads -> {"none", "connect", "register", "connecting",
            "accept", "accepting", "open", "fin_sent", "closing", "closed"}]]
    /\ kpc \in [Ends -> {"idle", "close_wait", "time_wait"}]
    /\ gone \in [Ends -> {"no", "freed", "exited"}]

\* tju_accept returns only a connection whose client has completed its own
\* part of the handshake, whatever SYNs and ACKs are duplicated or late.
Accepted == pc["server"]["app"] # "accept"
Connected ==
    \/ gone["client"] # "no"
    \/ hashed["client"] /\ state["client"] # "SYN_SENT"
AcceptedIsConnected == Accepted => Connected

\* An end believes that the connection is over only when the other end has
\* sent its FIN: no stale or duplicated packet takes the place of that FIN.
ClosedByBoth ==
    \A e \in Ends :
        state[e] \in {"CLOSE_WAIT", "CLOSING", "LAST_ACK", "TIME_WAIT"} \/ gone[e] = "freed"
            => packet_FIN[Peer(e)] # "none"

\* A connection opens at the client before the server, each end sends its FIN
\* only after the handshake, the socket of either is freed only when both FINs
\* were sent, and no duplicated or late packet and no race of tju_close with
\* receive_thread takes an end back.
Life == INSTANCE Lifecycle WITH
    opened <- { e \in Ends : IF e = "client" THEN Connected ELSE Accepted },
    shut <- { e \in Ends : packet_FIN[e] # "none" },
    over <- { e \in Ends : gone[e] = "freed" }
ImplementsLifecycle == Life!LSpec

\* The client's part of the handshake ends, however many SYNs and SYN_ACKs are
\* lost: the SYN is sent again until it is answered.
ClientConnects == <>(state["client"] \notin {"CLOSED", "SYN_SENT"})

\* How the life of a connection can stop short of CLOSED:
\*   - another thread of this end, or the other end, is gone, and with it
\*     whoever would have answered;
\*   - the server has not accepted the connection;
\*   - both ends have taken the other's FIN and wait for an ACK of their own,
\*     which is never sent again;
\*   - an end in FIN_WAIT_2 is offered the FIN of an active close, which it
\*     does not take.
Wedged(e) ==
    \/ gone[e] # "no" \/ gone[Peer(e)] # "no"
    \/ ~hashed["server"]
    \/ \A d \in Ends : state[d] \in {"CLOSING", "LAST_ACK"}
    \/ \E d \in Ends : state[d] = "FIN_WAIT_2" /\ packet_FIN[Peer(d)] = "FIN"

\* In every other case tju_close returns, whatever packets are lost on the
\* way and in whatever order the two ends close.
CloseReturns ==
    \A e \in Ends :
        (pc[e]["app"] = "closing") ~> (pc[e]["app"] = "closed" \/ Wedged(e))

\* A connection that tju_connect has returned is accepted by the server.  It
\* does not hold of the code: the third packet of the handshake is sent once.
ConnectedIsAccepted == (pc["client"]["app"] = "open") ~> Accepted

\* When both ends have called tju_close, at least one call returns.  It does
\* not hold of the code, although both send their FIN again for ever.
BothCloseReturns ==
    (\A e \in Ends : pc[e]["app"] = "closing")
        ~> (\E e \in Ends : gone[e] # "no")

\* An end takes its FIN for acknowledged only when the other end has seen it.
\* It does not hold of the code: an ACK of the handshake, or of the first byte
\* of data, has the same number.
FinAckIsForFin ==
    \A e \in Ends :
        state[e] \in {"FIN_WAIT_2", "TIME_WAIT"} \/ gone[e] = "freed"
            => state[Peer(e)] # "ESTABLISHED"

-----------------------------------------------------------------------------
(* The inductive invariant behind the safety properties.                   *)

\* tju_connect has not made its socket known yet.
Unknown == pc["client"]["app"] \in {"connect", "register"}
UnknownInv ==
    Unknown =>
        /\ ~hashed["client"] /\ gone["client"] = "no"
        /\ pc["client"]["helper"] = "none" /\ kpc["client"] = "idle"

\* Only a connected client acknowledges anything, and only its ACK gets a
\* socket into the accept queue.
HandshakeInv ==
    /\ \A p \in net : p.to = "server" /\ p.flags = "ACK" => Connected
    /\ accept_queue # "none" \/ Accepted => Connected

\* A FIN on the network, and a thread that waits in tju_close, come from an
\* end that has built its FIN.
FinInv ==
    /\ \A p \in net : p.flags \in {"FIN", "FIN_ACK"} => packet_FIN[Peer(p.to)] # "none"
    /\ \A e \in Ends :
        state[e] = "LAST_ACK" \/ (\E t \in Threads : pc[e][t] \in {"fin_sent", "closing"})
            => packet_FIN[e] # "none"

\* An end that has seen the FIN of the other one ever after.
PeerFinInv ==
    \A e \in Ends :
        (\/ state[e] \in {"CLOSE_WAIT", "CLOSING", "LAST_ACK", "TIME_WAIT"}
         \/ kpc[e] # "idle"
         \/ gone[e] = "freed"
         \/ state[e] = "CLOSED" /\ ~(e = "client" /\ Unknown))
            => packet_FIN[Peer(e)] # "none"

\* An end at which the connection is not open has no thread that could close
\* it, and receive_thread finds no socket of the server.
NotOpenInv ==
    /\ ~Unknown => hashed["client"] \/ gone["client"] # "no"
    /\ ~Connected =>
        /\ pc["client"]["app"] \in {"connect", "register", "connecting"}
        /\ pc["client"]["helper"] = "none" /\ kpc["client"] = "idle"
        /\ packet_FIN["client"] = "none"
    /\ ~Accepted =>
        /\ ~hashed["server"] /\ gone["server"] = "no"
        /\ pc["server"]["helper"] = "none" /\ kpc["server"] = "idle"
        /\ packet_FIN["server"] = "none"

\* The inductive invariant: ACKs and FINs on the network testify to what their
\* senders have done, and only an open end does anything.
ConnectionInv ==
    /\ TypeOK
    /\ UnknownInv
    /\ HandshakeInv
    /\ FinInv
    /\ PeerFinInv
    /\ NotOpenInv

\* What FinAckIsForFin lacks: a number of its own for the FIN, neither that of a
\* SYN nor, plus one, that of an ACK of data.  The code gives it the number 0 of
\* the two SYNs, whose ACKs and the first ACKs of data all have number 1.
FinHasOwnNumber ==
    /\ FIN_SEQ \notin {0, CLIENT_ISN, SERVER_ISN}
    /\ FIN_SEQ + 1 \notin DataAcks

\* The packets on the network carry the numbers of their kind.
NumbersInv ==
    \A p \in net :
        /\ p.flags = "SYN" => p.seq = CLIENT_ISN
        /\ p.flags = "SYN_ACK" => p.seq = SERVER_ISN
        /\ p.flags = "ACK" => p.seq = 0
        /\ p.flags = "FIN" => p.ack = 0
        /\ p.flags = "FIN_ACK" => p.ack = FIN_SEQ + 1

\* e has been in ESTABLISHED and will not be again.
Past(e) ==
    /\ state[e] \notin {"LISTEN", "SYN_SENT", "SYN_RECV", "ESTABLISHED"}
    /\ ~(e = "client" /\ Unknown)

\* A FIN is acknowledged by an end that it took out of ESTABLISHED, and its
\* sender goes on only with that ACK or with a FIN that acknowledges it.
FinAckedInv ==
    /\ \A p \in net : AcksFin(p) => Past(Peer(p.to))
    /\ \A e \in Ends :
        (\/ state[e] \in {"FIN_WAIT_2", "TIME_WAIT"}
         \/ state[e] = "CLOSED" /\ Past(e)
         \/ kpc[e] = "time_wait"
         \/ gone[e] = "freed")
            => Past(Peer(e))

\* The inductive invariant behind FinAckIsForFin when FinHasOwnNumber.
OwnNumberInv ==
    /\ NumbersInv
    /\ FinAckedInv
    /\ ~Accepted => state["server"] = "LISTEN"
=============================================================================
