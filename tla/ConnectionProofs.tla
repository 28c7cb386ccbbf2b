-------------------------- MODULE ConnectionProofs --------------------------
(***************************************************************************)
(* Proofs about Connection, for every choice of the sequence numbers and   *)
(* every capacity of the network.                                          *)
(***************************************************************************)
EXTENDS Connection, TLAPS

\* The network invents nothing: what it holds was there or was just sent.
LEMMA SendAddsOne == ASSUME NEW p, Send(p) PROVE net' \subseteq net \cup {p}
  BY DEF Send, Held

LEMMA TookAddsReplies ==
    ASSUME NEW p, NEW out, Took(p, out) PROVE net' \subseteq net \cup out
  BY DEF Took, Held

\* The packets the code builds are packets.
LEMMA PacketIsPacket ==
    ASSUME NEW e \in Ends, NEW seq \in Nat, NEW ack \in Nat,
           NEW flags \in {"SYN", "SYN_ACK", "ACK", "FIN", "FIN_ACK"}
    PROVE  Packet(e, flags, seq, ack) \in Packets
  BY DEF Packet, Packets

LEMMA PeerIsEnd == \A e \in Ends : Peer(e) \in Ends /\ Peer(Peer(e)) = e
  BY DEF Ends, Peer

\* The answer to a packet is a packet.
LEMMA AckIsPacket == ASSUME NEW p \in Packets PROVE AckOf(p) \in Packets
<1>1. p.to \in Ends /\ p.seq + 1 \in Nat
  BY DEF Packets
<1> QED
  BY <1>1, PacketIsPacket, PeerIsEnd DEF AckOf

\* The initial state satisfies the inductive invariant.
LEMMA InitConnectionInv == Init => ConnectionInv
  BY DEF Init, ConnectionInv, TypeOK, UnknownInv, HandshakeInv, FinInv,
     PeerFinInv, NotOpenInv, Accepted, Ends, Threads, States, Unknown

\* The steps of tju_connect.
LEMMA ConnectSendInv == ConnectionInv /\ ConnectSend => ConnectionInv'
<1> SUFFICES ASSUME ConnectionInv, ConnectSend PROVE ConnectionInv'
  OBVIOUS
<1> USE DEF ConnectSend, queueVars, Goto
<1>1. net' \subseteq net \cup {SYN} /\ SYN \in Packets
  BY SendAddsOne, PacketIsPacket, NumbersAssumption DEF SYN, Ends
<1>2. TypeOK'
  BY <1>1 DEF ConnectionInv, TypeOK
<1>3. UnknownInv'
  BY DEF ConnectionInv, UnknownInv, Unknown
<1>4. HandshakeInv'
  BY <1>1 DEF ConnectionInv, HandshakeInv, Connected, Accepted, Packet, SYN
<1>5. FinInv'
  BY <1>1 DEF ConnectionInv, FinInv, Packet, SYN
<1>6. PeerFinInv'
  BY DEF ConnectionInv, PeerFinInv, Unknown
<1>7. NotOpenInv'
  BY DEF ConnectionInv, NotOpenInv, Unknown, Connected, Accepted
<1> QED
  BY <1>2, <1>3, <1>4, <1>5, <1>6, <1>7 DEF ConnectionInv

LEMMA ConnectRegisterInv == ConnectionInv /\ ConnectRegister => ConnectionInv'
<1> SUFFICES ASSUME ConnectionInv, ConnectRegister PROVE ConnectionInv'
  OBVIOUS
<1> USE DEF ConnectRegister, queueVars, Goto, SetState
<1>2. TypeOK'
  BY DEF ConnectionInv, TypeOK, States
<1>3. UnknownInv'
  BY DEF ConnectionInv, TypeOK, UnknownInv, Threads, Unknown
<1>4. HandshakeInv'
  BY DEF ConnectionInv, UnknownInv, HandshakeInv, Connected, Accepted, Unknown
<1>5. FinInv'
  BY DEF ConnectionInv, FinInv
<1>6. PeerFinInv'
  BY DEF ConnectionInv, TypeOK, PeerFinInv
<1>7. NotOpenInv'
  BY DEF ConnectionInv, TypeOK, NotOpenInv, UnknownInv, Unknown, Connected, Accepted, Threads
<1> QED
  BY <1>2, <1>3, <1>4, <1>5, <1>6, <1>7 DEF ConnectionInv

LEMMA ConnectResendInv == ConnectionInv /\ ConnectResend => ConnectionInv'
<1> SUFFICES ASSUME ConnectionInv, ConnectResend PROVE ConnectionInv'
  OBVIOUS
<1> USE DEF ConnectResend, queueVars
<1>1. net' \subseteq net \cup {SYN} /\ SYN \in Packets
  BY SendAddsOne, PacketIsPacket, NumbersAssumption DEF SYN, Ends
<1>2. TypeOK'
  BY <1>1 DEF ConnectionInv, TypeOK
<1>3. UnknownInv'
  BY DEF UnknownInv, Unknown
<1>4. HandshakeInv'
  BY <1>1 DEF ConnectionInv, HandshakeInv, Connected, Accepted, Packet, SYN
<1>5. FinInv'
  BY <1>1 DEF ConnectionInv, FinInv, Packet, SYN
<1>6. PeerFinInv'
  BY DEF ConnectionInv, PeerFinInv, Unknown
<1>7. NotOpenInv'
  BY DEF ConnectionInv, NotOpenInv, Unknown, Connected, Accepted
<1> QED
  BY <1>2, <1>3, <1>4, <1>5, <1>6, <1>7 DEF ConnectionInv

LEMMA ConnectReturnInv == ConnectionInv /\ ConnectReturn => ConnectionInv'
<1> SUFFICES ASSUME ConnectionInv, ConnectReturn PROVE ConnectionInv'
  OBVIOUS
<1> USE DEF ConnectReturn, queueVars, Goto
<1>2. TypeOK'
  BY DEF ConnectionInv, TypeOK
<1>3. UnknownInv'
  BY DEF UnknownInv, Unknown
<1>4. HandshakeInv'
  BY DEF ConnectionInv, HandshakeInv, Connected, Accepted
<1>5. FinInv'
  BY DEF ConnectionInv, FinInv
<1>6. PeerFinInv'
  BY DEF ConnectionInv, PeerFinInv
<1>7. NotOpenInv'
  BY DEF ConnectionInv, NotOpenInv, Unknown, Connected, Accepted
<1> QED
  BY <1>2, <1>3, <1>4, <1>5, <1>6, <1>7 DEF ConnectionInv

\* The steps of tju_accept.
LEMMA AcceptTakeInv == ConnectionInv /\ AcceptTake => ConnectionInv'
<1> SUFFICES ASSUME ConnectionInv, AcceptTake PROVE ConnectionInv'
  OBVIOUS
<1> USE DEF AcceptTake, SetState, Goto
<1>2. TypeOK'
  BY DEF ConnectionInv, TypeOK, States
<1>3. UnknownInv'
  BY DEF ConnectionInv, UnknownInv, Unknown
<1>4. HandshakeInv'
  BY DEF ConnectionInv, HandshakeInv, Connected
<1>5. FinInv'
  BY DEF ConnectionInv, TypeOK, FinInv
<1>6. PeerFinInv'
  BY DEF ConnectionInv, TypeOK, PeerFinInv, Unknown
<1>7. NotOpenInv'
  BY DEF ConnectionInv, NotOpenInv, Unknown, Connected, Accepted
<1> QED
  BY <1>2, <1>3, <1>4, <1>5, <1>6, <1>7 DEF ConnectionInv

LEMMA AcceptRegisterInv == ConnectionInv /\ AcceptRegister => ConnectionInv'
<1> SUFFICES ASSUME ConnectionInv, AcceptRegister PROVE ConnectionInv'
  OBVIOUS
<1> USE DEF AcceptRegister, queueVars, Goto
<1>2. TypeOK'
  BY DEF ConnectionInv, TypeOK
<1>3. UnknownInv'
  BY DEF ConnectionInv, UnknownInv, Unknown
<1>4. HandshakeInv'
  BY DEF ConnectionInv, HandshakeInv, Connected, Accepted
<1>5. FinInv'
  BY DEF ConnectionInv, FinInv
<1>6. PeerFinInv'
  BY DEF ConnectionInv, PeerFinInv, Unknown
<1>7. NotOpenInv'
  BY DEF ConnectionInv, NotOpenInv, Unknown, Connected, Accepted
<1> QED
  BY <1>2, <1>3, <1>4, <1>5, <1>6, <1>7 DEF ConnectionInv

\* The branches of tju_handle_packet.
LEMMA HandleSynSentInv ==
    ASSUME ConnectionInv, NEW e \in Ends, NEW p \in net, HandleSynSent(e, p)
    PROVE  ConnectionInv'
<1> USE DEF HandleSynSent, Found, queueVars, SetState
<1>1. net' \subseteq net \cup {AckOf(p)} /\ AckOf(p) \in Packets
  <2>1. p \in Packets
    BY DEF ConnectionInv, TypeOK
  <2> QED
    BY <2>1, TookAddsReplies, AckIsPacket
<1>2. TypeOK'
  BY <1>1 DEF ConnectionInv, TypeOK, States
<1>3. UnknownInv'
  BY DEF ConnectionInv, UnknownInv, Unknown
<1>4. HandshakeInv'
  BY <1>1 DEF ConnectionInv, TypeOK, HandshakeInv, Connected, Accepted, AckOf,
     Packet, Peer
<1>5. FinInv'
  BY <1>1 DEF ConnectionInv, FinInv, AckOf, Packet
<1>6. PeerFinInv'
  BY DEF ConnectionInv, PeerFinInv, Unknown
<1>7. NotOpenInv'
  BY DEF ConnectionInv, NotOpenInv, Unknown, Connected, Accepted
<1> QED
  BY <1>2, <1>3, <1>4, <1>5, <1>6, <1>7 DEF ConnectionInv

LEMMA ListenSynInv ==
    ASSUME ConnectionInv, NEW p \in net, ListenSyn(p)
    PROVE  ConnectionInv'
<1> USE DEF ListenSyn, NotFound
<1>1. PICK q \in Packets : q.to = "client" /\ q.flags = "SYN_ACK" /\ net' \subseteq net \cup {q}
  <2> DEFINE q == Packet("client", "SYN_ACK", SERVER_ISN, p.seq + 1)
  <2>1. p.seq \in Nat
    BY DEF ConnectionInv, TypeOK, Packets
  <2>2. q \in Packets
    BY <2>1, PacketIsPacket, NumbersAssumption DEF Ends
  <2>3. q.to = "client" /\ q.flags = "SYN_ACK"
    BY DEF Packet
  <2> QED
    BY <2>2, <2>3, TookAddsReplies
<1>2. TypeOK'
  BY <1>1 DEF ConnectionInv, TypeOK
<1>3. UnknownInv'
  BY DEF ConnectionInv, UnknownInv, Unknown
<1>4. HandshakeInv'
  BY <1>1 DEF ConnectionInv, HandshakeInv, Connected, Accepted
<1>5. FinInv'
  BY <1>1 DEF ConnectionInv, FinInv
<1>6. PeerFinInv'
  BY DEF ConnectionInv, PeerFinInv, Unknown
<1>7. NotOpenInv'
  BY DEF ConnectionInv, NotOpenInv, Unknown, Connected, Accepted
<1> QED
  BY <1>2, <1>3, <1>4, <1>5, <1>6, <1>7 DEF ConnectionInv

LEMMA ListenAckInv ==
    ASSUME ConnectionInv, NEW p \in net, ListenAck(p)
    PROVE  ConnectionInv'
<1> USE DEF ListenAck, NotFound, EndsHandshake
<1>1. net' \subseteq net
  BY TookAddsReplies
<1>2. TypeOK'
  BY <1>1 DEF ConnectionInv, TypeOK
<1>3. UnknownInv'
  BY DEF ConnectionInv, UnknownInv, Unknown
<1>4. HandshakeInv'
  BY <1>1 DEF ConnectionInv, HandshakeInv, Connected
<1>5. FinInv'
  BY <1>1 DEF ConnectionInv, FinInv
<1>6. PeerFinInv'
  BY DEF ConnectionInv, PeerFinInv, Unknown
<1>7. NotOpenInv'
  BY DEF ConnectionInv, NotOpenInv, Unknown, Connected, Accepted
<1> QED
  BY <1>2, <1>3, <1>4, <1>5, <1>6, <1>7 DEF ConnectionInv

LEMMA HandlePeerFinInv ==
    ASSUME ConnectionInv, NEW e \in Ends, NEW p \in net, HandlePeerFin(e, p)
    PROVE  ConnectionInv'
<1> USE DEF HandlePeerFin, Found, queueVars, SetState
<1>1. net' \subseteq net \cup {AckOf(p)} /\ AckOf(p) \in Packets
  <2>1. p \in Packets
    BY DEF ConnectionInv, TypeOK
  <2> QED
    BY <2>1, TookAddsReplies, AckIsPacket
<1>2. TypeOK'
  BY <1>1 DEF ConnectionInv, TypeOK, States
<1>3. UnknownInv'
  BY DEF ConnectionInv, UnknownInv, Unknown
<1>4. HandshakeInv'
  BY <1>1 DEF ConnectionInv, HandshakeInv, Connected, Accepted, AckOf, Packet,
     Peer
<1>5. FinInv'
  BY <1>1 DEF ConnectionInv, FinInv, AckOf, Packet
<1>6. PeerFinInv'
  BY DEF ConnectionInv, FinInv, PeerFinInv, Unknown
<1>7. NotOpenInv'
  BY DEF ConnectionInv, NotOpenInv, Unknown, Connected, Accepted
<1> QED
  BY <1>2, <1>3, <1>4, <1>5, <1>6, <1>7 DEF ConnectionInv

LEMMA SendOwnFinInv ==
    ASSUME ConnectionInv, NEW e \in Ends, SendOwnFin(e)
    PROVE  ConnectionInv'
<1> USE DEF SendOwnFin, queueVars, SetState, Goto
<1>1. PICK q \in Packets : /\ q.to = Peer(e) /\ q.flags \in {"FIN", "FIN_ACK"}
                              /\ net' \subseteq net \cup {q}
  <2>1. \A f \in {"FIN", "FIN_ACK"}, a \in Nat :
            LET q == Packet(Peer(e), f, FIN_SEQ, a) IN
            q \in Packets /\ q.to = Peer(e) /\ q.flags = f
    BY PacketIsPacket, PeerIsEnd, NumbersAssumption DEF Packet
  <2>2. FIN_SEQ + 1 \in Nat
    BY NumbersAssumption
  <2> QED
    BY <2>1, <2>2, SendAddsOne
<1>2. TypeOK'
  BY <1>1 DEF ConnectionInv, TypeOK, States
<1>3. UnknownInv'
  BY DEF ConnectionInv, UnknownInv, Unknown
<1>4. HandshakeInv'
  BY <1>1 DEF ConnectionInv, HandshakeInv, Connected, Accepted
<1>5. FinInv'
  BY <1>1 DEF ConnectionInv, TypeOK, FinInv, Ends, Peer
<1>6. PeerFinInv'
  BY DEF ConnectionInv, PeerFinInv, Unknown
<1>7. NotOpenInv'
  BY DEF ConnectionInv, NotOpenInv, Unknown, Connected, Accepted
<1> QED
  BY <1>2, <1>3, <1>4, <1>5, <1>6, <1>7 DEF ConnectionInv

LEMMA HandleFinAckedInv ==
    ASSUME ConnectionInv, NEW e \in Ends, NEW p \in net, HandleFinAcked(e, p)
    PROVE  ConnectionInv'
<1> USE DEF HandleFinAcked, Found, queueVars, SetState
<1>1. net' \subseteq net
  BY TookAddsReplies
<1>2. TypeOK'
  BY <1>1 DEF ConnectionInv, TypeOK, States
<1>3. UnknownInv'
  BY DEF ConnectionInv, UnknownInv, Unknown
<1>4. HandshakeInv'
  BY <1>1 DEF ConnectionInv, HandshakeInv, Connected, Accepted
<1>5. FinInv'
  BY <1>1 DEF ConnectionInv, FinInv
<1>6. PeerFinInv'
  BY DEF ConnectionInv, PeerFinInv, Unknown
<1>7. NotOpenInv'
  BY DEF ConnectionInv, NotOpenInv, Unknown, Connected, Accepted
<1> QED
  BY <1>2, <1>3, <1>4, <1>5, <1>6, <1>7 DEF ConnectionInv

LEMMA HandleBothCloseInv ==
    ASSUME ConnectionInv, NEW e \in Ends, NEW p \in net, HandleBothClose(e, p)
    PROVE  ConnectionInv'
<1> USE DEF HandleBothClose, Found, queueVars, SetState
<1>1. net' \subseteq net \cup {AckOf(p)} /\ AckOf(p) \in Packets
  <2>1. p \in Packets
    BY DEF ConnectionInv, TypeOK
  <2> QED
    BY <2>1, TookAddsReplies, AckIsPacket
<1>2. TypeOK'
  BY <1>1 DEF ConnectionInv, TypeOK, States
<1>3. UnknownInv'
  BY DEF ConnectionInv, UnknownInv, Unknown
<1>4. HandshakeInv'
  BY <1>1 DEF ConnectionInv, HandshakeInv, Connected, Accepted, AckOf, Packet,
     Peer
<1>5. FinInv'
  BY <1>1 DEF ConnectionInv, FinInv, AckOf, Packet
<1>6. PeerFinInv'
  BY DEF ConnectionInv, FinInv, PeerFinInv, Unknown
<1>7. NotOpenInv'
  BY DEF ConnectionInv, NotOpenInv, Unknown, Connected, Accepted
<1> QED
  BY <1>2, <1>3, <1>4, <1>5, <1>6, <1>7 DEF ConnectionInv

LEMMA HandleTimeWaitInv ==
    ASSUME ConnectionInv, NEW e \in Ends, NEW p \in net, HandleTimeWait(e, p)
    PROVE  ConnectionInv'
<1> USE DEF HandleTimeWait, Found, IsFinAck, queueVars, SetState
<1>1. net' \subseteq net \cup {AckOf(p)} /\ AckOf(p) \in Packets
  <2>1. p \in Packets
    BY DEF ConnectionInv, TypeOK
  <2> QED
    BY <2>1, TookAddsReplies, AckIsPacket
<1>2. TypeOK'
  BY <1>1 DEF ConnectionInv, TypeOK, States
<1>3. UnknownInv'
  BY DEF ConnectionInv, UnknownInv, Unknown
<1>4. HandshakeInv'
  BY <1>1 DEF ConnectionInv, HandshakeInv, Connected, Accepted, AckOf, Packet,
     Peer
<1>5. FinInv'
  BY <1>1 DEF ConnectionInv, FinInv, AckOf, Packet
<1>6. PeerFinInv'
  BY DEF ConnectionInv, FinInv, PeerFinInv, Unknown
<1>7. NotOpenInv'
  BY DEF ConnectionInv, NotOpenInv, Unknown, Connected, Accepted
<1> QED
  BY <1>2, <1>3, <1>4, <1>5, <1>6, <1>7 DEF ConnectionInv

LEMMA TimeWaitEndInv ==
    ASSUME ConnectionInv, NEW e \in Ends, TimeWaitEnd(e)
    PROVE  ConnectionInv'
<1> USE DEF TimeWaitEnd, queueVars, SetState
<1>2. TypeOK'
  BY DEF ConnectionInv, TypeOK, States
<1>3. UnknownInv'
  BY DEF ConnectionInv, UnknownInv, Unknown
<1>4. HandshakeInv'
  BY DEF ConnectionInv, HandshakeInv, Connected, Accepted
<1>5. FinInv'
  BY DEF ConnectionInv, FinInv
<1>6. PeerFinInv'
  BY DEF ConnectionInv, PeerFinInv, Unknown
<1>7. NotOpenInv'
  BY DEF ConnectionInv, NotOpenInv, Unknown, Connected, Accepted
<1> QED
  BY <1>2, <1>3, <1>4, <1>5, <1>6, <1>7 DEF ConnectionInv

LEMMA HandleLastAckInv ==
    ASSUME ConnectionInv, NEW e \in Ends, NEW p \in net, HandleLastAck(e, p)
    PROVE  ConnectionInv'
<1> USE DEF HandleLastAck, Found, queueVars, SetState
<1>1. net' \subseteq net
  BY TookAddsReplies
<1>2. TypeOK'
  BY <1>1 DEF ConnectionInv, TypeOK, States
<1>3. UnknownInv'
  BY DEF ConnectionInv, UnknownInv, Unknown
<1>4. HandshakeInv'
  BY <1>1 DEF ConnectionInv, HandshakeInv, Connected, Accepted
<1>5. FinInv'
  BY <1>1 DEF ConnectionInv, FinInv
<1>6. PeerFinInv'
  BY DEF ConnectionInv, PeerFinInv, Unknown
<1>7. NotOpenInv'
  BY DEF ConnectionInv, NotOpenInv, Unknown, Connected, Accepted
<1> QED
  BY <1>2, <1>3, <1>4, <1>5, <1>6, <1>7 DEF ConnectionInv

\* The network, and the ACKs for data.
LEMMA LoseInv ==
    ASSUME ConnectionInv, NEW p \in net, Lose(p)
    PROVE  ConnectionInv'
<1> USE DEF Lose, queueVars
<1>2. TypeOK'
  BY DEF ConnectionInv, TypeOK
<1>3. UnknownInv'
  BY DEF ConnectionInv, UnknownInv, Unknown
<1>4. HandshakeInv'
  BY DEF ConnectionInv, HandshakeInv, Connected, Accepted
<1>5. FinInv'
  BY DEF ConnectionInv, FinInv
<1>6. PeerFinInv'
  BY DEF ConnectionInv, PeerFinInv, Unknown
<1>7. NotOpenInv'
  BY DEF ConnectionInv, NotOpenInv, Unknown, Connected, Accepted
<1> QED
  BY <1>2, <1>3, <1>4, <1>5, <1>6, <1>7 DEF ConnectionInv

LEMMA DataAckInv ==
    ASSUME ConnectionInv, NEW e \in Ends, DataAck(e)
    PROVE  ConnectionInv'
<1> USE DEF DataAck, queueVars
<1>0. PICK n \in DataAcks : Send(Packet(Peer(e), "ACK", 0, n))
  OBVIOUS
<1>1. PICK q \in Packets : /\ q.to = Peer(e) /\ q.flags = "ACK"
                              /\ net' \subseteq net \cup {q}
  BY <1>0, SendAddsOne, PacketIsPacket, PeerIsEnd, NumbersAssumption DEF Packet
<1>2. TypeOK'
  BY <1>1 DEF ConnectionInv, TypeOK
<1>3. UnknownInv'
  BY DEF ConnectionInv, UnknownInv, Unknown
<1>4. HandshakeInv'
  BY <1>1 DEF ConnectionInv, HandshakeInv, Connected, Accepted
<1>5. FinInv'
  BY <1>1 DEF ConnectionInv, FinInv
<1>6. PeerFinInv'
  BY DEF ConnectionInv, PeerFinInv, Unknown
<1>7. NotOpenInv'
  BY DEF ConnectionInv, NotOpenInv, Unknown, Connected, Accepted
<1> QED
  BY <1>2, <1>3, <1>4, <1>5, <1>6, <1>7 DEF ConnectionInv

\* The steps of tju_close.
LEMMA CloseActiveInv ==
    ASSUME ConnectionInv, NEW e \in Ends, NEW t \in Threads, CloseActive(e, t)
    PROVE  ConnectionInv'
<1> USE DEF CloseActive, queueVars, Goto
<1>1. PICK q \in Packets : /\ q.to = Peer(e) /\ q.flags \in {"FIN", "FIN_ACK"}
                              /\ net' \subseteq net \cup {q}
  <2>1. \A f \in {"FIN", "FIN_ACK"}, a \in Nat :
            LET q == Packet(Peer(e), f, FIN_SEQ, a) IN
            q \in Packets /\ q.to = Peer(e) /\ q.flags = f
    BY PacketIsPacket, PeerIsEnd, NumbersAssumption DEF Packet
  <2>2. FIN_SEQ + 1 \in Nat
    BY NumbersAssumption
  <2> QED
    BY <2>1, <2>2, SendAddsOne
<1>2. TypeOK'
  BY <1>1 DEF ConnectionInv, TypeOK
<1>3. UnknownInv'
  BY DEF ConnectionInv, UnknownInv, Unknown
<1>4. HandshakeInv'
  BY <1>1 DEF ConnectionInv, HandshakeInv, Connected, Accepted
<1>5. FinInv'
  BY <1>1 DEF ConnectionInv, TypeOK, FinInv, Ends, Peer
<1>6. PeerFinInv'
  BY DEF ConnectionInv, PeerFinInv, Unknown
<1>7. NotOpenInv'
  BY DEF ConnectionInv, TypeOK, NotOpenInv, Unknown, Connected, Accepted, Threads
<1> QED
  BY <1>2, <1>3, <1>4, <1>5, <1>6, <1>7 DEF ConnectionInv

LEMMA CloseMarkInv ==
    ASSUME ConnectionInv, NEW e \in Ends, NEW t \in Threads, CloseMark(e, t)
    PROVE  ConnectionInv'
<1> USE DEF CloseMark, queueVars, Goto, SetState
<1>2. TypeOK'
  BY DEF ConnectionInv, TypeOK, States
<1>3. UnknownInv'
  BY DEF ConnectionInv, UnknownInv, Unknown
<1>4. HandshakeInv'
  BY DEF ConnectionInv, HandshakeInv, Connected, Accepted
<1>5. FinInv'
  BY DEF ConnectionInv, FinInv
<1>6. PeerFinInv'
  BY DEF ConnectionInv, PeerFinInv, Unknown
<1>7. NotOpenInv'
  BY DEF ConnectionInv, NotOpenInv, Unknown, Connected, Accepted
<1> QED
  BY <1>2, <1>3, <1>4, <1>5, <1>6, <1>7 DEF ConnectionInv

LEMMA ClosePassiveInv ==
    ASSUME ConnectionInv, NEW e \in Ends, NEW t \in Threads, ClosePassive(e, t)
    PROVE  ConnectionInv'
<1> USE DEF ClosePassive, queueVars, Goto
<1>2. TypeOK'
  BY DEF ConnectionInv, TypeOK
<1>3. UnknownInv'
  BY DEF ConnectionInv, UnknownInv, Unknown
<1>4. HandshakeInv'
  BY DEF ConnectionInv, HandshakeInv, Connected, Accepted
<1>5. FinInv'
  BY DEF ConnectionInv, FinInv
<1>6. PeerFinInv'
  BY DEF ConnectionInv, PeerFinInv, Unknown
<1>7. NotOpenInv'
  BY DEF ConnectionInv, NotOpenInv, Unknown, Connected, Accepted
<1> QED
  BY <1>2, <1>3, <1>4, <1>5, <1>6, <1>7 DEF ConnectionInv

LEMMA CloseExitsInv ==
    ASSUME ConnectionInv, NEW e \in Ends, NEW t \in Threads, CloseExits(e, t)
    PROVE  ConnectionInv'
<1> USE DEF CloseExits, queueVars
<1>2. TypeOK'
  BY DEF ConnectionInv, TypeOK
<1>3. UnknownInv'
  BY DEF ConnectionInv, UnknownInv, Threads, Unknown
<1>4. HandshakeInv'
  BY DEF ConnectionInv, HandshakeInv, Connected, Accepted
<1>5. FinInv'
  BY DEF ConnectionInv, FinInv
<1>6. PeerFinInv'
  BY DEF ConnectionInv, PeerFinInv, Unknown
<1>7. NotOpenInv'
  BY DEF ConnectionInv, TypeOK, NotOpenInv, Unknown, Connected, Accepted, Threads
<1> QED
  BY <1>2, <1>3, <1>4, <1>5, <1>6, <1>7 DEF ConnectionInv

LEMMA CloseResendInv ==
    ASSUME ConnectionInv, NEW e \in Ends, NEW t \in Threads, CloseResend(e, t)
    PROVE  ConnectionInv'
<1> USE DEF CloseResend, Unfinished, queueVars
<1>1. PICK q \in Packets : /\ q.to = Peer(e) /\ q.flags \in {"FIN", "FIN_ACK"}
                              /\ net' \subseteq net \cup {q}
  <2>1. \A f \in {"FIN", "FIN_ACK"}, a \in Nat :
            LET q == Packet(Peer(e), f, FIN_SEQ, a) IN
            q \in Packets /\ q.to = Peer(e) /\ q.flags = f
    BY PacketIsPacket, PeerIsEnd, NumbersAssumption DEF Packet
  <2>2. FIN_SEQ + 1 \in Nat
    BY NumbersAssumption
  <2> QED
    BY <2>1, <2>2, SendAddsOne
<1>2. TypeOK'
  BY <1>1 DEF ConnectionInv, TypeOK
<1>3. UnknownInv'
  BY DEF ConnectionInv, UnknownInv, Unknown
<1>4. HandshakeInv'
  BY <1>1 DEF ConnectionInv, HandshakeInv, Connected, Accepted
<1>5. FinInv'
  BY <1>1 DEF ConnectionInv, FinInv, Ends, Peer
<1>6. PeerFinInv'
  BY DEF ConnectionInv, PeerFinInv, Unknown
<1>7. NotOpenInv'
  BY DEF ConnectionInv, NotOpenInv, Unknown, Connected, Accepted
<1> QED
  BY <1>2, <1>3, <1>4, <1>5, <1>6, <1>7 DEF ConnectionInv

LEMMA CloseReturnInv ==
    ASSUME ConnectionInv, NEW e \in Ends, NEW t \in Threads, CloseReturn(e, t)
    PROVE  ConnectionInv'
<1> USE DEF CloseReturn, queueVars, Goto
<1>2. TypeOK'
  BY DEF ConnectionInv, TypeOK
<1>3. UnknownInv'
  BY DEF ConnectionInv, UnknownInv, Threads, Unknown
<1>4. HandshakeInv'
  BY DEF ConnectionInv, TypeOK, HandshakeInv, Connected, Accepted
<1>5. FinInv'
  BY DEF ConnectionInv, FinInv
<1>6. PeerFinInv'
  BY DEF ConnectionInv, UnknownInv, PeerFinInv, Threads, Unknown
<1>7. NotOpenInv'
  BY DEF ConnectionInv, TypeOK, NotOpenInv, Unknown, Connected, Accepted, Threads
<1> QED
  BY <1>2, <1>3, <1>4, <1>5, <1>6, <1>7 DEF ConnectionInv

\* Every step keeps the inductive invariant.
LEMMA NextConnectionInv == ConnectionInv /\ [Next]_vars => ConnectionInv'
<1> SUFFICES ASSUME ConnectionInv, [Next]_vars PROVE ConnectionInv'
  OBVIOUS
<1>1. CASE Connect
  BY <1>1, ConnectSendInv, ConnectRegisterInv, ConnectResendInv,
     ConnectReturnInv DEF Connect
<1>2. CASE Accept
  BY <1>2, AcceptTakeInv, AcceptRegisterInv DEF Accept
<1>3. ASSUME NEW p \in net, ListenSyn(p) \/ ListenAck(p) \/ Lose(p) PROVE ConnectionInv'
  BY <1>3, ListenSynInv, ListenAckInv, LoseInv
<1>4. ASSUME NEW e \in Ends, NEW p \in net, Handle(e, p) PROVE ConnectionInv'
  BY <1>4, HandleSynSentInv, HandlePeerFinInv, HandleFinAckedInv,
     HandleBothCloseInv, HandleTimeWaitInv, HandleLastAckInv DEF Handle
<1>5. ASSUME NEW e \in Ends, Awake(e) \/ DataAck(e) PROVE ConnectionInv'
  BY <1>5, SendOwnFinInv, TimeWaitEndInv, DataAckInv DEF Awake
<1>6. ASSUME NEW e \in Ends, NEW t \in Threads, Close(e, t) PROVE ConnectionInv'
  BY <1>6, CloseActiveInv, CloseMarkInv, ClosePassiveInv, CloseExitsInv,
     CloseResendInv, CloseReturnInv DEF Close
<1>7. CASE UNCHANGED vars
  BY <1>7 DEF vars, queueVars, ConnectionInv, TypeOK, UnknownInv, HandshakeInv,
     Accepted, Connected, FinInv, PeerFinInv, NotOpenInv, Unknown
<1> QED
  BY <1>1, <1>2, <1>3, <1>4, <1>5, <1>6, <1>7 DEF Next

\* The inductive invariant holds throughout: every ACK and every FIN on the
\* network testifies to what its sender has done.
THEOREM ConnectionCorrect == Spec => []ConnectionInv
<1> QED
  BY InitConnectionInv, NextConnectionInv, PTL DEF Spec

\* Every variable keeps its type.
THEOREM ConnectionTypes == Spec => []TypeOK
<1>1. ConnectionInv => TypeOK
  BY DEF ConnectionInv
<1> QED
  BY <1>1, ConnectionCorrect, PTL

\* tju_accept returns only connections of clients that are connected, whatever
\* the sequence numbers, the losses, the duplicates and their order.
THEOREM AcceptedConnections == Spec => []AcceptedIsConnected
<1>1. ConnectionInv => AcceptedIsConnected
  BY DEF ConnectionInv, HandshakeInv, AcceptedIsConnected
<1> QED
  BY <1>1, ConnectionCorrect, PTL

\* No end takes the connection for over before the other one has sent its FIN.
THEOREM ClosedConnections == Spec => []ClosedByBoth
<1>1. ConnectionInv => ClosedByBoth
  BY DEF ConnectionInv, PeerFinInv, ClosedByBoth
<1> QED
  BY <1>1, ConnectionCorrect, PTL

-----------------------------------------------------------------------------
(* Connection implements Lifecycle.                                        *)

\* The three abstract sets as Connection sees them.
Opened == { e \in Ends : IF e = "client" THEN Connected ELSE Accepted }
HaveShut == { e \in Ends : packet_FIN[e] # "none" }
Freed == { e \in Ends : gone[e] = "freed" }

LEMMA OpenStep ==
    ASSUME NEW e \in Ends, e = "server" => Connected,
           Opened' = Opened \cup {e}, HaveShut' = HaveShut, Freed' = Freed
    PROVE  Life!LNext
  BY DEF Life!LNext, Life!Open, Life!Both, Ends, Opened, HaveShut, Freed

LEMMA ShutStep ==
    ASSUME NEW e \in Ends, e \in Opened,
           Opened' = Opened, HaveShut' = HaveShut \cup {e}, Freed' = Freed
    PROVE  Life!LNext
  BY DEF Life!LNext, Life!Shut, Life!Both, Ends, Opened, HaveShut, Freed

LEMMA EndStep ==
    ASSUME NEW e \in Ends, \A d \in Ends : packet_FIN[d] # "none",
           Opened' = Opened, HaveShut' = HaveShut, Freed' = Freed \cup {e}
    PROVE  Life!LNext
  BY DEF Life!LNext, Life!End, Life!Both, Ends, Opened, HaveShut, Freed

LEMMA StutterOfLife ==
    ASSUME Opened' = Opened, HaveShut' = HaveShut, Freed' = Freed
    PROVE  UNCHANGED Life!lvars
  BY DEF Life!lvars, Opened, HaveShut, Freed

LEMMA LifeStep == ConnectionInv /\ [Next]_vars => [Life!LNext]_(Life!lvars)
<1> SUFFICES ASSUME ConnectionInv, [Next]_vars PROVE [Life!LNext]_(Life!lvars)
  OBVIOUS
<1> USE DEF ConnectionInv, TypeOK, Opened, HaveShut, Freed, Ends, Threads
<1>1. CASE Connect
  <2>1. UNCHANGED <<packet_FIN, gone>> /\ Accepted' = Accepted
    BY <1>1 DEF Connect, ConnectSend, ConnectRegister, ConnectResend, ConnectReturn,
                Accepted, Goto
  <2>2. Connected' = Connected
    BY <1>1 DEF Connect, ConnectSend, ConnectRegister, ConnectResend, ConnectReturn,
                Connected, SetState, UnknownInv, Unknown
  <2> QED
    BY <2>1, <2>2, StutterOfLife
<1>2. CASE AcceptTake
  <2>1. /\ UNCHANGED <<packet_FIN, gone>> /\ Connected' = Connected
        /\ Connected /\ Accepted'
    BY <1>2 DEF AcceptTake, Accepted, Connected, SetState, Goto, HandshakeInv
  <2>2. Opened' = Opened \cup {"server"}
    BY <2>1
  <2> QED
    BY <2>1, <2>2, OpenStep
<1>3. CASE AcceptRegister
  <2>1. /\ UNCHANGED <<packet_FIN, gone>> /\ Connected' = Connected
        /\ Accepted' = Accepted
    BY <1>3 DEF AcceptRegister, Accepted, Connected, Goto
  <2> QED
    BY <2>1, StutterOfLife
<1>4. ASSUME NEW p \in net, ListenSyn(p) \/ ListenAck(p) \/ Lose(p)
      PROVE  [Life!LNext]_(Life!lvars)
  BY <1>4, StutterOfLife DEF ListenSyn, ListenAck, Lose, Accepted, Connected
<1>5. ASSUME NEW e \in Ends, NEW p \in net, HandleSynSent(e, p)
      PROVE  [Life!LNext]_(Life!lvars)
  <2>1. UNCHANGED <<packet_FIN, gone>> /\ Accepted' = Accepted
    BY <1>5 DEF HandleSynSent, Accepted
  <2>2. CASE e = "client"
    <3>1. Connected'
      BY <1>5, <2>2 DEF HandleSynSent, Found, Connected, SetState
    <3>2. Opened' = Opened \cup {e}
      BY <2>1, <2>2, <3>1
    <3> QED
      BY <2>1, <2>2, <3>2, OpenStep
  <2>3. CASE e = "server"
    BY <1>5, <2>1, <2>3, StutterOfLife DEF HandleSynSent, Connected, SetState
  <2> QED
    BY <2>2, <2>3
<1>6. ASSUME NEW e \in Ends, NEW p \in net,
             \/ HandlePeerFin(e, p) \/ HandleFinAcked(e, p) \/ HandleBothClose(e, p)
             \/ HandleTimeWait(e, p) \/ HandleLastAck(e, p)
      PROVE  [Life!LNext]_(Life!lvars)
  <2>1. UNCHANGED <<packet_FIN, gone>> /\ Accepted' = Accepted
    BY <1>6 DEF HandlePeerFin, HandleFinAcked, HandleBothClose, HandleTimeWait,
                HandleLastAck, Accepted
  <2>2. Connected' = Connected
    BY <1>6 DEF HandlePeerFin, HandleFinAcked, HandleBothClose, HandleTimeWait,
                HandleLastAck, Found, Connected, SetState
  <2> QED
    BY <2>1, <2>2, StutterOfLife
<1>7. ASSUME NEW e \in Ends, SendOwnFin(e)
      PROVE  [Life!LNext]_(Life!lvars)
  <2>1. /\ UNCHANGED gone /\ Accepted' = Accepted /\ Connected' = Connected
        /\ packet_FIN' = [packet_FIN EXCEPT ![e] = "FIN_ACK"] /\ e \in Opened
    BY <1>7 DEF SendOwnFin, Accepted, Connected, SetState, Goto, NotOpenInv
  <2>2. HaveShut' = HaveShut \cup {e}
    BY <2>1
  <2> QED
    BY <2>1, <2>2, ShutStep
<1>8. ASSUME NEW e \in Ends, TimeWaitEnd(e) \/ DataAck(e)
      PROVE  [Life!LNext]_(Life!lvars)
  BY <1>8, StutterOfLife DEF TimeWaitEnd, DataAck, Accepted, Connected, SetState, NotOpenInv
<1>9. ASSUME NEW e \in Ends, NEW t \in Threads, CloseActive(e, t)
      PROVE  [Life!LNext]_(Life!lvars)
  <2>1. /\ UNCHANGED gone /\ Accepted' = Accepted /\ Connected' = Connected
        /\ packet_FIN' = [packet_FIN EXCEPT ![e] = "FIN"] /\ e \in Opened
    BY <1>9 DEF CloseActive, Accepted, Connected, Goto, NotOpenInv
  <2>2. HaveShut' = HaveShut \cup {e}
    BY <2>1
  <2> QED
    BY <2>1, <2>2, ShutStep
<1>10. ASSUME NEW e \in Ends, NEW t \in Threads,
              \/ CloseMark(e, t) \/ ClosePassive(e, t) \/ CloseExits(e, t)
              \/ CloseResend(e, t)
       PROVE  [Life!LNext]_(Life!lvars)
  <2>1. packet_FIN' = packet_FIN /\ Freed' = Freed
    BY <1>10 DEF CloseMark, ClosePassive, CloseExits, CloseResend
  <2>2. Accepted' = Accepted /\ Connected' = Connected
    BY <1>10 DEF CloseMark, ClosePassive, CloseExits, CloseResend, Accepted, Connected,
                 SetState, Goto, NotOpenInv
  <2> QED
    BY <2>1, <2>2, StutterOfLife
<1>11. ASSUME NEW e \in Ends, NEW t \in Threads, CloseReturn(e, t)
       PROVE  [Life!LNext]_(Life!lvars)
  <2>1. /\ packet_FIN' = packet_FIN /\ gone' = [gone EXCEPT ![e] = "freed"]
        /\ Accepted' = Accepted /\ Connected' = Connected
    BY <1>11 DEF CloseReturn, Accepted, Connected, Goto, NotOpenInv
  <2>2. packet_FIN[e] # "none" /\ packet_FIN[Peer(e)] # "none"
    BY <1>11 DEF CloseReturn, FinInv, PeerFinInv, UnknownInv, Unknown
  <2>3. \A d \in Ends : packet_FIN[d] # "none"
    BY <2>2 DEF Peer
  <2>4. Freed' = Freed \cup {e}
    BY <2>1
  <2> QED
    BY <2>1, <2>3, <2>4, EndStep
<1>12. CASE UNCHANGED vars
  BY <1>12, StutterOfLife DEF vars, Accepted, Connected
<1> QED
  BY <1>1, <1>2, <1>3, <1>4, <1>5, <1>6, <1>7, <1>8, <1>9, <1>10, <1>11, <1>12
     DEF Next, Accept, Handle, Awake, Close

\* The life of a connection, packet by packet and thread by thread, is one that
\* Lifecycle allows, for every capacity and every fate of the network.
THEOREM ConnectionImplementsLifecycle == Spec => ImplementsLifecycle
<1>1. Init => Life!LInit
  BY DEF Init, Life!LInit, Connected, Accepted, Ends, Threads
<1> QED
  BY <1>1, LifeStep, ConnectionCorrect, PTL DEF Spec, ImplementsLifecycle, Life!LSpec

-----------------------------------------------------------------------------
(* A FIN with a number of its own is acknowledged by nobody but the end    *)
(* that handled it.                                                        *)

\* The answer to p, seen from the end that handles p.
LEMMA AckOfFields ==
    ASSUME NEW p \in Packets
    PROVE  /\ AckOf(p).flags = "ACK" /\ AckOf(p).seq = 0
           /\ AckOf(p).to = Peer(p.to) /\ AckOf(p).ack = p.seq + 1
  BY DEF AckOf, Packet

\* An end leaves ESTABLISHED for good.
LEMMA PastStays ==
    ASSUME ConnectionInv, OwnNumberInv, [Next]_vars, NEW e \in Ends, Past(e)
    PROVE  Past(e)'
<1> USE DEF Past, Unknown, ConnectionInv, TypeOK, Ends
<1>1. CASE Connect
  BY <1>1 DEF Connect, ConnectSend, ConnectRegister, ConnectResend, ConnectReturn,
              SetState, Goto, Threads
<1>2. CASE Accept
  BY <1>2 DEF Accept, AcceptTake, AcceptRegister, SetState, Goto, OwnNumberInv, Accepted
<1>3. ASSUME NEW p \in net, ListenSyn(p) \/ ListenAck(p) \/ Lose(p) PROVE Past(e)'
  BY <1>3 DEF ListenSyn, ListenAck, Lose
<1>4. ASSUME NEW d \in Ends, NEW p \in net, Handle(d, p) PROVE Past(e)'
  BY <1>4 DEF Handle, HandleSynSent, HandlePeerFin, HandleFinAcked, HandleBothClose,
              HandleTimeWait, HandleLastAck, SetState
<1>5. ASSUME NEW d \in Ends, Awake(d) \/ DataAck(d) PROVE Past(e)'
  BY <1>5 DEF Awake, SendOwnFin, TimeWaitEnd, DataAck, SetState, Goto, Threads
<1>6. ASSUME NEW d \in Ends, NEW t \in Threads, Close(d, t) PROVE Past(e)'
  BY <1>6 DEF Close, CloseActive, CloseMark, ClosePassive, CloseExits, CloseResend,
              CloseReturn, SetState, Goto, UnknownInv, Threads
<1>7. CASE UNCHANGED vars
  BY <1>7 DEF vars
<1> QED
  BY <1>1, <1>2, <1>3, <1>4, <1>5, <1>6, <1>7 DEF Next

\* Every packet the code builds carries the numbers of its kind.
LEMMA NumbersStep ==
    ASSUME ConnectionInv, NumbersInv, [Next]_vars
    PROVE  NumbersInv'
<1> USE DEF NumbersInv
<1>1. ASSUME net' \subseteq net PROVE NumbersInv'
  BY <1>1
<1>2. ASSUME NEW q, net' \subseteq net \cup {q},
             /\ q.flags = "SYN" => q.seq = CLIENT_ISN
             /\ q.flags = "SYN_ACK" => q.seq = SERVER_ISN
             /\ q.flags = "ACK" => q.seq = 0
             /\ q.flags = "FIN" => q.ack = 0
             /\ q.flags = "FIN_ACK" => q.ack = FIN_SEQ + 1
      PROVE  NumbersInv'
  BY <1>2
<1>3. \A p \in net : net' \subseteq net \cup {AckOf(p)} => NumbersInv'
  BY <1>2, AckOfFields DEF ConnectionInv, TypeOK
<1>4. CASE Connect
  BY <1>1, <1>2, <1>4, SendAddsOne
     DEF Connect, ConnectSend, ConnectRegister, ConnectResend, ConnectReturn, SYN, Packet
<1>5. CASE Accept
  BY <1>1, <1>5 DEF Accept, AcceptTake, AcceptRegister
<1>6. ASSUME NEW p \in net, ListenSyn(p) PROVE NumbersInv'
  BY <1>2, <1>6, TookAddsReplies DEF ListenSyn, Packet
<1>7. ASSUME NEW p \in net, ListenAck(p) \/ Lose(p) PROVE NumbersInv'
  BY <1>1, <1>7, TookAddsReplies DEF ListenAck, Lose
<1>8. ASSUME NEW e \in Ends, NEW p \in net, Handle(e, p) PROVE NumbersInv'
  <2>1. net' \subseteq net \cup {AckOf(p)}
    BY <1>8, TookAddsReplies
       DEF Handle, HandleSynSent, HandlePeerFin, HandleFinAcked, HandleBothClose,
           HandleTimeWait, HandleLastAck
  <2> QED
    BY <1>3, <2>1
<1>9. ASSUME NEW e \in Ends, Awake(e) \/ DataAck(e) PROVE NumbersInv'
  BY <1>1, <1>2, <1>9, SendAddsOne DEF Awake, SendOwnFin, TimeWaitEnd, DataAck, Packet
<1>10. ASSUME NEW e \in Ends, NEW t \in Threads, Close(e, t) PROVE NumbersInv'
  BY <1>1, <1>2, <1>10, SendAddsOne
     DEF Close, CloseActive, CloseMark, ClosePassive, CloseExits, CloseResend,
         CloseReturn, Packet
<1>11. CASE UNCHANGED vars
  BY <1>1, <1>11 DEF vars
<1> QED
  BY <1>4, <1>5, <1>6, <1>7, <1>8, <1>9, <1>10, <1>11 DEF Next

\* Until tju_accept returns, no thread touches the state of the server's socket.
LEMMA ListenStep ==
    ASSUME ConnectionInv, OwnNumberInv, [Next]_vars, ~Accepted'
    PROVE  state'["server"] = "LISTEN"
<1> USE DEF ConnectionInv, TypeOK, Ends, Accepted, NotOpenInv, OwnNumberInv
<1>1. CASE Connect
  BY <1>1 DEF Connect, ConnectSend, ConnectRegister, ConnectResend, ConnectReturn,
              SetState, Goto
<1>2. CASE Accept
  BY <1>2 DEF Accept, AcceptTake, AcceptRegister, Goto, Threads
<1>3. ASSUME NEW p \in net, ListenSyn(p) \/ ListenAck(p) \/ Lose(p)
      PROVE  state'["server"] = "LISTEN"
  BY <1>3 DEF ListenSyn, ListenAck, Lose
<1>4. ASSUME NEW d \in Ends, NEW p \in net, Handle(d, p)
      PROVE  state'["server"] = "LISTEN"
  BY <1>4 DEF Handle, HandleSynSent, HandlePeerFin, HandleFinAcked, HandleBothClose,
              HandleTimeWait, HandleLastAck, Found, SetState
<1>5. ASSUME NEW d \in Ends, Awake(d) \/ DataAck(d)
      PROVE  state'["server"] = "LISTEN"
  BY <1>5 DEF Awake, SendOwnFin, TimeWaitEnd, DataAck, SetState, Goto, Threads
<1>6. ASSUME NEW d \in Ends, NEW t \in Threads, Close(d, t)
      PROVE  state'["server"] = "LISTEN"
  BY <1>6 DEF Close, CloseActive, CloseMark, ClosePassive, CloseExits, CloseResend,
              CloseReturn, SetState, Goto, Threads
<1>7. CASE UNCHANGED vars
  BY <1>7 DEF vars
<1> QED
  BY <1>1, <1>2, <1>3, <1>4, <1>5, <1>6, <1>7 DEF Next

\* An ACK for a FIN is new on the network only when the end that sends it has
\* just been taken out of ESTABLISHED, or was out of it.
LEMMA FinAckSent ==
    ASSUME ConnectionInv, OwnNumberInv, FinHasOwnNumber, [Next]_vars,
           NEW q \in net' \ net, AcksFin(q)
    PROVE  Past(Peer(q.to))'
<1>1. net \subseteq Packets /\ 0 \in Nat /\ {CLIENT_ISN, SERVER_ISN, FIN_SEQ} \subseteq Nat
  BY NumbersAssumption DEF ConnectionInv, TypeOK
<1>2. q.flags = "ACK" /\ q.ack = FIN_SEQ + 1
  BY DEF AcksFin
<1>3. CASE Connect \/ Accept \/ UNCHANGED vars
  BY <1>2, <1>3, SendAddsOne
     DEF Connect, ConnectSend, ConnectRegister, ConnectResend, ConnectReturn, Accept,
         AcceptTake, AcceptRegister, vars, SYN, Packet
<1>4. ASSUME NEW p \in net, ListenSyn(p) \/ ListenAck(p) \/ Lose(p) PROVE FALSE
  BY <1>2, <1>4, TookAddsReplies DEF ListenSyn, ListenAck, Lose, Packet
<1>5. ASSUME NEW e \in Ends, NEW p \in net, Handle(e, p) PROVE Past(Peer(q.to))'
  <2>1. q = AckOf(p) /\ p.to = e
    BY <1>5, TookAddsReplies
       DEF Handle, HandleSynSent, HandlePeerFin, HandleFinAcked, HandleBothClose,
           HandleTimeWait, HandleLastAck, Found
  <2>2. Peer(q.to) = e /\ p.seq = FIN_SEQ
    <3>1. q.to = Peer(e) /\ q.ack = p.seq + 1 /\ p.seq \in Nat
      BY <1>1, <2>1, AckOfFields DEF Packets
    <3> QED
      BY <1>1, <1>2, <3>1, PeerIsEnd
  <2>3. ~HandleSynSent(e, p)
    <3>1. p.flags \in {"FIN", "FIN_ACK"}
      BY <1>1, <2>2 DEF OwnNumberInv, NumbersInv, FinHasOwnNumber, Packets
    <3>2. p.ack = 0 \/ p.ack = FIN_SEQ + 1
      BY <3>1 DEF OwnNumberInv, NumbersInv
    <3>3. p.ack # CLIENT_ISN + 1
      BY <1>1, <3>2 DEF FinHasOwnNumber
    <3> QED
      BY <3>3 DEF HandleSynSent
  <2>4. hashed[e] /\ ~(HandleFinAcked(e, p) \/ HandleLastAck(e, p))
    BY <1>5, <2>3, TookAddsReplies
       DEF Handle, HandlePeerFin, HandleFinAcked, HandleBothClose, HandleTimeWait,
           HandleLastAck, Found
  <2>5. state'[e] \in {"CLOSE_WAIT", "CLOSING", "TIME_WAIT"} /\ pc' = pc
    BY <1>5, <2>3, <2>4
       DEF Handle, HandlePeerFin, HandleBothClose, HandleTimeWait, SetState,
           ConnectionInv, TypeOK
  <2>6. ~(e = "client" /\ Unknown')
    BY <2>4, <2>5 DEF ConnectionInv, UnknownInv, Unknown
  <2> QED
    BY <2>2, <2>5, <2>6 DEF Past
<1>6. ASSUME NEW e \in Ends, Awake(e) PROVE FALSE
  BY <1>2, <1>6, SendAddsOne DEF Awake, SendOwnFin, TimeWaitEnd, Packet
<1>7. ASSUME NEW e \in Ends, DataAck(e) PROVE FALSE
  <2>1. q.ack \in DataAcks
    BY <1>7, SendAddsOne DEF DataAck, Packet
  <2> QED
    BY <1>1, <1>2, <2>1 DEF FinHasOwnNumber
<1>8. ASSUME NEW e \in Ends, NEW t \in Threads, Close(e, t) PROVE FALSE
  BY <1>2, <1>8, SendAddsOne
     DEF Close, CloseActive, CloseMark, ClosePassive, CloseExits, CloseResend,
         CloseReturn, Packet
<1> QED
  BY <1>3, <1>4, <1>5, <1>6, <1>7, <1>8 DEF Next

\* An end that went on has seen the other one leave ESTABLISHED.
WentOn(e) ==
    \/ state[e] \in {"FIN_WAIT_2", "TIME_WAIT"}
    \/ state[e] = "CLOSED" /\ Past(e)
    \/ kpc[e] = "time_wait"
    \/ gone[e] = "freed"

LEMMA WentOnStep ==
    ASSUME ConnectionInv, OwnNumberInv, [Next]_vars, NEW e \in Ends, WentOn(e)'
    PROVE  Past(Peer(e))
<1>1. WentOn(e) => Past(Peer(e))
  BY DEF OwnNumberInv, FinAckedInv, WentOn
<1>2. \A p \in net : AcksFin(p) /\ p.to = e => Past(Peer(e))
  BY DEF OwnNumberInv, FinAckedInv
<1> USE DEF WentOn, Past, Unknown, ConnectionInv, TypeOK, Ends, Threads
<1>3. CASE Connect
  BY <1>1, <1>3 DEF Connect, ConnectSend, ConnectRegister, ConnectResend, ConnectReturn,
              SetState, Goto
<1>4. CASE Accept
  BY <1>1, <1>4 DEF Accept, AcceptTake, AcceptRegister, SetState, Goto
<1>5. ASSUME NEW p \in net, ListenSyn(p) \/ ListenAck(p) \/ Lose(p) PROVE Past(Peer(e))
  BY <1>1, <1>5 DEF ListenSyn, ListenAck, Lose
<1>6. ASSUME NEW d \in Ends, NEW p \in net, Handle(d, p) PROVE Past(Peer(e))
  BY <1>1, <1>2, <1>6
     DEF Handle, HandleSynSent, HandlePeerFin, HandleFinAcked, HandleBothClose,
         HandleTimeWait, HandleLastAck, SetState, Found
<1>7. ASSUME NEW d \in Ends, Awake(d) \/ DataAck(d) PROVE Past(Peer(e))
  BY <1>1, <1>7 DEF Awake, SendOwnFin, TimeWaitEnd, DataAck, SetState, Goto
<1>8. ASSUME NEW d \in Ends, NEW t \in Threads, Close(d, t) PROVE Past(Peer(e))
  BY <1>1, <1>8
     DEF Close, CloseActive, CloseMark, ClosePassive, CloseExits, CloseResend,
         CloseReturn, SetState, Goto, UnknownInv
<1>9. CASE UNCHANGED vars
  BY <1>1, <1>9 DEF vars
<1> QED
  BY <1>3, <1>4, <1>5, <1>6, <1>7, <1>8, <1>9 DEF Next

LEMMA OwnNumberStep ==
    ASSUME FinHasOwnNumber, ConnectionInv, OwnNumberInv, [Next]_vars
    PROVE  OwnNumberInv'
<1>1. NumbersInv'
  BY NumbersStep DEF OwnNumberInv
<1>2. ASSUME NEW q \in net', AcksFin(q) PROVE Past(Peer(q.to))'
  <2>1. CASE q \notin net
    BY <1>2, <2>1, FinAckSent
  <2>2. CASE q \in net
    <3>1. Past(Peer(q.to)) /\ Peer(q.to) \in Ends
      BY <1>2, <2>2, PeerIsEnd DEF OwnNumberInv, FinAckedInv, ConnectionInv, TypeOK, Packets
    <3> QED
      BY <3>1, PastStays
  <2> QED
    BY <2>1, <2>2
<1>3. ASSUME NEW e \in Ends, WentOn(e)' PROVE Past(Peer(e))'
  BY <1>3, WentOnStep, PastStays, PeerIsEnd
<1>4. FinAckedInv'
  BY <1>2, <1>3 DEF FinAckedInv, WentOn, AcksFin
<1> QED
  BY <1>1, <1>4, ListenStep DEF OwnNumberInv

\* An end takes its FIN for acknowledged only when the other one has handled it,
\* whatever numbers the ACKs of data carry, provided that FIN_SEQ is neither 0 nor
\* the number of a SYN and no ACK of data is numbered FIN_SEQ + 1: a FIN numbered
\* after the data would do; sharing a number, not the handlers, is what is wrong.
THEOREM OwnNumberSuffices == FinHasOwnNumber => (Spec => []FinAckIsForFin)
<1> SUFFICES ASSUME FinHasOwnNumber PROVE Spec => []FinAckIsForFin
  OBVIOUS
<1>1. Init => OwnNumberInv
  BY DEF Init, OwnNumberInv, NumbersInv, FinAckedInv, Past, Accepted, Unknown, Ends,
         Threads, AcksFin
<1>2. ConnectionInv /\ OwnNumberInv /\ [Next]_vars => OwnNumberInv'
  BY OwnNumberStep
<1>3. OwnNumberInv => FinAckIsForFin
  BY DEF OwnNumberInv, FinAckedInv, FinAckIsForFin, Past
<1> QED
  BY <1>1, <1>2, <1>3, ConnectionCorrect, PTL DEF Spec
=============================================================================
