------------------------------ MODULE Lifecycle ------------------------------
(***************************************************************************)
(* What tju_connect, tju_accept and tju_close promise the two users of a   *)
(* connection together: the passive end is open only when the active one   *)
(* is, an end shuts its side only when it is open, the connection is over  *)
(* at an end only when both have shut theirs, and nothing of this is ever  *)
(* taken back.                                                             *)
(*                                                                         *)
(* The specification mentions no packet, state, queue or thread.  It is    *)
(* the abstract side of the refinement of Connection.                      *)
(***************************************************************************)

VARIABLES
    opened,     \* the ends at which the connection is established
    shut,       \* the ends that have sent their FIN
    over        \* the ends at which tju_close has freed the socket

lvars == <<opened, shut, over>>

Both == {"client", "server"}

LInit == opened = {} /\ shut = {} /\ over = {}

\* The handshake ends at e, first at the client.
Open(e) ==
    /\ e = "server" => "client" \in opened
    /\ opened' = opened \cup {e}
    /\ UNCHANGED <<shut, over>>

\* e sends its FIN, on its own or in answer to the other one.
Shut(e) ==
    /\ e \in opened
    /\ shut' = shut \cup {e}
    /\ UNCHANGED <<opened, over>>

\* tju_close returns at e.
End(e) ==
    /\ shut = Both
    /\ over' = over \cup {e}
    /\ UNCHANGED <<opened, shut>>

LNext == \E e \in Both : Open(e) \/ Shut(e) \/ End(e)

LSpec == LInit /\ [][LNext]_lvars
=============================================================================
