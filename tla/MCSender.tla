------------------------------ MODULE MCSender ------------------------------
(***************************************************************************)
(* Small instances of Sender: segments of one or two bytes, windows of a   *)
(* few, and a stream long enough for several segments and a compaction.    *)
(***************************************************************************)
EXTENDS Sender
=============================================================================
