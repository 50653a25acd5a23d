------------------------------ MODULE MCSending ------------------------------
(***************************************************************************)
(* The main thread, the socket thread and the thread of a message.         *)
(***************************************************************************)
EXTENDS Sending

CONSTANT s1

MCThread == {s1}
=============================================================================
