----------------------------- MODULE MCRequests -----------------------------
(***************************************************************************)
(* The main thread and one message thread, and memory for two requests.    *)
(***************************************************************************)
EXTENDS Requests

CONSTANTS m, s1, x, y

MCThread == {m, s1}
MCMain == {m}
MCAddress == {x, y}
=============================================================================
