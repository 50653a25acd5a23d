---------------------------- MODULE PacketStream ----------------------------
(***************************************************************************)
(* What sendPacket promises about the stream it writes to: packets come    *)
(* into it one at a time and whole, each of them once, in any order.       *)
(* Nothing is promised once the promise has been broken.                   *)
(***************************************************************************)
EXTENDS Integers, Sequences

CONSTANTS
  Packet,
  Length     (* the sizes packets may have *)

VARIABLES
  stream,    (* the packet of every byte *)
  broken

StreamInit == stream = <<>> /\ broken = FALSE

Bytes(p, n) == [i \in 1 .. n |-> p]

AppendPacket(p, n) ==
  /\ \A i \in DOMAIN stream : stream[i] # p
  /\ stream' = stream \o Bytes(p, n)
  /\ UNCHANGED broken

Break == broken' = TRUE

StreamNext == Break \/ \E p \in Packet, n \in Length : AppendPacket(p, n)

StreamSpec == StreamInit /\ [][StreamNext]_<<stream, broken>>
=============================================================================
