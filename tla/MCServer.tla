------------------------------ MODULE MCServer ------------------------------
(***************************************************************************)
(* The server with two clients that send at most MaxSent packets together, *)
(* any of ClientPacket at any moment, and that read everything that has    *)
(* arrived when they read.                                                 *)
(***************************************************************************)
EXTENDS Server

CONSTANTS
  c1, c2, n1, n2, t1,
  MaxSent    (* packets the clients send in one behaviour *)

VARIABLE sent

MCConn == {c1, c2}
MCNickname == {n1, n2}
MCText == {t1}

(* Logins that collide, messages, answers to deliveries *)
MCPackets ==
  {LoginRequest(n1, 0), LoginRequest(n2, 0), MessageRequest(n1, t1, 0),
   DeliveryRespond("OK")}

MCSymmetry == Permutations(MCConn)

MCInit == ServerInit /\ sent = 0

ServerStep == ServerNext /\ UNCHANGED sent

ClientSends ==
  /\ sent < MaxSent
  /\ \E c \in Conn, p \in ClientPacket : ClientSend(c, p)
  /\ sent' = sent + 1
  /\ UNCHANGED serverVars

ClientStep ==
  /\ \E c \in Conn :
       \/ pc # "exited" /\ Connect(c)
       \/ ClientRecv(c, Len(toClient[c]))
       \/ ClientClose(c)
  /\ UNCHANGED <<serverVars, sent>>

MCNext == ServerStep \/ ClientSends \/ ClientStep

MCSpec == MCInit /\ [][MCNext]_<<vars, sent>>

MCFairSpec == MCSpec /\ WF_<<vars, sent>>(ServerStep)
=============================================================================
