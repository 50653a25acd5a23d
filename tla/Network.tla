------------------------------ MODULE Network ------------------------------
(***************************************************************************)
(* The TCP connections between the clients and the server, as the winsock  *)
(* calls of the program use them: two byte streams per connection, the     *)
(* backlog of the listening socket, and a client end that can go away.     *)
(* A connection is used by one run of a client program, so Conn is also    *)
(* the set of client processes.                                            *)
(***************************************************************************)
EXTENDS Packets, FiniteSetsExt

CONSTANTS
  Conn,      (* connections                                                *)
  Backlog,   (* BACKLOG: connections that may wait for accept()            *)
  SockBuf    (* cells a socket holds before send() blocks                  *)

ASSUME NetworkAssumption ==
  /\ Backlog \in Nat \ {0}
  /\ SockBuf \in Nat /\ SockBuf >= 3
  /\ IsFiniteSet(Conn) /\ NULL \notin Conn

VARIABLES
  peer,      (* the client's end of a connection: "idle" before connect(), *)
             (* then "up"; "cut" once the server has closed its own end,   *)
             (* "down" once the client has closed                          *)
  backlog,   (* connections the server has not accepted yet                *)
  toServer,  (* toServer[c]: cells on their way to the server              *)
  toClient   (* toClient[c]: cells on their way to the client              *)

netVars == <<peer, backlog, toServer, toClient>>

NetTypeOK ==
  /\ peer \in [Conn -> {"idle", "up", "cut", "down"}]
  /\ backlog \in Seq(Conn)
  /\ toServer \in [Conn -> Seq(Cell)]
  /\ toClient \in [Conn -> Seq(Cell)]

NetInit ==
  /\ peer = [c \in Conn |-> "idle"]
  /\ backlog = <<>>
  /\ toServer = [c \in Conn |-> <<>>]
  /\ toClient = [c \in Conn |-> <<>>]

(* select() reports a connection on which recv() would not block *)
Readable(c) == toServer[c] # <<>> \/ peer[c] = "down"

(* send() of a whole packet to client c does not block *)
HasRoom(c, p) == peer[c] = "up" => Len(toClient[c]) + Size(p) <= SockBuf

(* The stream to client c after p is sent; what is sent to a closed end is *)
(* discarded.                                                              *)
Sent(c, p) ==
  IF peer[c] = "up" THEN [toClient EXCEPT ![c] = @ \o Cells(p)] ELSE toClient

(* The client ends once the server has closed the connections in S *)
Cut(S) == [c \in Conn |-> IF c \in S /\ peer[c] = "up" THEN "cut" ELSE peer[c]]

(* connect() of a client *)
Connect(c) ==
  /\ peer[c] = "idle"
  /\ Len(backlog) < Backlog
  /\ peer' = [peer EXCEPT ![c] = "up"]
  /\ backlog' = Append(backlog, c)
  /\ UNCHANGED <<toServer, toClient>>

(* sendPacket in client c: send() to a server that has closed its end may  *)
(* succeed once more, and what it sent is gone                             *)
ClientSend(c, p) ==
  /\ peer[c] \in {"up", "cut"}
  /\ Len(toServer[c]) + Size(p) <= SockBuf
  /\ toServer' = IF peer[c] = "up" THEN [toServer EXCEPT ![c] = @ \o Cells(p)]
                                   ELSE toServer
  /\ UNCHANGED <<peer, backlog, toClient>>

(* recv() in client c returns the next k cells *)
ClientRecv(c, k) ==
  /\ peer[c] \in {"up", "cut"}
  /\ k \in 1 .. Len(toClient[c])
  /\ toClient' = [toClient EXCEPT ![c] = Drop(@, k)]
  /\ UNCHANGED <<peer, backlog, toServer>>

(* closesocket in client c, or the end of its process *)
ClientClose(c) ==
  /\ peer[c] \in {"up", "cut"}
  /\ peer' = [peer EXCEPT ![c] = "down"]
  /\ toClient' = [toClient EXCEPT ![c] = <<>>]
  /\ UNCHANGED <<backlog, toServer>>
=============================================================================
