------------------------------- MODULE Server -------------------------------
(***************************************************************************)
(* The RadikChat server (server/): one thread that selects, accepts,       *)
(* receives and processes packets, with the list of ClientInfo nodes.      *)
(*                                                                         *)
(* A node of the list is named by its socket; INVALID_SOCKET names the     *)
(* node left behind by an accept() that failed.  The program counter `pc'  *)
(* stands at the places where the thread may block or where the network    *)
(* may change under it; `cursor' is the local variable `client' of main(). *)
(*                                                                         *)
(* The clients of this module send any packets of ClientPacket in any      *)
(* order: what holds here holds whatever a client does with them.          *)
(***************************************************************************)
EXTENDS Network, SequencesExt

CONSTANTS
  LISTEN, INVALID_SOCKET,
  ClientPacket, (* the packets clients send                                *)
  MaxFds,       (* FD_SETSIZE of winsock: FD_SET beyond it has no effect   *)
  BufSize,      (* CLIENT_MAX_BUFFER_SIZE, in cells                        *)
  RespondSize,  (* sizeof(buffer) in sendMessage, in cells                 *)
  MaxCycles     (* reads of a respond that sendMessage tries               *)

ASSUME ServerAssumption ==
  /\ LISTEN \notin Conn /\ INVALID_SOCKET \notin Conn /\ LISTEN # INVALID_SOCKET
  /\ NULL \notin {LISTEN, INVALID_SOCKET}
  /\ ClientPacket \subseteq ClientPackets
  /\ MaxFds \in Nat \ {0} /\ BufSize \in Nat /\ BufSize >= 3
  /\ RespondSize \in Nat \ {0} /\ MaxCycles \in Nat \ {0}

Node == Conn \cup {INVALID_SOCKET}

VARIABLES
  clients,    (* the list, head first                                      *)
  nickname, isLogined, buffer,   (* fields of ClientInfo                   *)
  fdMaster, fdReads,
  pc, cursor,
  recipient,  (* the argument `to' of sendMessage                          *)
  cycle,      (* its loop counter                                          *)
  out         (* the respond a handler is about to send                    *)

nodeVars == <<clients, nickname, isLogined, buffer, fdMaster>>
localVars == <<fdReads, pc, cursor, recipient, cycle, out>>
serverVars == <<nodeVars, localVars>>
vars == <<netVars, serverVars>>

ServerTypeOK ==
  /\ NetTypeOK
  /\ clients \in Seq(Node)
  /\ nickname \in [Node -> String]
  /\ isLogined \in [Node -> BOOLEAN]
  /\ buffer \in [Node -> Seq(Cell)]
  /\ fdMaster \subseteq Conn \cup {LISTEN}
  /\ fdReads \subseteq Conn \cup {LISTEN}
  /\ pc \in {"select", "accept", "recv", "process", "respond", "reply",
             "exited", "undefined"}
  /\ cursor \in Node \cup {NULL}
  /\ recipient \in Conn \cup {NULL}
  /\ cycle \in 0 .. MaxCycles
  /\ out \in Packet \cup {NULL}

ServerInit ==
  /\ NetInit
  /\ clients = <<>>
  /\ nickname = [x \in Node |-> NoName]
  /\ isLogined = [x \in Node |-> FALSE]
  /\ buffer = [x \in Node |-> <<>>]
  /\ fdMaster = {}
  /\ fdReads = {}
  /\ pc = "select"
  /\ cursor = NULL /\ recipient = NULL /\ cycle = 0 /\ out = NULL

-----------------------------------------------------------------------------
(* The list of clients *)

Listed == ToSet(clients)

(* The first node of the list, from position i on, that is in S *)
FirstIn(list, i, S) ==
  LET found == {j \in i .. Len(list) : list[j] \in S}
  IN  IF found = {} THEN NULL ELSE list[Min(found)]

Position(list, x) == CHOOSE i \in DOMAIN list : list[i] = x

(* The node whose nickname equals n, as the `it' loops find it *)
Lookup(n) == FirstIn(clients, 1, {x \in Node : nickname[x] = n})

(* Fault: addClientToSet sets nothing *)
FdSetListen(S, f) == IF f = LISTEN THEN S \cup {f} ELSE S

(* FD_SET of winsock *)
FdSet(S, f) == IF Cardinality(S) < MaxFds THEN S \cup {f} ELSE S

(* Fault: no FD_CLR *)
FdClrNothing(S, f) == S

FdClr(S, f) == S \ {f}

(* deleteClient(c): closesocket, FD_CLR, unlink and free *)
deleteClient(c) ==
  /\ clients' = RemoveAt(clients, Position(clients, c))
  /\ nickname' = [nickname EXCEPT ![c] = NoName]
  /\ isLogined' = [isLogined EXCEPT ![c] = FALSE]
  /\ buffer' = [buffer EXCEPT ![c] = <<>>]
  /\ fdMaster' = FdClr(fdMaster, c)
  /\ peer' = Cut({c})
  /\ toServer' = [toServer EXCEPT ![c] = <<>>]
  /\ UNCHANGED <<backlog, toClient>>

(* exit(1) in sendPacket: the process ends and its sockets close *)
Exit ==
  /\ pc' = "exited"
  /\ peer' = Cut(Conn)
  /\ UNCHANGED <<backlog, toServer, toClient, nodeVars, fdReads, cursor,
                 recipient, cycle, out>>

(* Fault: the processing loop is left after one client *)
GoProcessOnce(list, i, bufs) ==
  LET next == IF i = 1 THEN FirstIn(list, 1, {c \in Conn : Complete(bufs[c])})
                       ELSE NULL
  IN  /\ cursor' = next
      /\ pc' = IF next = NULL THEN "select" ELSE "process"

(* The loops of main().  A node is skipped when its socket was not reported *)
(* by select(), or when its buffer does not hold a whole packet.            *)
GoProcess(list, i, bufs) ==
  LET next == FirstIn(list, i, {c \in Conn : Complete(bufs[c])})
  IN  /\ cursor' = next
      /\ pc' = IF next = NULL THEN "select" ELSE "process"

GoRecv(list, i, reads, bufs) ==
  LET next == FirstIn(list, i, reads)
  IN  IF next = NULL
        THEN GoProcess(list, 1, bufs)
        ELSE cursor' = next /\ pc' = "recv"

-----------------------------------------------------------------------------
(* waitForClients: the sockets select() reports *)
waitForClients ==
  /\ pc = "select"
  /\ LET master == FdSet(fdMaster, LISTEN)
         ready == {c \in master \ {LISTEN} : Readable(c)}
                    \cup (IF backlog = <<>> THEN {} ELSE {LISTEN} \cap master)
     IN  /\ ready # {}
         /\ fdMaster' = master
         /\ fdReads' = ready
         /\ IF LISTEN \in ready
              THEN pc' = "accept" /\ UNCHANGED cursor
              ELSE GoRecv(clients, 1, ready, buffer)
  /\ UNCHANGED <<netVars, clients, nickname, isLogined, buffer, recipient,
                 cycle, out>>

(* getClient(-1): the list with a node that has no socket yet *)
getClient == IF INVALID_SOCKET \in Listed
               THEN clients ELSE <<INVALID_SOCKET>> \o clients

(* accept() returns a socket for the first connection of the backlog *)
Accept ==
  /\ pc = "accept"
  /\ LET c == Head(backlog)
         list == ReplaceAll(getClient, INVALID_SOCKET, c)
     IN  /\ clients' = list
         /\ fdMaster' = FdSet(fdMaster, c)
         /\ GoRecv(list, 1, fdReads, buffer)
  /\ backlog' = Tail(backlog)
  /\ UNCHANGED <<peer, toServer, toClient, nickname, isLogined, buffer,
                 fdReads, recipient, cycle, out>>

(* accept() fails: the connection was gone before it was accepted.  The    *)
(* node stays in the list without a socket.                                *)
AcceptFails ==
  /\ pc = "accept"
  /\ peer[Head(backlog)] = "down"
  /\ clients' = getClient
  /\ GoRecv(getClient, 1, fdReads, buffer)
  /\ backlog' = Tail(backlog)
  /\ UNCHANGED <<peer, toServer, toClient, nickname, isLogined, buffer,
                 fdMaster, fdReads, recipient, cycle, out>>

(* recv() returns the next k cells *)
Recv(k) ==
  /\ pc = "recv"
  /\ k \in 1 .. Min({Len(toServer[cursor]), BufSize - Len(buffer[cursor])})
  /\ LET bufs == [buffer EXCEPT ![cursor] = @ \o SubSeq(toServer[cursor], 1, k)]
     IN  /\ buffer' = bufs
         /\ GoRecv(clients, Position(clients, cursor) + 1, fdReads, bufs)
  /\ toServer' = [toServer EXCEPT ![cursor] = Drop(@, k)]
  /\ UNCHANGED <<peer, backlog, toClient, clients, nickname, isLogined,
                 fdMaster, fdReads, recipient, cycle, out>>

(* recv() returns 0 or -1: the client has closed (data still in the stream *)
(* may be lost to a reset), or no room is left in the buffer.  After the   *)
(* break the receive loop is left.                                         *)
RecvFails ==
  /\ pc = "recv"
  /\ \/ peer[cursor] = "down"
     \/ Len(buffer[cursor]) = BufSize
  /\ deleteClient(cursor)
  /\ GoProcess(clients', 1, buffer')
  /\ UNCHANGED <<fdReads, recipient, cycle, out>>

-----------------------------------------------------------------------------
(* The packet at the start of the buffer of the client being processed *)
request == buffer[cursor][1].pkt
field(k) == readPacketString(buffer[cursor], k)

Processing(command) == pc = "process" /\ request.command = command

(* createPacket for a respond, then goto sendPacket *)
Respond(status) ==
  /\ out' = createPacket("RESPOND", request.command, status, request.id, <<>>)
  /\ pc' = "reply"
  /\ UNCHANGED cursor

(* Fault: the result of readPacketString is not checked *)
loginStatusUnchecked ==
  IF Lookup(field(1)) # NULL THEN "ALREADY_EXISTS" ELSE "OK"

(* Fault: the list is not searched for the nickname *)
loginStatusUnsearched == IF field(1) = NULL THEN "CANT_READ" ELSE "OK"

loginStatus ==
  IF field(1) = NULL THEN "CANT_READ"
  ELSE IF Lookup(field(1)) # NULL THEN "ALREADY_EXISTS"
  ELSE "OK"

(* Fault: the nickname is not copied to the client *)
processLoginPacketUnnamed ==
  /\ Processing("LOGIN")
  /\ Respond(loginStatus)
  /\ isLogined' = [isLogined EXCEPT ![cursor] = @ \/ loginStatus = "OK"]
  /\ UNCHANGED <<netVars, clients, nickname, buffer, fdMaster, fdReads,
                 recipient, cycle>>

(* Fault: the nickname is copied before the list is searched *)
processLoginPacketEager ==
  /\ Processing("LOGIN")
  /\ Respond(loginStatus)
  /\ IF loginStatus # "CANT_READ"
       THEN /\ nickname' = [nickname EXCEPT ![cursor] = field(1)]
            /\ isLogined' = [isLogined EXCEPT ![cursor] = TRUE]
       ELSE UNCHANGED <<nickname, isLogined>>
  /\ UNCHANGED <<netVars, clients, buffer, fdMaster, fdReads, recipient, cycle>>

processLoginPacket ==
  /\ Processing("LOGIN")
  /\ Respond(loginStatus)
  /\ IF loginStatus = "OK"
       THEN /\ nickname' = [nickname EXCEPT ![cursor] = field(1)]
            /\ isLogined' = [isLogined EXCEPT ![cursor] = TRUE]
       ELSE UNCHANGED <<nickname, isLogined>>
  /\ UNCHANGED <<netVars, clients, buffer, fdMaster, fdReads, recipient, cycle>>

createChatStatus ==
  IF field(1) = NULL THEN "CANT_READ"
  ELSE IF nickname[cursor] = field(1) THEN "ACTION_TO_HIMSELF"
  ELSE IF Lookup(field(1)) # NULL THEN "OK"
  ELSE "NOT_FOUND"

processCreateChatPacket ==
  /\ Processing("CREATE_CHAT")
  /\ Respond(createChatStatus)
  /\ UNCHANGED <<netVars, nodeVars, fdReads, recipient, cycle>>

(* processMessagePacket sends a respond without trying a delivery.  The    *)
(* status NOT_FOUND of a missing client is overwritten with FAILURE.       *)
unreadable == field(1) = NULL \/ field(2) = NULL

RefuseMessage ==
  /\ Processing("MESSAGE")
  /\ \/ unreadable /\ Respond("CANT_READ")
     \/ ~unreadable /\ Lookup(field(1)) = NULL /\ Respond("FAILURE")
  /\ UNCHANGED <<netVars, nodeVars, fdReads, recipient, cycle>>

(* Fault: the delivery carries the recipient's nickname *)
deliveryMisnamed == createPacket("DELIVERY", "MESSAGE", "OK", 0,
                                 <<field(1), field(2)>>)

(* sendMessage, up to its loop: the delivery that goes to the client found *)
delivery == createPacket("DELIVERY", "MESSAGE", "OK", 0,
                         <<nickname[cursor], field(2)>>)

SendDelivery ==
  /\ Processing("MESSAGE")
  /\ ~unreadable
  /\ LET to == Lookup(field(1))
     IN  /\ to \in Conn
         /\ HasRoom(to, delivery)
         /\ toClient' = Sent(to, delivery)
         /\ recipient' = to
  /\ pc' = "respond"
  /\ cycle' = 0
  /\ UNCHANGED <<peer, backlog, toServer, nodeVars, fdReads, cursor, out>>

(* send() of the delivery fails *)
DeliveryFails ==
  /\ Processing("MESSAGE")
  /\ ~unreadable
  /\ LET to == Lookup(field(1))
     IN  \/ to = INVALID_SOCKET
         \/ to \in Conn /\ peer[to] = "down"
  /\ Exit

-----------------------------------------------------------------------------
(* The loop of sendMessage, which reads from the recipient only.           *)

(* What sendMessage returns of the cells it has received.  The bytes of a  *)
(* field read as a size larger than a header; those of the rest of a       *)
(* header may read as anything.                                            *)
Verdicts(cell) ==
  IF cell.part = 0
    THEN {Size(cell.pkt) = 1 /\ cell.pkt.status = "OK"}
    ELSE IF cell.part > 0 THEN {FALSE} ELSE BOOLEAN

Returns(delivered) ==
  /\ Respond(IF delivered THEN "OK" ELSE "FAILURE")
  /\ recipient' = NULL
  /\ cycle' = 0

(* recv() returns at least a header *)
ReadRespond(k) ==
  /\ pc = "respond"
  /\ k \in 1 .. Min({Len(toServer[recipient]), RespondSize})
  /\ \E delivered \in Verdicts(toServer[recipient][1]) : Returns(delivered)
  /\ toServer' = [toServer EXCEPT ![recipient] = Drop(@, k)]
  /\ UNCHANGED <<peer, backlog, toClient, nodeVars, fdReads>>

(* Fault: the delivery is sent again in every cycle *)
ReadPartAndResend ==
  /\ pc = "respond"
  /\ toServer[recipient] # <<>>
  /\ cycle + 1 < MaxCycles
  /\ HasRoom(recipient, delivery)
  /\ cycle' = cycle + 1
  /\ toClient' = Sent(recipient, delivery)
  /\ UNCHANGED <<peer, backlog, toServer, nodeVars, fdReads, pc, cursor,
                 recipient, out>>

(* recv() returns less than a header; after MaxCycles such reads           *)
(* sendMessage gives up with the header half read                          *)
ReadPartOfRespond ==
  /\ pc = "respond"
  /\ toServer[recipient] # <<>>
  /\ LET head == toServer[recipient][1]
     IN  /\ head.part = 0
         /\ IF cycle + 1 < MaxCycles
              THEN /\ cycle' = cycle + 1
                   /\ UNCHANGED <<toServer, pc, cursor, recipient, out>>
              ELSE /\ Returns(FALSE)
                   /\ toServer' = [toServer EXCEPT ![recipient] =
                                     <<Rest(head.pkt)>> \o Tail(@)]
  /\ UNCHANGED <<peer, backlog, toClient, nodeVars, fdReads>>

(* Fault: the client being processed is deleted in place of the recipient *)
RespondFailsWrongClient ==
  /\ pc = "respond"
  /\ peer[recipient] = "down"
  /\ deleteClient(cursor)
  /\ Returns(FALSE)
  /\ UNCHANGED fdReads

(* recv() fails: the recipient is deleted.  When it is the very client     *)
(* being processed, main() goes on with a freed node.                      *)
RespondFails ==
  /\ pc = "respond"
  /\ peer[recipient] = "down"
  /\ deleteClient(recipient)
  /\ IF recipient = cursor
       THEN pc' = "undefined" /\ UNCHANGED <<cursor, recipient, cycle, out>>
       ELSE Returns(FALSE)
  /\ UNCHANGED fdReads

-----------------------------------------------------------------------------
(* Fault: the packet is not cleared *)
unclearedBuffer == buffer[cursor]

(* "clear packet" *)
clearedBuffer == Drop(buffer[cursor], Size(request))

(* sendPacket of the respond, then "clear packet" and client->next *)
SendRespond ==
  /\ pc = "reply"
  /\ HasRoom(cursor, out)
  /\ toClient' = Sent(cursor, out)
  /\ LET bufs == [buffer EXCEPT ![cursor] = clearedBuffer]
     IN  /\ buffer' = bufs
         /\ GoProcess(clients, Position(clients, cursor) + 1, bufs)
  /\ out' = NULL
  /\ UNCHANGED <<peer, backlog, toServer, clients, nickname, isLogined,
                 fdMaster, fdReads, recipient, cycle>>

(* send() of the respond fails *)
RespondNotSent ==
  /\ pc = "reply"
  /\ peer[cursor] = "down"
  /\ Exit

ServerNext ==
  \/ waitForClients
  \/ Accept \/ AcceptFails
  \/ (\E k \in 1 .. BufSize : Recv(k)) \/ RecvFails
  \/ processLoginPacket \/ processCreateChatPacket
  \/ RefuseMessage \/ SendDelivery \/ DeliveryFails
  \/ (\E k \in 1 .. RespondSize : ReadRespond(k))
  \/ ReadPartOfRespond \/ RespondFails
  \/ SendRespond \/ RespondNotSent

(* What a client does to the server, whatever program it runs *)
AnyClient ==
  /\ \E c \in Conn :
       \/ pc # "exited" /\ Connect(c)
       \/ \E p \in ClientPacket : ClientSend(c, p)
       \/ \E k \in 1 .. SockBuf : ClientRecv(c, k)
       \/ ClientClose(c)
  /\ UNCHANGED serverVars

Next == ServerNext \/ AnyClient

Spec == ServerInit /\ [][Next]_vars

-----------------------------------------------------------------------------
(* A nickname names one client: no two nodes of the list carry the same    *)
(* nickname, whatever logs in, logs in again or leaves while the thread is *)
(* inside another client's request (processLoginPacket, deleteClient).     *)
UniqueNicknames ==
  \A x, y \in Listed :
    nickname[x] = nickname[y] /\ nickname[x] # NoName => x = y

(* The list and the descriptor set agree: a node is in the list once, what *)
(* select() is given is an open socket of the list, and while FD_SETSIZE   *)
(* is not exceeded every accepted client is in the set (getClient,         *)
(* addClientToSet, deleteClient).                                          *)
ListIntegrity ==
  /\ IsInjective(clients)
  /\ fdMaster \ {LISTEN} \subseteq Listed
  /\ MaxFds > Cardinality(Conn) => Listed \cap Conn \subseteq fdMaster
  /\ pc # "exited" => \A c \in Listed \cap Conn : peer[c] \in {"up", "down"}

(* The pointers main() and sendMessage hold across blocking calls point to *)
(* nodes that are still in the list, deleteClient inside sendMessage       *)
(* notwithstanding (server.c, `client'; packetProcessor.c, `to').          *)
PointersLive ==
  /\ pc \in {"recv", "process", "respond", "reply"} => cursor \in Listed
  /\ pc = "respond" => recipient \in Listed

(* A client is dropped only when it has gone or when its stream is torn:   *)
(* recv() is never given an empty rest of the buffer of a client whose     *)
(* packets are intact, although one packet at most is processed per pass   *)
(* (server.c, the two loops of main).                                      *)
DroppedOnlyWhenGone ==
  [][\A c \in (Listed \ Listed') \cap Conn :
       peer[c] = "down" \/ ~Aligned(buffer[c])]_vars

(* The respond about to be sent answers the request at the start of the    *)
(* asker's buffer, by its id and command, although sendMessage may have    *)
(* waited for, and deleted, another client in between; and a login is      *)
(* granted only when the nickname has been stored (packetProcessor.c).     *)
AnswersMatchRequests ==
  pc = "reply" =>
    /\ Complete(buffer[cursor])
    /\ out.type = "RESPOND"
    /\ out.id = request.id /\ out.command = request.command
    /\ (out.command = "LOGIN" /\ out.status = "OK") =>
         isLogined[cursor] /\ nickname[cursor] = field(1)

(* The nicknames are a registry: only a client's own login or end changes  *)
(* his nickname, and only to one that nobody has.                          *)
Registry == INSTANCE NameRegistry WITH
  Owner <- Conn, Name <- String \ {NoName}, None <- NoName,
  name <- [c \in Conn |-> nickname[c]]

NicknamesAreRegistry == Registry!RegistrySpec

(* While the server keeps returning to select(), a client that has closed  *)
(* is eventually taken out of the list, and its nickname is free again     *)
(* (server.c, the receive loop, whose `break' puts other clients off).     *)
DepartedClientRemoved ==
  []<>(pc = "select") =>
    \A c \in Conn : (c \in Listed /\ peer[c] = "down") ~> c \notin Listed

=============================================================================
