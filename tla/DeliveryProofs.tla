--------------------------- MODULE DeliveryProofs ---------------------------
(***************************************************************************)
(* Proofs about what becomes of a message: it stands in a chat under the   *)
(* nickname of a client that sent it, and it stands in one chat only.      *)
(***************************************************************************)
EXTENDS MessagesProofs

(* Client d has been in the server's list and has left it. *)
Gone(d) == d \notin Listed \cup ToSet(backlog) /\ peer[d] # "idle"

(* A client that has sent messages may have sent t under the nickname n *)
Origin(n, t) ==
  \E d \in Conn : /\ t \in typed[d] \cup Name
                  /\ typed[d] # {}
                  /\ nickname[d] = n \/ Gone(d)

-----------------------------------------------------------------------------
(* An origin stays one *)

LEMMA StaysIdle ==
  ASSUME IInv, ServerNext, NEW c \in Conn, peer'[c] = "idle"
  PROVE  peer[c] = "idle"
<1>1. peer \in [Conn -> {"idle", "up", "cut", "down"}]
  BY DEF IInv, ServerTypeOK, NetTypeOK
<1>2. \A S : Cut(S)[c] = "idle" => peer[c] = "idle"
  BY <1>1 DEF Cut
<1> QED BY <1>2
        DEF ServerNext, waitForClients, Accept, AcceptFails, Recv, RecvFails,
            processLoginPacket, processCreateChatPacket, RefuseMessage, SendDelivery,
            DeliveryFails, Exit, ReadRespond, ReadPartOfRespond, RespondFails,
            SendRespond, RespondNotSent, deleteClient, netVars

(* A client that is deleted *)
LEMMA Deleted ==
  ASSUME IInv, ServerNext, pc # "exited", NEW c \in Conn \cap Listed, deleteClient(c)
  PROVE  /\ Listed' = Listed \ {c} /\ backlog' = backlog
         /\ Gone(c)'
         /\ \A d \in Conn \ {c} : nickname'[d] = nickname[d]
<1>1. Listed' = Listed \ {c} /\ backlog' = backlog
  BY DeleteStep DEF deleteClient
<1>2. peer[c] # "idle" /\ c \notin ToSet(backlog)
  BY DEF IInv, Connections
<1>3. peer'[c] # "idle"
  BY <1>2, StaysIdle
<1>4. nickname \in [Node -> String]
  BY DEF IInv, ServerTypeOK
<1>5. \A d \in Conn \ {c} : nickname'[d] = nickname[d]
  BY <1>4 DEF deleteClient, Node
<1> QED BY <1>1, <1>2, <1>3, <1>5 DEF Gone

(* Whom the server's list and backlog hold after its step *)
LEMMA ServerMembers ==
  ASSUME IInv, ServerNext
  PROVE  \A d \in Conn : d \in Listed' \cup ToSet(backlog') => d \in Listed \cup ToSet(backlog)
<1>1. CASE UNCHANGED <<clients, backlog>>
  BY <1>1 DEF Listed
<1>2. CASE Accept
  <2> DEFINE h == Head(backlog)
             list == ReplaceAll(getClient, INVALID_SOCKET, h)
  <2>1. /\ clients' = list /\ backlog' = Tail(backlog) /\ pc = "accept"
    BY <1>2 DEF Accept
  <2>2. /\ h \in Conn \ Listed /\ h \in ToSet(backlog)
        /\ ToSet(Tail(backlog)) = ToSet(backlog) \ {h}
    BY <2>1, HeadOfBacklog
  <2>3. /\ getClient \in Seq(Node) /\ IsInjective(getClient)
        /\ ToSet(getClient) = Listed \cup {INVALID_SOCKET}
    BY GetClientList
  <2>4. h \in Node /\ h \notin ToSet(getClient) /\ INVALID_SOCKET \notin Conn
    BY <2>2, <2>3, ServerAssumption DEF Node
  <2>5. ToSet(list) = (ToSet(getClient) \ {INVALID_SOCKET}) \cup {h}
    BY <2>3, <2>4, RenameInList
  <2> QED BY <2>1, <2>2, <2>3, <2>5 DEF Listed
<1>3. CASE AcceptFails
  <2>1. /\ clients' = getClient /\ backlog' = Tail(backlog) /\ pc = "accept"
    BY <1>3 DEF AcceptFails
  <2>2. ToSet(Tail(backlog)) \subseteq ToSet(backlog)
    BY <2>1, HeadOfBacklog
  <2>3. ToSet(getClient) = Listed \cup {INVALID_SOCKET} /\ INVALID_SOCKET \notin Conn
    BY GetClientList, ServerAssumption
  <2> QED BY <2>1, <2>2, <2>3 DEF Listed
<1>4. CASE RecvFails
  <2>1. pc = "recv" /\ cursor \in Conn \cap Listed /\ deleteClient(cursor)
    BY <1>4 DEF RecvFails, IInv, ThreadControl
  <2> QED BY <2>1, Deleted
<1>5. CASE RespondFails
  <2>1. pc = "respond" /\ recipient \in Conn \cap Listed /\ deleteClient(recipient)
    BY <1>5 DEF RespondFails, IInv, ThreadControl
  <2> QED BY <2>1, Deleted
<1> QED BY <1>1, <1>2, <1>3, <1>4, <1>5
        DEF ServerNext, waitForClients, Recv, processLoginPacket, processCreateChatPacket,
            RefuseMessage, SendDelivery, DeliveryFails, Exit, ReadRespond,
            ReadPartOfRespond, SendRespond, RespondNotSent, netVars, nodeVars

LEMMA ServerGone ==
  ASSUME IInv, ServerNext, NEW d \in Conn, Gone(d)
  PROVE  Gone(d)'
<1>1. peer'[d] # "idle"
  BY StaysIdle DEF Gone
<1>2. d \notin Listed' \cup ToSet(backlog')
  BY ServerMembers DEF Gone
<1> QED BY <1>1, <1>2 DEF Gone

(* A nickname changes at a login and at the end. *)
LEMMA ServerNicknames ==
  ASSUME IInv, ServerNext, NEW d \in Conn
  PROVE  nickname'[d] = nickname[d] \/ Logins(d) # {} \/ Gone(d)'
<1>1. nickname \in [Node -> String]
  BY DEF IInv, ServerTypeOK
<1>2. CASE processLoginPacket
  <2>1. nickname' = nickname \/ nickname' = [nickname EXCEPT ![cursor] = field(1)]
    BY <1>2 DEF processLoginPacket
  <2>2. 1 \in Logins(cursor)
    BY <1>2, RequestAtFront DEF processLoginPacket, Processing
  <2>3. CASE d = cursor
    BY <2>2, <2>3
  <2>4. CASE d # cursor
    BY <1>1, <2>1, <2>4 DEF Node
  <2> QED BY <2>3, <2>4
<1>3. CASE RecvFails
  <2>1. pc = "recv" /\ cursor \in Conn \cap Listed /\ deleteClient(cursor)
    BY <1>3 DEF RecvFails, IInv, ThreadControl
  <2> QED BY <2>1, Deleted
<1>4. CASE RespondFails
  <2>1. pc = "respond" /\ recipient \in Conn \cap Listed /\ deleteClient(recipient)
    BY <1>4 DEF RespondFails, IInv, ThreadControl
  <2> QED BY <2>1, Deleted
<1>5. CASE nickname' = nickname
  BY <1>5
<1> QED BY <1>2, <1>3, <1>4, <1>5
        DEF ServerNext, waitForClients, Accept, AcceptFails, Recv, processCreateChatPacket,
            RefuseMessage, SendDelivery, DeliveryFails, Exit, ReadRespond,
            ReadPartOfRespond, SendRespond, RespondNotSent, nodeVars

LEMMA ServerKeepsOrigin ==
  ASSUME SystemInv, LoginInv, ServerStep, NEW n, NEW t, Origin(n, t)
  PROVE  Origin(n, t)'
<1>1. IInv /\ ServerNext /\ typed' = typed
  BY DEF SystemInv, ServerStep, clientVars
<1>2. PICK d \in Conn : /\ t \in typed[d] \cup Name
                        /\ typed[d] # {}
                        /\ nickname[d] = n \/ Gone(d)
  BY DEF Origin
<1>3. Logins(d) = {}
  BY <1>2 DEF LoginInv, LoginOK, Waiting, Unanswered
<1>4. nickname'[d] = n \/ Gone(d)'
  BY <1>1, <1>2, <1>3, ServerNicknames, ServerGone
<1> QED BY <1>1, <1>2, <1>4 DEF Origin

(* The user types more texts, the texts typed stay typed. *)
LEMMA TypedGrows ==
  ASSUME SystemInv, NEW c \in Conn, StartClient(c) \/ ClientStep(c), NEW d \in Conn
  PROVE  typed[d] \subseteq typed'[d]
<1>1. typed \in [Conn -> SUBSET Text]
  BY DEF SystemInv, ClientInv, ClientTypeOK
<1>2. CASE \E k, t : sendMessage(c, k, t)
  BY <1>1, <1>2 DEF sendMessage
<1>3. CASE typed' = typed
  BY <1>3
<1> QED BY <1>2, <1>3
        DEF StartClient, ClientStep, UserStep, MainStep, ThreadStep, SocketStep, SendFails,
            Quit, End, Crash, logIn, createChat, LogInAnswered, CreateChatAnswered,
            SendRequest, MessageAnswered, Receive, ReceiveNothing, HandleDelivery,
            HandleRespond, DropRespond

LEMMA ClientGone ==
  ASSUME SystemInv, NEW c \in Conn, StartClient(c) \/ ClientStep(c),
         UNCHANGED serverVars, NEW d \in Conn, Gone(d)
  PROVE  Gone(d)'
<1>1. /\ IInv /\ Listed' = Listed /\ peer \in [Conn -> {"idle", "up", "cut", "down"}]
      /\ backlog \in Seq(Conn)
  BY DEF SystemInv, IInv, ServerTypeOK, NetTypeOK, serverVars, nodeVars, Listed
<1>2. CASE Connect(c)
  <2>1. c \notin ToSet(backlog) /\ IsInjective(backlog) /\ d # c
    BY <1>1, <1>2 DEF IInv, Connections, Connect, Gone
  <2>2. ToSet(backlog') = ToSet(backlog) \cup {c}
    BY <1>1, <1>2, <2>1, QueueAppend DEF Connect
  <2>3. peer'[d] = peer[d]
    BY <1>1, <1>2, <2>1 DEF Connect
  <2> QED BY <1>1, <2>1, <2>2, <2>3 DEF Gone
<1>3. CASE backlog' = backlog /\ (peer' = peer \/ peer' = [peer EXCEPT ![c] = "down"])
  <2>1. peer'[d] # "idle"
    BY <1>1, <1>3 DEF Gone
  <2> QED BY <1>1, <1>3, <2>1 DEF Gone
<1>4. CASE StartClient(c)
  BY <1>2, <1>4 DEF StartClient
<1>5. CASE ClientStep(c)
  <2>1. Environment(c)
    BY <1>5, ClientIsEnvironment
  <2> QED BY <1>2, <1>3, <2>1 DEF Environment, ClientSend, ClientRecv, ClientClose, netVars
<1> QED BY <1>4, <1>5

LEMMA ClientKeepsOrigin ==
  ASSUME SystemInv, NEW c \in Conn, StartClient(c) \/ ClientStep(c),
         UNCHANGED serverVars, NEW n, NEW t, Origin(n, t)
  PROVE  Origin(n, t)'
<1>1. PICK d \in Conn : /\ t \in typed[d] \cup Name
                        /\ typed[d] # {}
                        /\ nickname[d] = n \/ Gone(d)
  BY DEF Origin
<1>2. typed[d] \subseteq typed'[d] /\ (Gone(d) => Gone(d)')
  BY TypedGrows, ClientGone
<1>3. nickname'[d] = nickname[d]
  BY DEF serverVars, nodeVars
<1> QED BY <1>1, <1>2, <1>3 DEF Origin

-----------------------------------------------------------------------------
(* What a client sends *)

(* A message request for the message of thread th *)
RequestOf(c, th) == MessageRequest(contacts[c][th[1]].nickname, At(contacts[c], th).text,
                                   FreeRequest(c))

(* A client's own packets have nicknames in their fields, but for the      *)
(* requests of its threads.                                                *)
LEMMA ClientRequests ==
  ASSUME SystemInv, NEW c \in Conn, StartClient(c) \/ ClientStep(c),
         UNCHANGED serverVars
  PROVE  \/ Reqs(c)' = Reqs(c)
         \/ \E p \in ClientPackets :
              /\ Reqs(c)' = Reqs(c) \o Cells(p)
              /\ \/ \A i \in DOMAIN p.fields : p.fields[i] \in Name
                 \/ \E th \in threads[c] : SendRequest(c, th) /\ HasFreeRequest(c)
                                           /\ p = RequestOf(c, th)
<1>1. IInv /\ ClientTypeOK /\ buffer' = buffer
  BY DEF SystemInv, ClientInv, serverVars, nodeVars
<1> DEFINE Result ==
             \/ Reqs(c)' = Reqs(c)
             \/ \E p \in ClientPackets :
                  /\ Reqs(c)' = Reqs(c) \o Cells(p)
                  /\ \/ \A i \in DOMAIN p.fields : p.fields[i] \in Name
                     \/ \E th \in threads[c] : SendRequest(c, th) /\ HasFreeRequest(c)
                                               /\ p = RequestOf(c, th)
<1>2. ASSUME toServer' = toServer
      PROVE  Result
  BY <1>1, <1>2 DEF Reqs
<1>3. ASSUME NEW p \in ClientPackets, ClientSend(c, p),
             \/ \A i \in DOMAIN p.fields : p.fields[i] \in Name
             \/ \E th \in threads[c] : SendRequest(c, th) /\ HasFreeRequest(c)
                                       /\ p = RequestOf(c, th)
      PROVE  Result
  BY <1>1, <1>3, ClientSends
<1> HIDE DEF Result
<1>4. ASSUME NEW n \in Name, logIn(c, n) PROVE Result
  <2> DEFINE p == LoginRequest(n, FreeRequest(c))
  <2>1. ClientSend(c, p) /\ FreeRequest(c) \in Id
    BY <1>4, FreeSlot DEF logIn
  <2>2. p \in ClientPackets /\ p.fields = <<n>>
    BY <2>1 DEF ClientPackets, LoginRequest, createPacket
  <2> HIDE DEF p
  <2>3. \A i \in DOMAIN p.fields : p.fields[i] \in Name
    BY <2>2
  <2> QED BY <1>3, <2>1, <2>2, <2>3
<1>5. ASSUME NEW n \in Name, createChat(c, n) PROVE Result
  <2> DEFINE p == ChatRequest(n, FreeRequest(c))
  <2>1. ClientSend(c, p) /\ FreeRequest(c) \in Id
    BY <1>5, FreeSlot DEF createChat
  <2>2. p \in ClientPackets /\ p.fields = <<n>>
    BY <2>1 DEF ClientPackets, ChatRequest, createPacket
  <2> HIDE DEF p
  <2>3. \A i \in DOMAIN p.fields : p.fields[i] \in Name
    BY <2>2
  <2> QED BY <1>3, <2>1, <2>2, <2>3
<1>6. ASSUME NEW th \in threads[c], SendRequest(c, th) PROVE Result
  <2>1. CASE ~HasFreeRequest(c)
    BY <1>2, <1>6, <2>1 DEF SendRequest, netVars
  <2>2. CASE HasFreeRequest(c)
    <3>1. ClientSend(c, RequestOf(c, th))
      BY <1>6, <2>2 DEF SendRequest, RequestOf, At
    <3>2. contacts[c] \in Seq(Contact) /\ th \in Places(contacts[c])
      BY ClientFacts
    <3>3. contacts[c][th[1]] \in Contact /\ th[2] \in DOMAIN contacts[c][th[1]].messages
      BY <3>2 DEF Places
    <3>4. contacts[c][th[1]].nickname \in String /\ At(contacts[c], th) \in Message
      BY <3>3 DEF Contact, At
    <3>5. RequestOf(c, th) \in ClientPackets
      BY <2>2, <3>4, FreeSlot DEF RequestOf, ClientPackets, Message
    <3> QED BY <1>3, <1>6, <2>2, <3>1, <3>5
  <2> QED BY <2>1, <2>2
<1>7. ASSUME HandleDelivery(c) PROVE Result
  <2> DEFINE p == DeliveryRespond(newMessageStatus(c))
  <2>1. ClientSend(c, p)
    BY <1>7 DEF HandleDelivery
  <2>2. p \in ClientPackets /\ p.fields = <<>>
    BY DEF newMessageStatus, ClientPackets, DeliveryRespond, createPacket
  <2> HIDE DEF p
  <2>3. \A i \in DOMAIN p.fields : p.fields[i] \in Name
    BY <2>2
  <2> QED BY <1>3, <2>1, <2>2, <2>3
<1>8. CASE toServer' = toServer
  BY <1>2, <1>8 DEF Result
<1> QED BY <1>4, <1>5, <1>6, <1>7, <1>8
        DEF Result, StartClient, Connect, ClientStep, UserStep, MainStep, ThreadStep,
            SocketStep, SendFails, Quit, End, ClientClose, Crash, sendMessage,
            LogInAnswered, CreateChatAnswered, MessageAnswered, Receive, ClientRecv,
            ReceiveNothing, HandleRespond, DropRespond, netVars

-----------------------------------------------------------------------------
(* Where the nicknames and the texts in the streams come from *)

ContactsNamed(c) == \A k \in DOMAIN contacts[c] : contacts[c][k].nickname \in Name

FieldsTyped(c) ==
  \A p \in ReqPackets(c) : \A i \in DOMAIN p.fields : p.fields[i] \in Name \cup typed[c]

(* A respond has no fields, a delivery has a nickname and a text. *)
StreamFields(c) ==
  \A p \in StreamPackets(c) :
    IF p.type = "DELIVERY" THEN \E n \in Name, t \in String : p.fields = <<n, t>>
                           ELSE p.fields = <<>>

DeliveriesHaveOrigin(c) ==
  \A p \in StreamPackets(c) : p.type = "DELIVERY" => Origin(p.fields[1], p.fields[2])

MessagesHaveOrigin(c) ==
  \A km \in Places(contacts[c]) :
    ~At(contacts[c], km).sender =>
      Origin(contacts[c][km[1]].nickname, At(contacts[c], km).text)

OriginInv ==
  /\ pc = "reply" => out.fields = <<>>
  /\ \A c \in Conn : StreamFields(c)
  /\ \A c \in Conn : ~misplaced[c] => ContactsNamed(c) /\ FieldsTyped(c)
  /\ Intact => \A c \in Conn : DeliveriesHaveOrigin(c) /\ MessagesHaveOrigin(c)

(* In an intact buffer the two strings handleNewMessage reads are the      *)
(* fields of the delivery.                                                 *)
LEMMA DeliveryFields ==
  ASSUME StreamInv, NEW c \in Conn, HandleDelivery(c), ~misplaced[c], StreamFields(c)
  PROVE  /\ front(c) \in StreamPackets(c) /\ front(c).type = "DELIVERY"
         /\ front(c).fields = <<sender(c), text(c)>>
         /\ sender(c) \in Name /\ text(c) \in String
         /\ 3 \in DOMAIN Stream(c) /\ Stream(c)[3] = [pkt |-> front(c), part |-> 2]
         /\ Size(front(c)) = 3
<1> DEFINE a == readBuffer[c]
           s == Stream(c)
           p == front(c)
<1>1. /\ SystemInv /\ a \in Seq(Cell) /\ toClient[c] \in Seq(Cell) /\ Whole(s)
      /\ rx[c] = "packet" /\ p.type = "DELIVERY" /\ Complete(a)
  BY ClientFacts DEF StreamInv, StreamsWhole, HandleDelivery, PacketsComplete
<1>2. /\ p = a[1].pkt /\ a[1].part = 0 /\ a # <<>>
      /\ Size(p) <= Len(a) /\ Size(p) \in Nat /\ Len(a) \in Nat
  BY <1>1, FrontPacket, PacketCells DEF Complete, Aligned, front
<1>3. s \in Seq(Cell) /\ \A j \in 1 .. Len(a) : j \in DOMAIN s /\ s[j] = a[j]
  <2>1. a \in Seq(Cell) /\ toClient[c] \in Seq(Cell) /\ s = a \o toClient[c]
    BY <1>1 DEF Stream
  <2> HIDE DEF a, s
  <2>2. /\ s \in Seq(Cell) /\ Len(s) = Len(a) + Len(toClient[c])
        /\ \A i \in 1 .. Len(a) + Len(toClient[c]) :
             s[i] = IF i <= Len(a) THEN a[i] ELSE toClient[c][i - Len(a)]
    BY <2>1, ConcatProperties
  <2>3. Len(a) \in Nat /\ Len(toClient[c]) \in Nat /\ DOMAIN s = 1 .. Len(s)
    BY <2>1, <2>2
  <2> QED BY <2>2, <2>3
<1>4. p \in PacketsIn(s)
  <2>1. 1 \in DOMAIN s /\ s[1] = a[1]
    BY <1>1, <1>2, <1>3
  <2> QED BY <1>2, <2>1 DEF PacketsIn
<1>5. PICK n \in Name, t \in String : p.fields = <<n, t>>
  BY <1>1, <1>4 DEF StreamFields, StreamPackets
<1>6. Size(p) = 3 /\ Len(p.fields) = 2 /\ p.fields[1] = n /\ p.fields[2] = t
  BY <1>5 DEF Size
<1> HIDE DEF s
<1>7. \A i \in 0 .. 2 : 1 + i \in DOMAIN s /\ s[1 + i] = [pkt |-> p, part |-> i]
  <2>1. s[1] = a[1] /\ 1 \in DOMAIN s
    BY <1>1, <1>2, <1>3, <1>6
  <2>2. s[1].part = 0 /\ s[1].pkt = p
    BY <1>2, <2>1
  <2>3. \A i \in 0 .. Len(s[1].pkt.fields) :
          LET k == 1 - s[1].part + i
          IN  k \in DOMAIN s /\ s[k] = [pkt |-> s[1].pkt, part |-> i]
    BY <1>1, <2>1 DEF Whole
  <2> QED BY <1>6, <2>2, <2>3
<1>8. /\ 2 \in DOMAIN s /\ s[2] = [pkt |-> p, part |-> 1]
      /\ 3 \in DOMAIN s /\ s[3] = [pkt |-> p, part |-> 2]
  <2>1. 1 \in 0 .. 2 /\ 2 \in 0 .. 2 /\ 1 + 1 = 2 /\ 1 + 2 = 3
    OBVIOUS
  <2> QED BY <1>7, <2>1
<1>9. 2 \in 1 .. Len(a) /\ 3 \in 1 .. Len(a) /\ 1 < Len(a) /\ 2 < Len(a)
  BY <1>2, <1>6
<1>10. a[2] = [pkt |-> p, part |-> 1] /\ a[3] = [pkt |-> p, part |-> 2]
  BY <1>3, <1>8, <1>9
<1>11. sender(c) = n /\ text(c) = t
  <2>1. Size(a[1].pkt) = 3
    BY <1>2, <1>6
  <2>2. readPacketString(a, 1) = p.fields[1]
    BY <1>9, <1>10, <2>1 DEF readPacketString
  <2>3. readPacketString(a, 2) = p.fields[2]
    BY <1>9, <1>10, <2>1 DEF readPacketString
  <2> QED BY <1>6, <2>2, <2>3 DEF sender, text
<1> QED BY <1>1, <1>4, <1>5, <1>6, <1>8, <1>11 DEF StreamPackets, s

(* A client's step neither loses nor makes up a nickname or a text. *)
LEMMA ClientKeepsFields ==
  ASSUME StreamInv, LoginInv, OriginInv, NEW c \in Conn, StartClient(c) \/ ClientStep(c),
         UNCHANGED serverVars
  PROVE  StreamFields(c)' /\ (~misplaced'[c] => FieldsTyped(c)')
<1>1. SystemInv /\ IInv
  BY DEF StreamInv, SystemInv
<1>2. StreamPackets(c)' \subseteq StreamPackets(c)
  BY <1>1, ClientStreamPackets
<1>3. StreamFields(c)'
  BY <1>2 DEF OriginInv, StreamFields
<1>4. ASSUME ~misplaced'[c] PROVE FieldsTyped(c)'
  <2>1. ContactsNamed(c) /\ FieldsTyped(c)
    BY <1>1, <1>4, StreamStep DEF OriginInv
  <2>2. typed[c] \subseteq typed'[c]
    BY <1>1, TypedGrows
  <2>3. CASE Reqs(c)' = Reqs(c)
    BY <2>1, <2>2, <2>3 DEF FieldsTyped, ReqPackets, PacketsIn
  <2>4. ASSUME NEW p \in ClientPackets, Reqs(c)' = Reqs(c) \o Cells(p),
               \A i \in DOMAIN p.fields : p.fields[i] \in Name \cup typed[c]
        PROVE  FieldsTyped(c)'
    <3>1. Reqs(c) \in Seq(Cell) /\ p \in Packet
      BY <1>1, ReqsType, ClientPacketFacts
    <3>2. ReqPackets(c)' = ReqPackets(c) \cup {p}
      <4>1. PacketsIn(Reqs(c) \o Cells(p)) = PacketsIn(Reqs(c)) \cup {p}
        BY <3>1, PacketsAppend
      <4>2. ReqPackets(c)' = PacketsIn(Reqs(c) \o Cells(p))
        BY <2>4 DEF ReqPackets, PacketsIn
      <4> QED BY <4>1, <4>2 DEF ReqPackets
    <3> QED BY <2>1, <2>2, <2>4, <3>2 DEF FieldsTyped
  <2>5. ASSUME NEW th \in threads[c], HasFreeRequest(c)
        PROVE  \A i \in DOMAIN RequestOf(c, th).fields :
                 RequestOf(c, th).fields[i] \in Name \cup typed[c]
    <3> DEFINE n == contacts[c][th[1]].nickname
               t == At(contacts[c], th).text
    <3>1. t \in typed[c]
      BY DEF LoginInv, LoginOK
    <3>2. th \in Places(contacts[c])
      BY <1>1, ClientFacts
    <3>3. n \in Name
      BY <2>1, <3>2 DEF Places, ContactsNamed
    <3>4. RequestOf(c, th).fields = <<n, t>>
      BY DEF RequestOf, MessageRequest, createPacket
    <3> HIDE DEF n, t
    <3> QED BY <3>1, <3>3, <3>4
  <2> QED BY <1>1, <2>3, <2>4, <2>5, ClientRequests
<1> QED BY <1>3, <1>4

(* A client names a chat after a nickname, and puts a message where its    *)
(* delivery says.                                                          *)
LEMMA ClientKeepsContacts ==
  ASSUME StreamInv, LoginInv, OriginInv, NEW c \in Conn, StartClient(c) \/ ClientStep(c),
         UNCHANGED serverVars, ~misplaced'[c]
  PROVE  /\ ContactsNamed(c)'
         /\ Intact => MessagesHaveOrigin(c)'
<1> DEFINE Result == ContactsNamed(c)' /\ (Intact => MessagesHaveOrigin(c)')
<1>1. /\ SystemInv /\ ClientTypeOK /\ ~misplaced[c] /\ ContactsNamed(c) /\ StreamFields(c)
      /\ Intact => DeliveriesHaveOrigin(c) /\ MessagesHaveOrigin(c)
      /\ contacts[c] \in Seq(Contact) /\ readBuffer[c] \in Seq(Cell)
      /\ contacts \in [Conn -> Seq(Contact)]
  BY StreamStep, ClientFacts DEF StreamInv, OriginInv, ClientTypeOK
<1>2. \A n, t : Origin(n, t) => Origin(n, t)'
  BY <1>1, ClientKeepsOrigin
<1>3. ASSUME contacts'[c] = contacts[c]
      PROVE  Result
  BY <1>1, <1>2, <1>3 DEF ContactsNamed, MessagesHaveOrigin
<1>4. ASSUME Extends(contacts[c], contacts'[c]),
             \A k \in DOMAIN contacts'[c] : \/ k \in DOMAIN contacts[c]
                                            \/ contacts'[c][k].nickname \in Name,
             NEW km \in Thread,
             Places(contacts'[c]) \subseteq Places(contacts[c]) \cup {km},
             \/ Places(contacts'[c]) = Places(contacts[c])
             \/ At(contacts'[c], km).sender
             \/ Intact => Origin(contacts'[c][km[1]].nickname, At(contacts'[c], km).text)
      PROVE  Result
  <2>1. ContactsNamed(c)'
    BY <1>1, <1>4 DEF ContactsNamed, Extends
  <2>2. ASSUME Intact, NEW x \in Places(contacts'[c]), ~At(contacts'[c], x).sender
        PROVE  Origin(contacts[c][x[1]].nickname, At(contacts[c], x).text)'
    <3>1. PICK n, t : n = contacts'[c][x[1]].nickname /\ t = At(contacts'[c], x).text
      OBVIOUS
    <3>2. ASSUME x \in Places(contacts[c]) PROVE Origin(n, t)
      <4>1. /\ At(contacts'[c], x).text = At(contacts[c], x).text
            /\ At(contacts'[c], x).sender = At(contacts[c], x).sender
            /\ contacts'[c][x[1]].nickname = contacts[c][x[1]].nickname
        BY <1>4, <3>2 DEF Extends, Places
      <4>2. Origin(contacts[c][x[1]].nickname, At(contacts[c], x).text)
        BY <1>1, <2>2, <3>2, <4>1 DEF MessagesHaveOrigin
      <4> QED BY <3>1, <4>1, <4>2
    <3>3. ASSUME x = km, x \notin Places(contacts[c]) PROVE Origin(n, t)
      BY <1>4, <2>2, <3>1, <3>3
    <3>4. Origin(n, t)
      BY <1>4, <2>2, <3>2, <3>3
    <3>5. Origin(n, t)'
      BY <1>2, <3>4
    <3> QED BY <3>1, <3>5 DEF Origin, At
  <2>3. Intact => MessagesHaveOrigin(c)'
    BY <2>2 DEF MessagesHaveOrigin, At, Places
  <2> QED BY <2>1, <2>3
<1> HIDE DEF Result
<1>5. <<0, 0>> \in Thread
  BY DEF Thread
<1>6. ASSUME NEW i \in Id, CreateChatAnswered(c, i) PROVE Result
  <2> DEFINE new == createContact(contacts[c], wanted[c])
  <2>1. wanted[c] \in Name /\ wanted[c] \in String
    BY <1>1 DEF ClientTypeOK, String
  <2>2. contacts'[c] = new \/ contacts'[c] = contacts[c]
    BY <1>1, <1>6 DEF CreateChatAnswered
  <2>3. Extends(contacts[c], new) /\ Places(new) = Places(contacts[c])
    BY <1>1, <2>1, ContactExtends
  <2>4. /\ new \in Seq(Contact) /\ Len(new) = Len(contacts[c]) + 1
        /\ new[Len(contacts[c]) + 1].nickname = wanted[c]
    <3>1. /\ new \in Seq(Contact) /\ Len(new) = Len(contacts[c]) + 1
          /\ new[Len(contacts[c]) + 1] = [nickname |-> wanted[c], messages |-> <<>>]
      BY <1>1, <2>1, AddContact
    <3> HIDE DEF new
    <3> QED BY <3>1
  <2> HIDE DEF new
  <2>5. \A k \in DOMAIN new : k \in DOMAIN contacts[c] \/ new[k].nickname \in Name
    BY <1>1, <2>1, <2>4
  <2> QED BY <1>3, <1>4, <1>5, <2>2, <2>3, <2>5
<1>7. ASSUME NEW k \in DOMAIN contacts[c], NEW t \in Text, sendMessage(c, k, t) PROVE Result
  <2> DEFINE km == <<k, Len(contacts[c][k].messages) + 1>>
  <2>1. /\ Extends(contacts[c], contacts'[c]) /\ km \in Thread
        /\ Places(contacts'[c]) = Places(contacts[c]) \cup {km}
        /\ At(contacts'[c], km) = [text |-> t, sender |-> TRUE, state |-> "PENDING"]
    BY <1>1, <1>7, UserMessage
  <2>2. \A j \in DOMAIN contacts'[c] : j \in DOMAIN contacts[c]
    <3>1. contacts'[c] = addMessage(contacts[c], k, t, TRUE, "PENDING")
      BY <1>1, <1>7 DEF sendMessage
    <3> QED BY <1>1, <3>1 DEF addMessage
  <2> HIDE DEF km
  <2>3. At(contacts'[c], km).sender
    BY <2>1
  <2> QED BY <1>4, <2>1, <2>2, <2>3
<1>8. ASSUME NEW i \in Id, MessageAnswered(c, i) PROVE Result
  <2>1. Extends(contacts[c], contacts'[c]) /\ Places(contacts'[c]) = Places(contacts[c])
    BY <1>1, <1>8, AnsweredMessage
  <2>2. DOMAIN contacts'[c] = DOMAIN contacts[c]
    <3>1. PICK th \in threads[c] :
            \/ \E status : contacts' = [contacts EXCEPT ![c][th[1]].messages[th[2]].state =
                                          stateOf(status)]
            \/ contacts' = contacts
      BY <1>8 DEF MessageAnswered
    <3> QED BY <1>1, <3>1
  <2> QED BY <1>4, <1>5, <2>1, <2>2
<1>9. ASSUME HandleDelivery(c) PROVE Result
  <2>1. /\ front(c) \in StreamPackets(c) /\ front(c).type = "DELIVERY"
        /\ front(c).fields = <<sender(c), text(c)>> /\ sender(c) \in Name
    BY <1>1, <1>9, DeliveryFields
  <2>2. Intact => Origin(sender(c), text(c))
    BY <1>1, <2>1 DEF DeliveriesHaveOrigin
  <2>3. contacts'[c] = handleNewMessage(c)
    BY <1>1, <1>9 DEF HandleDelivery
  <2>4. /\ Extends(contacts[c], contacts'[c])
        /\ newMessageStatus(c) # "OK" => Places(contacts'[c]) = Places(contacts[c])
        /\ newMessageStatus(c) = "OK" =>
             \E km \in Thread \ Places(contacts[c]) :
               /\ Places(contacts'[c]) = Places(contacts[c]) \cup {km}
               /\ At(contacts'[c], km) = [text |-> text(c), sender |-> FALSE,
                                          state |-> "SUCCESS"]
               /\ contacts'[c][km[1]].nickname = sender(c)
        /\ \A k \in DOMAIN contacts'[c] : \/ k \in DOMAIN contacts[c]
                                          \/ sender(c) # NULL /\ contacts'[c][k].nickname = sender(c)
    BY <1>1, <2>3, NewMessage
  <2>5. \A k \in DOMAIN contacts'[c] : \/ k \in DOMAIN contacts[c]
                                       \/ contacts'[c][k].nickname \in Name
    BY <2>1, <2>4
  <2>6. CASE newMessageStatus(c) # "OK"
    BY <1>4, <1>5, <2>4, <2>5, <2>6
  <2>7. CASE newMessageStatus(c) = "OK"
    <3>1. PICK km \in Thread \ Places(contacts[c]) :
               /\ Places(contacts'[c]) = Places(contacts[c]) \cup {km}
               /\ At(contacts'[c], km) = [text |-> text(c), sender |-> FALSE,
                                          state |-> "SUCCESS"]
               /\ contacts'[c][km[1]].nickname = sender(c)
      BY <2>4, <2>7
    <3>2. At(contacts'[c], km).text = text(c)
      BY <3>1
    <3>3. Intact => Origin(contacts'[c][km[1]].nickname, At(contacts'[c], km).text)
      BY <2>2, <3>1, <3>2
    <3> QED BY <1>4, <2>4, <2>5, <3>1, <3>3
  <2> QED BY <2>6, <2>7
<1>10. CASE contacts' = contacts
  BY <1>3, <1>10 DEF Result
<1> QED BY <1>6, <1>7, <1>8, <1>9, <1>10
        DEF Result, StartClient, ClientStep, UserStep, MainStep, ThreadStep,
            SocketStep, SendFails, Quit, End, Crash, logIn, createChat,
            LogInAnswered, SendRequest, Receive, ReceiveNothing, HandleRespond, DropRespond

(* A string the server reads from a buffer is a field of a packet the      *)
(* client has sent, wherever in the stream it stood.                       *)
LEMMA ReadField ==
  ASSUME IInv, pc \in {"process", "respond", "reply"}, NEW k \in Nat \ {0},
         field(k) # NULL
  PROVE  /\ k + 1 \in DOMAIN buffer[cursor] /\ k < Size(request)
         /\ Reqs(cursor)[k + 1] = buffer[cursor][k + 1] /\ k + 1 \in DOMAIN Reqs(cursor)
         /\ \E p \in ReqPackets(cursor) : \E i \in DOMAIN p.fields :
              /\ field(k) = p.fields[i]
              /\ Reqs(cursor)[k + 1].pkt = p /\ Reqs(cursor)[k + 1].part = i /\ i > 0
<1> DEFINE x == buffer[cursor][k + 1]
<1>1. cursor \in Conn /\ buffer[cursor] \in Seq(Cell) /\ Len(buffer[cursor]) \in Nat
  BY HandlerFacts
<1>2. /\ k < Size(request) /\ k < Len(buffer[cursor]) /\ x.part > 0
      /\ field(k) = x.pkt.fields[x.part]
  BY DEF field, readPacketString, request
<1>3. k + 1 \in DOMAIN buffer[cursor]
  BY <1>1, <1>2
<1>4. k + 1 \in DOMAIN Reqs(cursor) /\ Reqs(cursor)[k + 1] = x /\ x \in Cell
  BY <1>1, <1>3, ReqsType
<1>5. x.pkt \in ReqPackets(cursor)
  BY <1>4 DEF ReqPackets, PacketsIn
<1>6. x.part \in DOMAIN x.pkt.fields
  <2>1. x.pkt \in Packet /\ x.part \in 1 .. Len(x.pkt.fields)
    BY <1>2, <1>4, CellFacts
  <2>2. x.pkt.fields \in Seq(String)
    BY <2>1 DEF Packet
  <2> QED BY <2>1, <2>2
<1> QED BY <1>2, <1>3, <1>4, <1>5, <1>6

LEMMA ReplyHasNoFields ==
  ASSUME IInv, ServerNext, pc = "reply" => out.fields = <<>>, pc' = "reply"
  PROVE  out'.fields = <<>>
<1>1. ASSUME NEW status, Respond(status) PROVE out'.fields = <<>>
  BY <1>1 DEF Respond, createPacket
<1>2. ASSUME NEW delivered, Returns(delivered) PROVE out'.fields = <<>>
  BY <1>1, <1>2 DEF Returns
<1>3. CASE processLoginPacket
  BY <1>1, <1>3 DEF processLoginPacket
<1>4. CASE processCreateChatPacket
  BY <1>1, <1>4 DEF processCreateChatPacket
<1>5. CASE RefuseMessage
  BY <1>1, <1>5 DEF RefuseMessage
<1>6. CASE \E k \in 1 .. RespondSize : ReadRespond(k)
  BY <1>2, <1>6 DEF ReadRespond
<1>7. PICK no \in BOOLEAN : no = FALSE
  OBVIOUS
<1>8. CASE ReadPartOfRespond
  <2>1. CASE cycle + 1 < MaxCycles
    <3>1. pc' = pc /\ out' = out
      BY <1>8, <2>1 DEF ReadPartOfRespond
    <3> QED BY <3>1
  <2>2. CASE ~(cycle + 1 < MaxCycles)
    <3>1. Returns(FALSE)
      BY <1>8, <2>2 DEF ReadPartOfRespond
    <3>2. Returns(no)
      BY <1>7, <3>1
    <3> QED BY <1>2, <3>2
  <2> QED BY <2>1, <2>2
<1>9. CASE RespondFails
  <2>1. Returns(FALSE) \/ pc' = "undefined"
    BY <1>9 DEF RespondFails
  <2>2. Returns(no)
    BY <1>7, <2>1
  <2> QED BY <1>2, <2>2
<1>10. \A list, i, reads, bufs : GoRecv(list, i, reads, bufs) \/ GoProcess(list, i, bufs)
                                   => pc' # "reply"
  BY DEF GoRecv, GoProcess
<1>11. CASE SendDelivery \/ DeliveryFails \/ RespondNotSent \/ SendRespond
  BY <1>10, <1>11 DEF SendDelivery, DeliveryFails, RespondNotSent, Exit, SendRespond
<1>12. CASE waitForClients \/ Accept \/ AcceptFails \/ RecvFails
            \/ \E k \in 1 .. BufSize : Recv(k)
  BY <1>10, <1>12 DEF waitForClients, Accept, AcceptFails, RecvFails, Recv
<1> QED BY <1>3, <1>4, <1>5, <1>6, <1>8, <1>9, <1>11, <1>12 DEF ServerNext

(* What is delivered has the nickname of the client that sent it. *)
LEMMA DeliveryOrigin ==
  ASSUME SystemInv, LoginInv, SendDelivery, ~misplaced[cursor] => FieldsTyped(cursor)
  PROVE  /\ delivery.type = "DELIVERY" /\ delivery.fields = <<nickname[cursor], field(2)>>
         /\ nickname[cursor] \in Name /\ field(2) \in String /\ cursor \in Conn
         /\ ~misplaced[cursor] => Origin(nickname[cursor], field(2))
<1>1. /\ IInv /\ pc = "process" /\ request.command = "MESSAGE"
      /\ field(1) # NULL /\ field(2) # NULL
  BY DEF SystemInv, SendDelivery, Processing, unreadable
<1>2. /\ cursor \in Conn /\ cursor \in Node /\ field(2) \in String \cup {NULL}
      /\ request \in ReqPackets(cursor)
  BY <1>1, HandlerFacts, RequestAtFront
<1>3. 1 < Size(request)
  BY <1>1, ReadField
<1>4. request.fields # <<>>
  <2>1. Len(<<>>) = 0
    OBVIOUS
  <2> QED BY <1>3, <2>1 DEF Size
<1>5. typed[cursor] # {}
  BY <1>1, <1>2, <1>4 DEF LoginInv, LoginOK
<1>6. ~misplaced[cursor] => field(2) \in Name \cup typed[cursor]
  BY <1>1, ReadField DEF FieldsTyped
<1>7. ~misplaced[cursor] => Origin(nickname[cursor], field(2))
  BY <1>2, <1>5, <1>6 DEF Origin
<1> QED BY <1>1, <1>2, <1>7 DEF LoginInv, delivery, createPacket

LEMMA ServerKeepsOrigins ==
  ASSUME SystemInv, SystemInv', LoginInv, OriginInv, ServerStep
  PROVE  OriginInv'
<1>1. /\ IInv /\ IInv' /\ ServerNext
      /\ UNCHANGED <<contacts, typed, misplaced, readBuffer>>
  BY DEF SystemInv, ServerStep, clientVars
<1>2. pc' = "reply" => out'.fields = <<>>
  BY <1>1, ReplyHasNoFields DEF OriginInv
<1>3. \A n, t : Origin(n, t) => Origin(n, t)'
  BY ServerKeepsOrigin
<1>4. ASSUME NEW c \in Conn, ~misplaced'[c]
      PROVE  ContactsNamed(c)' /\ FieldsTyped(c)'
  <2>1. ContactsNamed(c) /\ FieldsTyped(c)
    BY <1>1, <1>4 DEF OriginInv
  <2>2. ReqPackets(c)' \subseteq ReqPackets(c)
    BY <1>1, ServerTakes
  <2> QED BY <1>1, <2>1, <2>2 DEF ContactsNamed, FieldsTyped
<1>5. ASSUME NEW c \in Conn, NEW p \in StreamPackets(c)'
      PROVE  /\ IF p.type = "DELIVERY" THEN \E n \in Name, t \in String : p.fields = <<n, t>>
                                       ELSE p.fields = <<>>
             /\ Intact /\ p.type = "DELIVERY" => Origin(p.fields[1], p.fields[2])
  <2>1. CASE p \in StreamPackets(c)
    BY <2>1 DEF OriginInv, StreamFields, DeliveriesHaveOrigin
  <2>2. CASE p \notin StreamPackets(c)
    <3>1. (SendDelivery /\ p = delivery) \/ (SendRespond /\ p = out)
      <4>1. PICK d \in Conn, q \in Packet :
              /\ (SendDelivery /\ q = delivery) \/ (SendRespond /\ q = out /\ d = cursor)
              /\ StreamPackets(d)' = StreamPackets(d) \cup {q}
              /\ \A x \in Conn \ {d} : StreamPackets(x)' = StreamPackets(x)
        BY <1>5, <2>2, ServerStreamPackets
      <4>2. p = q
        BY <1>5, <2>2, <4>1
      <4> QED BY <4>1, <4>2
    <3>2. CASE SendDelivery /\ p = delivery
      <4>1. cursor \in Conn
        BY <1>1, <3>2, HandlerFacts DEF SendDelivery, Processing
      <4>2. /\ p.type = "DELIVERY" /\ p.fields = <<nickname[cursor], field(2)>>
            /\ nickname[cursor] \in Name /\ field(2) \in String
            /\ ~misplaced[cursor] => Origin(nickname[cursor], field(2))
        BY <3>2, <4>1, DeliveryOrigin DEF OriginInv
      <4>3. p.fields[1] = nickname[cursor] /\ p.fields[2] = field(2)
        BY <4>2
      <4> QED BY <4>1, <4>2, <4>3 DEF Intact
    <3>3. CASE SendRespond /\ p = out
      BY <1>1, <3>3 DEF SendRespond, OriginInv, IInv, AnswersMatchRequests
    <3> QED BY <3>1, <3>2, <3>3
  <2> QED BY <2>1, <2>2
<1>6. \A c \in Conn : StreamFields(c)'
  BY <1>5 DEF StreamFields
<1>7. ASSUME Intact', NEW c \in Conn
      PROVE  DeliveriesHaveOrigin(c)' /\ MessagesHaveOrigin(c)'
  <2>1. Intact /\ MessagesHaveOrigin(c)
    BY <1>1, <1>7 DEF Intact, OriginInv
  <2>2. DeliveriesHaveOrigin(c)'
    BY <1>3, <1>5, <2>1 DEF DeliveriesHaveOrigin
  <2>3. ASSUME NEW x \in Places(contacts[c]), ~At(contacts[c], x).sender
        PROVE  Origin(contacts[c][x[1]].nickname, At(contacts[c], x).text)'
    <3>1. PICK n, t : n = contacts[c][x[1]].nickname /\ t = At(contacts[c], x).text
      OBVIOUS
    <3>2. Origin(n, t)'
      BY <1>3, <2>1, <2>3, <3>1 DEF MessagesHaveOrigin
    <3> QED BY <1>1, <3>1, <3>2 DEF Origin, At
  <2>4. MessagesHaveOrigin(c)'
    BY <1>1, <2>3 DEF MessagesHaveOrigin, At, Places
  <2> QED BY <2>2, <2>4
<1> QED BY <1>2, <1>4, <1>6, <1>7 DEF OriginInv

(* The steps of the other clients *)
LEMMA OthersKeepOrigins ==
  ASSUME StreamInv, OriginInv, NEW c \in Conn, StartClient(c) \/ ClientStep(c),
         UNCHANGED serverVars, NEW d \in Conn \ {c}
  PROVE  /\ StreamFields(d)'
         /\ ~misplaced'[d] => ContactsNamed(d)' /\ FieldsTyped(d)'
         /\ Intact => MessagesHaveOrigin(d)'
<1>1. SystemInv /\ SameClient(d) /\ SameSocket(d) /\ buffer' = buffer
  BY ClientFrame DEF StreamInv, serverVars, nodeVars
<1>2. ReqPackets(d)' = ReqPackets(d) /\ StreamPackets(d)' = StreamPackets(d)
  BY <1>1 DEF ReqPackets, StreamPackets, PacketsIn, Reqs, Stream, SameClient, SameSocket
<1>3. /\ contacts'[d] = contacts[d] /\ typed'[d] = typed[d] /\ misplaced'[d] = misplaced[d]
  BY <1>1 DEF SameClient
<1>4. StreamFields(d)'
  BY <1>2 DEF StreamFields, OriginInv
<1>5. ~misplaced'[d] => ContactsNamed(d)' /\ FieldsTyped(d)'
  BY <1>2, <1>3 DEF ContactsNamed, FieldsTyped, OriginInv
<1>6. ASSUME Intact, NEW x \in Places(contacts[d]), ~At(contacts[d], x).sender
      PROVE  Origin(contacts[d][x[1]].nickname, At(contacts[d], x).text)'
  <2>1. PICK n, t : n = contacts[d][x[1]].nickname /\ t = At(contacts[d], x).text
    OBVIOUS
  <2>2. Origin(n, t)
    BY <1>6, <2>1 DEF OriginInv, MessagesHaveOrigin
  <2>3. Origin(n, t)'
    BY <1>1, <2>2, ClientKeepsOrigin
  <2> QED BY <1>3, <2>1, <2>3 DEF Origin, At
<1>7. Intact => MessagesHaveOrigin(d)'
  BY <1>3, <1>6 DEF MessagesHaveOrigin, At, Places
<1> QED BY <1>4, <1>5, <1>7

LEMMA ClientsKeepOrigins ==
  ASSUME StreamInv, LoginInv, OriginInv, NEW c \in Conn, StartClient(c) \/ ClientStep(c),
         UNCHANGED serverVars
  PROVE  OriginInv'
<1>1. SystemInv
  BY DEF StreamInv
<1>2. pc' = pc /\ out' = out
  BY DEF serverVars, localVars
<1>3. \A n, t : Origin(n, t) => Origin(n, t)'
  BY <1>1, ClientKeepsOrigin
<1>4. ASSUME NEW d \in Conn PROVE StreamFields(d)'
  BY ClientKeepsFields, OthersKeepOrigins
<1>5. ASSUME NEW d \in Conn, ~misplaced'[d] PROVE ContactsNamed(d)' /\ FieldsTyped(d)'
  BY <1>5, ClientKeepsFields, ClientKeepsContacts, OthersKeepOrigins
<1>6. Intact' => Intact
  <2>1. ASSUME NEW d \in Conn, ~misplaced'[d] PROVE ~misplaced[d]
    <3>1. CASE d = c
      BY <1>1, <2>1, <3>1, StreamStep
    <3>2. CASE d # c
      BY <1>1, <2>1, <3>2, ClientFrame DEF SameClient
    <3> QED BY <3>1, <3>2
  <2> QED BY <2>1 DEF Intact
<1>7. ASSUME Intact', NEW d \in Conn
      PROVE  DeliveriesHaveOrigin(d)' /\ MessagesHaveOrigin(d)'
  <2>1. Intact /\ ~misplaced'[d] /\ DeliveriesHaveOrigin(d)
    BY <1>6, <1>7 DEF Intact, OriginInv
  <2>2. StreamPackets(d)' \subseteq StreamPackets(d)
    <3>1. CASE d = c
      BY <1>1, <3>1, ClientStreamPackets
    <3>2. CASE d # c
      <4>1. SameClient(d) /\ SameSocket(d)
        BY <1>1, <3>2, ClientFrame
      <4> QED BY <4>1 DEF StreamPackets, PacketsIn, Stream, SameClient, SameSocket
    <3> QED BY <3>1, <3>2
  <2>3. DeliveriesHaveOrigin(d)'
    BY <1>3, <2>1, <2>2 DEF DeliveriesHaveOrigin
  <2>4. MessagesHaveOrigin(d)'
    BY <2>1, ClientKeepsContacts, OthersKeepOrigins
  <2> QED BY <2>3, <2>4
<1> QED BY <1>2, <1>4, <1>5, <1>7 DEF OriginInv

LEMMA OriginInit == SystemInit => OriginInv
<1> SUFFICES ASSUME SystemInit
             PROVE  OriginInv
  OBVIOUS
<1> USE DEF SystemInit, ServerInit, ClientInit, NetInit
<1>1. /\ <<>> \o <<>> = <<>> /\ DOMAIN <<>> = {}
  OBVIOUS
<1>2. ASSUME NEW c \in Conn
      PROVE  /\ StreamFields(c) /\ ContactsNamed(c) /\ FieldsTyped(c)
             /\ DeliveriesHaveOrigin(c) /\ MessagesHaveOrigin(c)
  <2>1. /\ buffer[c] = <<>> /\ toServer[c] = <<>> /\ readBuffer[c] = <<>> /\ toClient[c] = <<>>
        /\ contacts[c] = <<>>
    BY DEF Node
  <2>2. ReqPackets(c) = {} /\ StreamPackets(c) = {}
    BY <1>1, <2>1 DEF ReqPackets, StreamPackets, PacketsIn, Reqs, Stream
  <2>3. Places(contacts[c]) = {}
    BY <1>1, <2>1 DEF Places
  <2> QED BY <1>1, <2>1, <2>2, <2>3
          DEF StreamFields, ContactsNamed, FieldsTyped, DeliveriesHaveOrigin, MessagesHaveOrigin
<1>3. pc # "reply"
  OBVIOUS
<1> QED BY <1>2, <1>3 DEF OriginInv

LEMMA OriginNext ==
  ASSUME StreamInv, SystemInv', LoginInv, OriginInv, [SystemNext]_systemVars
  PROVE  OriginInv'
<1>1. CASE ServerStep
  BY <1>1, ServerKeepsOrigins DEF StreamInv
<1>2. CASE ClientsStep
  BY <1>2, ClientsKeepOrigins DEF ClientsStep
<1>3. CASE UNCHANGED systemVars
  <2>1. UNCHANGED <<peer, backlog, toServer, toClient, clients, buffer, nickname, pc, out>>
    BY <1>3 DEF systemVars, vars, netVars, serverVars, nodeVars, localVars
  <2>2. UNCHANGED <<contacts, typed, readBuffer, misplaced>>
    BY <1>3 DEF systemVars, clientVars
  <2>3. ASSUME NEW c \in Conn
        PROVE  /\ ReqPackets(c)' = ReqPackets(c) /\ StreamPackets(c)' = StreamPackets(c)
               /\ ContactsNamed(c)' = ContactsNamed(c)
    BY <2>1, <2>2 DEF ReqPackets, StreamPackets, PacketsIn, Reqs, Stream, ContactsNamed
  <2>4. \A n, t : Origin(n, t)' = Origin(n, t)
    BY <2>1, <2>2 DEF Origin, Gone, Listed
  <2>5. Intact' = Intact
    BY <2>2 DEF Intact
  <2>6. ASSUME NEW c \in Conn
        PROVE  /\ StreamFields(c) => StreamFields(c)'
               /\ FieldsTyped(c) => FieldsTyped(c)'
               /\ DeliveriesHaveOrigin(c) => DeliveriesHaveOrigin(c)'
    BY <2>2, <2>3, <2>4 DEF StreamFields, FieldsTyped, DeliveriesHaveOrigin
  <2>7. ASSUME NEW c \in Conn, MessagesHaveOrigin(c)
        PROVE  MessagesHaveOrigin(c)'
    BY <2>1, <2>2, <2>7 DEF MessagesHaveOrigin, Origin, Gone, Listed, Places, At
  <2> QED BY <2>1, <2>2, <2>3, <2>5, <2>6, <2>7 DEF OriginInv
<1> QED BY <1>1, <1>2, <1>3 DEF SystemNext

(* Every delivery, and every message shown, has an origin, while the       *)
(* clients' buffers are intact; the nicknames of chats are nicknames, and  *)
(* what a client has sent are nicknames and texts he typed (sendMessage,   *)
(* processMessagePacket, handleNewMessage).                                *)
THEOREM OriginInvariance == SystemSpec => []OriginInv
<1>1. SystemInit => OriginInv
  BY OriginInit
<1>2. StreamInv /\ SystemInv' /\ LoginInv /\ OriginInv /\ [SystemNext]_systemVars => OriginInv'
  BY OriginNext
<1>3. SystemSpec => [](StreamInv /\ SystemInv /\ LoginInv)
  BY StreamInvariance, SystemInvariance, LoginInvariance, PTL
<1> QED BY <1>1, <1>2, <1>3, PTL DEF SystemSpec

-----------------------------------------------------------------------------
(* The messages shown *)

LEMMA MessagePlaces ==
  ASSUME SystemInv, NEW c \in Conn, NEW mine \in BOOLEAN, NEW km \in Messages(c, mine)
  PROVE  /\ km \in Places(contacts[c]) /\ At(contacts[c], km).sender = mine
         /\ MessageAt(c, km) = At(contacts[c], km)
<1>1. contacts[c] \in Seq(Contact)
  BY ClientFacts
<1>2. \E k \in DOMAIN contacts[c] :
        \E m \in {j \in DOMAIN contacts[c][k].messages :
                  contacts[c][k].messages[j].sender = mine} : km = <<k, m>>
  BY DEF Messages
<1> PICK k \in DOMAIN contacts[c] :
        \E m \in {j \in DOMAIN contacts[c][k].messages :
                  contacts[c][k].messages[j].sender = mine} : km = <<k, m>>
  BY <1>2
<1> PICK m \in {j \in DOMAIN contacts[c][k].messages :
                contacts[c][k].messages[j].sender = mine} : km = <<k, m>>
  OBVIOUS
<1>3. contacts[c][k].messages \in Seq(Message)
  <2>1. contacts[c][k] \in Contact
    BY <1>1
  <2> QED BY <2>1 DEF Contact
<1>4. k \in Nat /\ m \in Nat
  BY <1>1, <1>2, <1>3
<1> QED BY <1>4 DEF Places, Thread, At, MessageAt

(* SenderIsContact in every reachable state: a received message stands     *)
(* under the nickname of a client that sent it, or of one that has left.   *)
THEOREM SendersCorrect == SystemSpec => []SenderIsContact
<1>1. ASSUME SystemInv, OriginInv PROVE SenderIsContact
  <2> SUFFICES ASSUME Intact, NEW c \in Conn, NEW km \in Messages(c, FALSE)
               PROVE  \E d \in Conn :
                        /\ MessageAt(c, km).text \in typed[d] \cup Name
                        /\ \/ nickname[d] = contacts[c][km[1]].nickname
                           \/ d \notin Listed
    BY DEF SenderIsContact
  <2>1. PICK no \in BOOLEAN : no = FALSE
    OBVIOUS
  <2>2. /\ km \in Places(contacts[c]) /\ At(contacts[c], km).sender = no
        /\ MessageAt(c, km) = At(contacts[c], km)
    BY <1>1, <2>1, MessagePlaces
  <2>3. Origin(contacts[c][km[1]].nickname, At(contacts[c], km).text)
    BY <1>1, <2>1, <2>2 DEF OriginInv, MessagesHaveOrigin
  <2> QED BY <2>2, <2>3 DEF Origin, Gone
<1>2. SystemSpec => []SystemInv /\ []OriginInv
  BY SystemInvariance, OriginInvariance
<1> QED BY <1>1, <1>2, PTL

-----------------------------------------------------------------------------
(* A text is in one place: a message that waits to be sent, a field on its *)
(* way to the server or in the server's buffer, a field on its way to a    *)
(* client or in his buffer, or a message shown.                            *)

Holds(cell, t) == cell.part > 0 /\ cell.pkt.fields[cell.part] = t

Unsent(c, t) ==
  {th \in threads[c] : /\ At(contacts[c], th).text = t
                       /\ \A i \in Live(c) : pendingRequests[c][i].owner # th}

Requested(c, t) ==
  {j \in DOMAIN Reqs(c) : pc # "exited" /\ j > Spent(c) /\ Holds(Reqs(c)[j], t)}

Streamed(c, t) == {j \in DOMAIN Stream(c) : Holds(Stream(c)[j], t)}

Shown(c, t) ==
  {km \in Places(contacts[c]) : /\ ~At(contacts[c], km).sender
                                /\ At(contacts[c], km).text = t}

Kind == {"unsent", "requested", "streamed", "shown"}

Copies(k, c, t) == IF k = "unsent" THEN Unsent(c, t)
                   ELSE IF k = "requested" THEN Requested(c, t)
                   ELSE IF k = "streamed" THEN Streamed(c, t)
                   ELSE Shown(c, t)

OneCopy(t) ==
  \A c, d \in Conn : \A k, l \in Kind :
    \A x \in Copies(k, c, t), y \in Copies(l, d, t) : k = l /\ c = d /\ x = y

Typed(t) == \E d \in Conn : t \in typed[d]

CopyOK(t) ==
  /\ OneCopy(t)
  /\ \A c \in Conn : \A k \in Kind : Copies(k, c, t) # {} => Typed(t)

CopyInv == Intact => \A t \in Text : CopyOK(t)

(* A step that makes no copy *)
Keeps(new, old) ==
  /\ old = {} => new = {}
  /\ (\A x, y \in old : x = y) => (\A x, y \in new : x = y)

LEMMA CopiesKept ==
  ASSUME NEW t, CopyOK(t), Typed(t) => Typed(t)',
         \A c \in Conn : \A k \in Kind : Keeps(Copies(k, c, t)', Copies(k, c, t))
  PROVE  CopyOK(t)'
<1>1. ASSUME NEW c \in Conn, NEW d \in Conn, NEW k \in Kind, NEW l \in Kind,
             NEW x \in Copies(k, c, t)', NEW y \in Copies(l, d, t)'
      PROVE  k = l /\ c = d /\ x = y
  <2>1. PICK u \in Copies(k, c, t), v \in Copies(l, d, t) : TRUE
    BY <1>1 DEF Keeps
  <2>2. k = l /\ c = d
    BY <2>1 DEF CopyOK, OneCopy
  <2>3. \A a, b \in Copies(k, c, t) : a = b
    BY DEF CopyOK, OneCopy
  <2>4. \A a, b \in Copies(k, c, t)' : a = b
    BY <2>3 DEF Keeps
  <2> QED BY <2>2, <2>4
<1>2. OneCopy(t)'
  BY <1>1 DEF OneCopy
<1>3. ASSUME NEW c \in Conn, NEW k \in Kind, Copies(k, c, t)' # {}
      PROVE  Typed(t)'
  BY <1>3 DEF Keeps, CopyOK
<1> QED BY <1>2, <1>3 DEF CopyOK

(* A step after which all copies are in one place *)
LEMMA CopiesMoved ==
  ASSUME NEW t, Typed(t)', NEW c \in Conn, NEW k \in Kind,
         \A x, y \in Copies(k, c, t)' : x = y,
         \A d \in Conn : \A l \in Kind : d # c \/ l # k => Copies(l, d, t)' = {}
  PROVE  CopyOK(t)'
<1>1. OneCopy(t)'
  BY DEF OneCopy
<1> QED BY <1>1 DEF CopyOK

(* Where a text is, it is nowhere else. *)
LEMMA OnlyCopy ==
  ASSUME NEW t, CopyOK(t), NEW c \in Conn, NEW k \in Kind, NEW x \in Copies(k, c, t)
  PROVE  /\ Typed(t) /\ Copies(k, c, t) = {x}
         /\ \A d \in Conn : \A l \in Kind : d # c \/ l # k => Copies(l, d, t) = {}
BY DEF CopyOK, OneCopy

LEMMA KeptSame ==
  ASSUME NEW old, NEW new, new \subseteq old
  PROVE  Keeps(new, old)
BY DEF Keeps

(* Cells that keep their order, or are dropped, make no copy. *)
LEMMA KeptBy ==
  ASSUME NEW old, NEW new, NEW f, \A j \in new : f[j] \in old,
         \A i, j \in new : f[i] = f[j] => i = j
  PROVE  Keeps(new, old)
BY DEF Keeps

-----------------------------------------------------------------------------
(* The server makes no copy but the delivery, and is done with its request *)

LEMMA SpentRequest ==
  ASSUME IInv, IInv', ServerNext, NEW c \in Conn, NEW f,
         Shrinks(f, Reqs(c)', Reqs(c)),
         SendRespond /\ c = cursor => \A j \in DOMAIN Reqs(c)' : f[j] = j + Size(request),
         pc' # "exited", NEW j \in DOMAIN Reqs(c)', j > Spent(c)'
  PROVE  f[j] > Spent(c)
<1>1. Reqs(c) \in Seq(Cell) /\ Reqs(c)' \in Seq(Cell)
  <2>1. buffer'[c] \in Seq(Cell) /\ toServer'[c] \in Seq(Cell)
    BY DEF IInv, ServerTypeOK, NetTypeOK, Node
  <2> QED BY <2>1, ConcatFront, ReqsType DEF Reqs
<1>2. j \in Nat /\ j >= 1 /\ f[j] \in Nat /\ f[j] >= j
  <2> DEFINE new == Reqs(c)'
  <2>1. new \in Seq(Cell) /\ Shrinks(f, new, Reqs(c)) /\ j \in DOMAIN new
    BY <1>1
  <2> HIDE DEF new
  <2> QED BY <1>1, <2>1, ShrinkFacts
<1>3. CASE ~(pc \in {"respond", "reply"} /\ cursor = c)
  BY <1>2, <1>3 DEF Spent
<1>4. CASE pc \in {"respond", "reply"} /\ cursor = c
  <2>1. /\ Size(request) \in Nat /\ Size(request) >= 1 /\ Spent(c) = Size(request)
        /\ cursor \in Node /\ buffer \in [Node -> Seq(Cell)]
    BY <1>4, RequestAtFront, HandlerFacts DEF Spent, IInv, ServerTypeOK
  <2>2. ASSUME pc' \in {"respond", "reply"}, cursor' = cursor, buffer'[c] = buffer[c]
        PROVE  f[j] > Spent(c)
    <3>1. Spent(c)' = Spent(c)
      BY <1>4, <2>2 DEF Spent, request
    <3> QED BY <1>2, <2>1, <3>1
  <2>3. CASE \E k \in 1 .. RespondSize : ReadRespond(k)
    BY <2>2, <2>3 DEF ReadRespond, Returns, Respond, nodeVars
  <2>4. CASE ReadPartOfRespond
    <3>1. pc' \in {"respond", "reply"} /\ cursor' = cursor /\ buffer' = buffer
      BY <2>4 DEF ReadPartOfRespond, Returns, Respond, nodeVars
    <3> QED BY <2>2, <3>1
  <2>5. CASE RespondFails
    <3>1. deleteClient(recipient)
      BY <2>5 DEF RespondFails
    <3>2. CASE recipient = cursor
      <4>1. buffer'[c] = <<>> /\ toServer'[c] = <<>>
        BY <1>4, <2>1, <3>1, <3>2 DEF deleteClient, IInv, ServerTypeOK, NetTypeOK
      <4>2. Reqs(c)' = <<>> \o <<>>
        BY <4>1 DEF Reqs
      <4>3. DOMAIN (<<>> \o <<>>) = {}
        OBVIOUS
      <4> QED BY <4>2, <4>3
    <3>3. CASE recipient # cursor
      <4>1. pc' = "reply" /\ cursor' = cursor
        BY <2>5, <3>3 DEF RespondFails, Returns, Respond
      <4>2. buffer'[c] = buffer[c]
        BY <1>4, <2>1, <3>1, <3>3 DEF deleteClient
      <4> QED BY <2>2, <4>1, <4>2
    <3> QED BY <3>2, <3>3
  <2>6. CASE SendRespond
    BY <1>2, <1>4, <2>1, <2>6
  <2>7. CASE RespondNotSent
    BY <2>7 DEF RespondNotSent, Exit
  <2> QED BY <1>4, <2>3, <2>4, <2>5, <2>6, <2>7
          DEF ServerNext, waitForClients, Accept, AcceptFails, Recv, RecvFails,
              processLoginPacket, processCreateChatPacket, RefuseMessage, SendDelivery,
              DeliveryFails, Processing
<1> QED BY <1>3, <1>4

LEMMA RequestsKept ==
  ASSUME IInv, IInv', ServerNext, NEW c \in Conn, NEW t
  PROVE  Keeps(Requested(c, t)', Requested(c, t))
<1>1. PICK f : /\ Shrinks(f, Reqs(c)', Reqs(c))
               /\ SendRespond /\ c = cursor =>
                    \A j \in DOMAIN Reqs(c)' : f[j] = j + Size(request)
  BY ServerShrinks
<1>2. pc # "exited"
  BY DEF ServerNext, waitForClients, Accept, AcceptFails, Recv, RecvFails,
         processLoginPacket, processCreateChatPacket, RefuseMessage, SendDelivery,
         DeliveryFails, Processing, ReadRespond, ReadPartOfRespond, RespondFails,
         SendRespond, RespondNotSent
<1>3. Reqs(c) \in Seq(Cell) /\ Reqs(c)' \in Seq(Cell)
  <2>1. buffer'[c] \in Seq(Cell) /\ toServer'[c] \in Seq(Cell)
    BY DEF IInv, ServerTypeOK, NetTypeOK, Node
  <2> QED BY <2>1, ConcatFront, ReqsType DEF Reqs
<1>4. ASSUME NEW j \in Requested(c, t)' PROVE f[j] \in Requested(c, t)
  <2> DEFINE new == Reqs(c)'
  <2>1. j \in DOMAIN new /\ pc' # "exited" /\ j > Spent(c)' /\ Holds(new[j], t)
    BY <1>4 DEF Requested, Holds
  <2>2. f[j] > Spent(c)
    BY <1>1, <2>1, SpentRequest
  <2>3. new \in Seq(Cell) /\ Shrinks(f, new, Reqs(c))
    BY <1>1, <1>3
  <2> HIDE DEF new
  <2>4. /\ f[j] \in DOMAIN Reqs(c) /\ new[j].pkt = Reqs(c)[f[j]].pkt
        /\ new[j].part >= 0 => new[j].part = Reqs(c)[f[j]].part
    BY <1>3, <2>1, <2>3, ShrinkFacts
  <2>5. new[j].part \in Int
    BY <2>1, <2>3, CellFacts
  <2>6. Holds(Reqs(c)[f[j]], t)
    BY <2>1, <2>4, <2>5 DEF Holds
  <2> QED BY <1>2, <2>2, <2>4, <2>6 DEF Requested
<1>5. \A i, j \in Requested(c, t)' : f[i] = f[j] => i = j
  BY <1>1 DEF Requested, Shrinks
<1> DEFINE A == Requested(c, t)'
<1>6. (\A j \in A : f[j] \in Requested(c, t)) /\ (\A i, j \in A : f[i] = f[j] => i = j)
  BY <1>4, <1>5
<1> HIDE DEF A
<1>7. Keeps(A, Requested(c, t))
  BY <1>6, KeptBy
<1> QED BY <1>7 DEF A

LEMMA NamesAreNoTexts == Name \cap Text = {}
BY SystemAssumption, PacketsAssumption DEF Name

(* The copies in a stream that a packet follows *)
Followed(s, p) == s \o Cells(p)

LEMMA HoldsAppended ==
  ASSUME NEW s \in Seq(Cell), NEW p \in Packet, NEW t, NEW r, r = Followed(s, p)
  PROVE  \A j \in DOMAIN r : /\ j \notin DOMAIN s
                             /\ Holds(r[j], t)
                             => /\ j - Len(s) - 1 \in DOMAIN p.fields
                                /\ p.fields[j - Len(s) - 1] = t
<1>1. /\ r \in Seq(Cell) /\ Len(r) = Len(s) + Size(p)
      /\ \A j \in DOMAIN s : r[j] = s[j] /\ j \in DOMAIN r
      /\ \A j \in DOMAIN r :
           \/ j \in DOMAIN s
           \/ /\ j - Len(s) \in 1 .. Size(p)
              /\ r[j] = [pkt |-> p, part |-> j - Len(s) - 1]
  BY AppendedCells DEF Followed
<1>2. /\ Len(s) \in Nat /\ p.fields \in Seq(String) /\ Len(p.fields) \in Nat
      /\ Size(p) = Len(p.fields) + 1 /\ DOMAIN p.fields = 1 .. Len(p.fields)
  BY DEF Packet, Size
<1>3. DOMAIN r \subseteq Nat
  BY <1>1
<1>4. ASSUME NEW j \in DOMAIN r, j \notin DOMAIN s
      PROVE  /\ j > Len(s) /\ j - Len(s) - 1 \in 0 .. Len(p.fields)
             /\ Holds(r[j], t) => /\ j - Len(s) - 1 \in DOMAIN p.fields
                                  /\ p.fields[j - Len(s) - 1] = t
  <2> DEFINE i == j - Len(s) - 1
  <2>1. j \in Nat /\ j - Len(s) \in 1 .. Size(p) /\ r[j] = [pkt |-> p, part |-> i]
    BY <1>1, <1>3, <1>4
  <2>2. i \in 0 .. Len(p.fields) /\ j > Len(s)
    BY <1>2, <2>1
  <2> HIDE DEF i
  <2>3. Holds(r[j], t) => i > 0 /\ p.fields[i] = t
    BY <2>1 DEF Holds
  <2>4. i > 0 => i \in DOMAIN p.fields
    BY <1>2, <2>2
  <2> QED BY <2>2, <2>3, <2>4 DEF i
<1> QED BY <1>1, <1>4

Held(cells, t) == {j \in DOMAIN cells : Holds(cells[j], t)}

LEMMA HeldAppended ==
  ASSUME NEW s \in Seq(Cell), NEW p \in Packet, NEW t
  PROVE  \A j \in Held(Followed(s, p), t) :
           \/ j \in Held(s, t)
           \/ /\ j \in Nat /\ j - Len(s) - 1 \in DOMAIN p.fields
              /\ p.fields[j - Len(s) - 1] = t
<1> DEFINE r == Followed(s, p)
<1>1. DOMAIN r \subseteq Nat /\ \A j \in DOMAIN s : r[j] = s[j]
  BY AppendedCells DEF Followed
<1> HIDE DEF r
<1>2. r = Followed(s, p)
  BY DEF r
<1> SUFFICES ASSUME NEW j \in Held(r, t)
             PROVE  \/ j \in Held(s, t)
                    \/ /\ j \in Nat /\ j - Len(s) - 1 \in DOMAIN p.fields
                       /\ p.fields[j - Len(s) - 1] = t
  BY <1>2
<1>3. j \in DOMAIN r /\ Holds(r[j], t) /\ j \in Nat
  BY <1>1 DEF Held
<1>4. CASE j \in DOMAIN s
  BY <1>1, <1>3, <1>4 DEF Held
<1>5. CASE j \notin DOMAIN s
  <2>1. /\ j - Len(s) - 1 \in DOMAIN p.fields
        /\ p.fields[j - Len(s) - 1] = t
    BY <1>2, <1>3, <1>5, HoldsAppended
  <2> QED BY <1>3, <2>1
<1> QED BY <1>4, <1>5

(* A delivery takes the place of the request it is made from. *)
LEMMA ServerKeepsCopy ==
  ASSUME StreamInv, SystemInv', LoginInv, OriginInv, Intact, ServerStep,
         NEW t \in Text, CopyOK(t)
  PROVE  CopyOK(t)'
<1>1. /\ SystemInv /\ IInv /\ IInv' /\ ServerNext
      /\ UNCHANGED <<contacts, typed, threads, pendingRequests>>
  BY DEF StreamInv, SystemInv, ServerStep, clientVars
<1>2. \A c \in Conn : Unsent(c, t)' = Unsent(c, t) /\ Shown(c, t)' = Shown(c, t)
  BY <1>1 DEF Unsent, Shown, Live, At, Places
<1>3. Typed(t)' = Typed(t)
  BY <1>1 DEF Typed
<1>4. \A c \in Conn : Keeps(Requested(c, t)', Requested(c, t))
  BY <1>1, RequestsKept
<1>5. ASSUME \A c \in Conn : Streamed(c, t)' = Streamed(c, t)
      PROVE  CopyOK(t)'
  <2>1. ASSUME NEW c \in Conn, NEW k \in Kind
        PROVE  Keeps(Copies(k, c, t)', Copies(k, c, t))
    <3>1. CASE k = "requested"
      BY <1>4, <3>1 DEF Copies
    <3>2. CASE k # "requested"
      BY <1>2, <1>5, <3>2 DEF Copies, Keeps
    <3> QED BY <3>1, <3>2
  <2> QED BY <1>3, <2>1, CopiesKept
<1>6. ASSUME NEW c \in Conn, Stream(c)' = Stream(c)
      PROVE  Streamed(c, t)' = Streamed(c, t)
  BY <1>6 DEF Streamed
<1>7. ASSUME NEW d \in Conn, NEW p \in Packet, Stream(d)' = Stream(d) \o Cells(p)
      PROVE  \A j \in Streamed(d, t)' :
               \/ j \in Streamed(d, t)
               \/ j - Len(Stream(d)) - 1 \in DOMAIN p.fields /\ j \in Nat
                  /\ p.fields[j - Len(Stream(d)) - 1] = t
  <2>1. Stream(d) \in Seq(Cell) /\ Stream(d)' = Followed(Stream(d), p)
    BY <1>1, <1>7, StreamType DEF Followed
  <2>2. /\ Streamed(d, t)' = Held(Followed(Stream(d), p), t)
        /\ Streamed(d, t) = Held(Stream(d), t)
    BY <2>1 DEF Streamed, Held, Holds
  <2>3. \A j \in Held(Followed(Stream(d), p), t) :
               \/ j \in Held(Stream(d), t)
               \/ /\ j \in Nat /\ j - Len(Stream(d)) - 1 \in DOMAIN p.fields
                  /\ p.fields[j - Len(Stream(d)) - 1] = t
    BY <2>1, HeldAppended
  <2> QED BY <2>2, <2>3
<1>8. CASE \A c \in Conn : Stream(c)' = Stream(c)
  BY <1>5, <1>6, <1>8
<1>9. ASSUME NEW d \in Conn, NEW p \in Packet,
             (SendDelivery /\ p = delivery) \/ (SendRespond /\ p = out /\ d = cursor),
             Stream(d)' = Stream(d) \o Cells(p),
             \A c \in Conn \ {d} : Stream(c)' = Stream(c)
      PROVE  CopyOK(t)'
  <2> DEFINE at == Len(Stream(d)) + 1
  <2>1. Len(Stream(d)) \in Nat
    BY <1>1, StreamType
  <2>2. CASE SendRespond /\ p = out
    <3>1. p.fields = <<>>
      BY <2>2 DEF OriginInv, SendRespond
    <3>2. DOMAIN <<>> = {}
      OBVIOUS
    <3>3. Streamed(d, t)' \subseteq Streamed(d, t)
      BY <1>7, <1>9, <3>1, <3>2
    <3>4. ASSUME NEW c \in Conn, NEW k \in Kind
          PROVE  Keeps(Copies(k, c, t)', Copies(k, c, t))
      <4>1. CASE k = "requested"
        BY <1>4, <4>1 DEF Copies
      <4>2. CASE k = "streamed"
        BY <1>6, <1>9, <3>3, <4>2 DEF Copies, Keeps
      <4>3. CASE k \notin {"requested", "streamed"}
        BY <1>2, <4>3 DEF Copies, Keeps
      <4> QED BY <4>1, <4>2, <4>3
    <3> QED BY <1>3, <3>4, CopiesKept
  <2>3. CASE SendDelivery /\ p = delivery
    <3>1. /\ pc = "process" /\ field(1) # NULL /\ field(2) # NULL
          /\ pc' = "respond" /\ UNCHANGED <<buffer, toServer, cursor>>
      BY <2>3 DEF SendDelivery, Processing, unreadable, nodeVars
    <3>2. /\ cursor \in Conn /\ Size(request) \in Nat
          /\ ~misplaced[cursor]
      BY <1>1, <3>1, RequestAtFront DEF Intact
    <3>3. /\ p.fields = <<nickname[cursor], field(2)>> /\ nickname[cursor] \in Name
      BY <1>1, <2>3, <3>2, DeliveryOrigin DEF OriginInv
    <3>4. nickname[cursor] # t /\ DOMAIN p.fields = 1 .. 2
          /\ p.fields[1] = nickname[cursor] /\ p.fields[2] = field(2)
      BY <3>3, NamesAreNoTexts
    <3>5. \A j \in Streamed(d, t)' :
            j \in Streamed(d, t) \/ (j = at + 2 /\ field(2) = t)
      <4>1. \A j \in Streamed(d, t)' :
               \/ j \in Streamed(d, t)
               \/ /\ j - Len(Stream(d)) - 1 \in 1 .. 2 /\ j \in Nat
                  /\ p.fields[j - Len(Stream(d)) - 1] = t
        BY <1>7, <1>9, <3>4
      <4> QED BY <2>1, <3>4, <4>1
    <3>6. CASE field(2) # t
      <4>1. Streamed(d, t)' \subseteq Streamed(d, t)
        BY <3>5, <3>6
      <4>2. ASSUME NEW c \in Conn, NEW k \in Kind
            PROVE  Keeps(Copies(k, c, t)', Copies(k, c, t))
        <5>1. CASE k = "requested"
          BY <1>4, <5>1 DEF Copies
        <5>2. CASE k = "streamed"
          BY <1>6, <1>9, <4>1, <5>2 DEF Copies, Keeps
        <5>3. CASE k \notin {"requested", "streamed"}
          BY <1>2, <5>3 DEF Copies, Keeps
        <5> QED BY <5>1, <5>2, <5>3
      <4> QED BY <1>3, <4>2, CopiesKept
    <3>7. CASE field(2) = t
      <4>1. /\ 3 \in DOMAIN Reqs(cursor) /\ 2 < Size(request)
            /\ Holds(Reqs(cursor)[3], t)
        <5>1. /\ 2 + 1 \in DOMAIN Reqs(cursor) /\ 2 < Size(request)
              /\ \E q \in ReqPackets(cursor) : \E i \in DOMAIN q.fields :
                   /\ field(2) = q.fields[i]
                   /\ Reqs(cursor)[2 + 1].pkt = q /\ Reqs(cursor)[2 + 1].part = i /\ i > 0
          BY <1>1, <3>1, ReadField
        <5>2. 2 + 1 = 3
          OBVIOUS
        <5> QED BY <3>7, <5>1, <5>2 DEF Holds
      <4>2. Spent(cursor) = 0 /\ 3 \in Requested(cursor, t)
        BY <3>1, <4>1 DEF Spent, Requested
      <4>3. 3 \in Copies("requested", cursor, t) /\ "requested" \in Kind
        BY <4>2 DEF Copies, Kind
      <4>4. /\ Typed(t) /\ Copies("requested", cursor, t) = {3}
            /\ \A c \in Conn : \A l \in Kind : c # cursor \/ l # "requested"
                                                 => Copies(l, c, t) = {}
        BY <3>2, <4>3, OnlyCopy
      <4>5. \A c \in Conn : /\ Unsent(c, t) = {} /\ Shown(c, t) = {} /\ Streamed(c, t) = {}
                            /\ c # cursor => Requested(c, t) = {}
        BY <4>4 DEF Copies, Kind
      <4>6. PICK a \in Conn : a = cursor
        BY <3>2
      <4>7. Requested(a, t)' = {}
        <5>1. Reqs(a)' = Reqs(a) /\ Spent(a)' = Size(request)
          BY <3>1, <4>6 DEF Reqs, Spent, request
        <5>2. Requested(a, t) = {3}
          BY <4>4, <4>6 DEF Copies
        <5>3. \A j \in Requested(a, t)' : j \in Requested(a, t) /\ j > Size(request)
          <6> SUFFICES ASSUME NEW j \in Requested(a, t)'
                       PROVE  j \in Requested(a, t) /\ j > Size(request)
            OBVIOUS
          <6>1. j \in DOMAIN Reqs(a) /\ j > Size(request) /\ Holds(Reqs(a)[j], t)
            BY <3>1, <5>1 DEF Requested, Holds
          <6>2. Reqs(a) \in Seq(Cell)
            BY <1>1, ReqsType
          <6>3. j \in Nat /\ j > 0
            BY <6>1, <6>2
          <6> QED BY <3>1, <4>2, <4>6, <6>1, <6>3 DEF Requested
        <5> QED BY <3>2, <4>1, <5>2, <5>3
      <4>8. ASSUME NEW c \in Conn PROVE Requested(c, t)' = {}
        <5>1. CASE c # cursor
          <6>1. Keeps(Requested(c, t)', Requested(c, t)) /\ Requested(c, t) = {}
            BY <1>4, <4>5, <5>1
          <6> QED BY <6>1 DEF Keeps
        <5> QED BY <4>6, <4>7, <5>1
      <4>9. \A c \in Conn : c # d => Streamed(c, t)' = {}
        BY <1>6, <1>9, <4>5
      <4>10. \A x, y \in Streamed(d, t)' : x = y
        BY <3>5, <4>5
      <4>11. \A c \in Conn : \A l \in Kind : c # d \/ l # "streamed" => Copies(l, c, t)' = {}
        BY <1>2, <4>5, <4>8, <4>9 DEF Copies, Kind
      <4>12. \A x, y \in Copies("streamed", d, t)' : x = y
        BY <4>10 DEF Copies
      <4> QED BY <1>3, <4>4, <4>11, <4>12, CopiesMoved DEF Kind
    <3> QED BY <3>6, <3>7
  <2> QED BY <1>9, <2>2, <2>3
<1> QED BY <1>1, <1>8, <1>9, ServerStream

-----------------------------------------------------------------------------
(* The copies of the client that takes a step *)

LEMMA OtherCopies ==
  ASSUME SystemInv, NEW c \in Conn, StartClient(c) \/ ClientStep(c), UNCHANGED serverVars,
         NEW d \in Conn \ {c}, NEW t, NEW k \in Kind
  PROVE  Copies(k, d, t)' = Copies(k, d, t)
<1>1. SameClient(d) /\ SameSocket(d)
  BY ClientFrame
<1>2. UNCHANGED <<buffer, pc, cursor>>
  BY DEF serverVars, nodeVars, localVars
<1>3. Unsent(d, t)' = Unsent(d, t) /\ Shown(d, t)' = Shown(d, t)
  BY <1>1 DEF SameClient, Unsent, Shown, At, Live, Places
<1>4. Streamed(d, t)' = Streamed(d, t)
  BY <1>1 DEF SameClient, SameSocket, Streamed, Stream
<1>5. Requested(d, t)' = Requested(d, t)
  BY <1>1, <1>2 DEF SameSocket, Requested, Reqs, Spent, request
<1> QED BY <1>3, <1>4, <1>5 DEF Copies

(* What follows a packet in the stream has the same copies when the packet *)
(* is cleared.                                                             *)
LEMMA DroppedCopies ==
  ASSUME SystemInv, NEW c \in Conn, NEW n \in 0 .. Len(Stream(c)), NEW t,
         Stream(c)' = Drop(Stream(c), n)
  PROVE  \A j \in Streamed(c, t)' : j \in Nat \ {0} /\ j + n \in Streamed(c, t)
<1> DEFINE s == Stream(c)
           r == Drop(s, n)
<1>1. s \in Seq(Cell) /\ Len(s) \in Nat
  BY StreamType
<1>2. /\ r \in Seq(Cell) /\ Len(r) = Len(s) - n
      /\ \A i \in 1 .. Len(s) - n : r[i] = s[n + i]
  <2>1. n \in 0 .. Len(s)
    OBVIOUS
  <2> HIDE DEF s
  <2> QED BY <1>1, <2>1, DropCells
<1>3. Streamed(c, t)' = {j \in DOMAIN r : Holds(r[j], t)}
  BY DEF Streamed, Holds
<1>4. Streamed(c, t) = {j \in DOMAIN s : Holds(s[j], t)}
  BY DEF Streamed
<1> HIDE DEF s, r
<1>5. DOMAIN r = 1 .. Len(s) - n /\ DOMAIN s = 1 .. Len(s)
  BY <1>1, <1>2
<1>6. ASSUME NEW j \in 1 .. Len(s) - n
      PROVE  n + j = j + n /\ j + n \in DOMAIN s /\ j \in Nat \ {0}
  BY <1>1, <1>5
<1> QED BY <1>2, <1>3, <1>4, <1>5, <1>6

LEMMA ClientStreamed ==
  ASSUME SystemInv, NEW c \in Conn, StartClient(c) \/ ClientStep(c), ~misplaced'[c], NEW t
  PROVE  Keeps(Streamed(c, t)', Streamed(c, t))
<1>1. CASE Stream(c)' = Stream(c)
  BY <1>1 DEF Streamed, Keeps
<1>2. CASE Stream(c)' = <<>>
  <2>1. DOMAIN <<>> = {}
    OBVIOUS
  <2>2. Streamed(c, t)' = {}
    BY <1>2, <2>1 DEF Streamed
  <2> QED BY <2>2 DEF Keeps
<1>3. CASE /\ Size(front(c)) \in 1 .. Len(readBuffer[c])
           /\ Stream(c)' = Drop(Stream(c), Size(front(c)))
  <2>1. PICK n : n = Size(front(c))
    OBVIOUS
  <2>2. /\ readBuffer[c] \in Seq(Cell) /\ Len(readBuffer[c]) <= Len(Stream(c))
        /\ Stream(c) \in Seq(Cell)
    BY ClientFacts, StreamType
  <2>3. n \in 0 .. Len(Stream(c))
    BY <1>3, <2>1, <2>2
  <2>4. \A j \in Streamed(c, t)' : j \in Nat \ {0} /\ j + n \in Streamed(c, t)
    BY <1>3, <2>1, <2>3, DroppedCopies
  <2> DEFINE A == Streamed(c, t)'
             f == [j \in A |-> j + n]
  <2>5. (\A j \in A : f[j] \in Streamed(c, t)) /\ (\A i, j \in A : f[i] = f[j] => i = j)
    BY <2>3, <2>4
  <2> HIDE DEF A, f
  <2>6. Keeps(A, Streamed(c, t))
    BY <2>5, KeptBy
  <2> QED BY <2>6 DEF A
<1> QED BY <1>1, <1>2, <1>3, StreamStep

LEMMA ClientRequested ==
  ASSUME SystemInv, OriginInv, Intact, NEW c \in Conn, StartClient(c) \/ ClientStep(c),
         UNCHANGED serverVars, NEW t \in Text
  PROVE  \/ Requested(c, t)' \subseteq Requested(c, t)
         \/ \E th \in threads[c] :
              /\ SendRequest(c, th) /\ At(contacts[c], th).text = t
              /\ Requested(c, t)' \subseteq Requested(c, t) \cup {Len(Reqs(c)) + 3}
<1>1. UNCHANGED <<buffer, pc, cursor>> /\ IInv /\ Spent(c)' = Spent(c)
  BY DEF serverVars, nodeVars, localVars, SystemInv, Spent, request
<1>2. CASE Reqs(c)' = Reqs(c)
  <2>1. Requested(c, t)' = Requested(c, t)
    BY <1>1, <1>2 DEF Requested
  <2> QED BY <2>1
<1>3. ASSUME NEW p \in Packet, Reqs(c)' = Reqs(c) \o Cells(p)
      PROVE  \A j \in Requested(c, t)' :
               \/ j \in Requested(c, t)
               \/ /\ j \in Nat /\ j - Len(Reqs(c)) - 1 \in DOMAIN p.fields
                  /\ p.fields[j - Len(Reqs(c)) - 1] = t
  <2>1. Reqs(c) \in Seq(Cell) /\ Reqs(c)' = Followed(Reqs(c), p)
    BY <1>1, <1>3, ReqsType DEF Followed
  <2>2. /\ Requested(c, t)' \subseteq Held(Followed(Reqs(c), p), t)
        /\ \A j \in Requested(c, t)' : pc # "exited" /\ j > Spent(c)
        /\ \A j \in Held(Reqs(c), t) : pc # "exited" /\ j > Spent(c) => j \in Requested(c, t)
    BY <1>1, <2>1 DEF Requested, Held, Holds
  <2>3. \A j \in Held(Followed(Reqs(c), p), t) :
               \/ j \in Held(Reqs(c), t)
               \/ /\ j \in Nat /\ j - Len(Reqs(c)) - 1 \in DOMAIN p.fields
                  /\ p.fields[j - Len(Reqs(c)) - 1] = t
    BY <2>1, HeldAppended
  <2> QED BY <2>2, <2>3
<1>4. ASSUME NEW p \in ClientPackets, Reqs(c)' = Reqs(c) \o Cells(p),
             \A i \in DOMAIN p.fields : p.fields[i] \in Name
      PROVE  Requested(c, t)' \subseteq Requested(c, t)
  BY <1>3, <1>4, NamesAreNoTexts, ClientPacketFacts
<1>5. ASSUME NEW th \in threads[c], Reqs(c)' = Reqs(c) \o Cells(RequestOf(c, th)),
             RequestOf(c, th) \in ClientPackets
      PROVE  \/ Requested(c, t)' \subseteq Requested(c, t)
             \/ /\ At(contacts[c], th).text = t
                /\ Requested(c, t)' \subseteq Requested(c, t) \cup {Len(Reqs(c)) + 3}
  <2> DEFINE p == RequestOf(c, th)
             n == contacts[c][th[1]].nickname
             u == At(contacts[c], th).text
  <2>1. p.fields = <<n, u>>
    BY DEF RequestOf, MessageRequest, createPacket
  <2>2. n \in Name
    <3>1. th \in Places(contacts[c])
      BY ClientFacts
    <3> QED BY <3>1 DEF OriginInv, Intact, ContactsNamed, Places
  <2>3. \A j \in Requested(c, t)' :
               \/ j \in Requested(c, t)
               \/ /\ j \in Nat /\ j - Len(Reqs(c)) - 1 \in DOMAIN p.fields
                  /\ p.fields[j - Len(Reqs(c)) - 1] = t
    BY <1>3, <1>5, ClientPacketFacts
  <2>4. Len(Reqs(c)) \in Nat
    BY <1>1, ReqsType
  <2> HIDE DEF p, n, u
  <2>5. /\ DOMAIN p.fields = 1 .. 2 /\ p.fields[1] # t
        /\ p.fields[2] = u
    BY <2>1, <2>2, NamesAreNoTexts
  <2>6. \A j \in Requested(c, t)' : \/ j \in Requested(c, t)
                                    \/ j = Len(Reqs(c)) + 3 /\ u = t
    BY <2>3, <2>4, <2>5
  <2> QED BY <2>6 DEF u
<1> QED BY <1>2, <1>4, <1>5, ClientRequests

-----------------------------------------------------------------------------
(* The messages of a client that wait to be sent, and those he shows *)

LEMMA ContactsGrow ==
  ASSUME SystemInv, NEW c \in Conn, StartClient(c) \/ ClientStep(c)
  PROVE  /\ Extends(contacts[c], contacts'[c])
         /\ \/ Places(contacts'[c]) = Places(contacts[c])
            \/ \E k \in DOMAIN contacts[c], t \in Text : sendMessage(c, k, t)
            \/ HandleDelivery(c)
<1> DEFINE Result == /\ Extends(contacts[c], contacts'[c])
                     /\ Places(contacts'[c]) = Places(contacts[c])
<1>1. /\ ClientTypeOK /\ contacts[c] \in Seq(Contact) /\ readBuffer[c] \in Seq(Cell)
      /\ contacts \in [Conn -> Seq(Contact)]
  BY ClientFacts DEF ClientTypeOK
<1>2. ASSUME contacts'[c] = contacts[c] PROVE Result
  BY <1>2 DEF Extends
<1>3. ASSUME NEW i \in Id, CreateChatAnswered(c, i) PROVE Result
  <2>1. wanted[c] \in String
    BY <1>1 DEF ClientTypeOK, String
  <2>2. \/ contacts'[c] = createContact(contacts[c], wanted[c])
        \/ contacts'[c] = contacts[c]
    BY <1>1, <1>3 DEF CreateChatAnswered
  <2> QED BY <1>1, <1>2, <2>1, <2>2, ContactExtends
<1>4. ASSUME NEW k \in DOMAIN contacts[c], NEW t \in Text, sendMessage(c, k, t)
      PROVE  Extends(contacts[c], contacts'[c])
  BY <1>4, UserMessage
<1>5. ASSUME NEW i \in Id, MessageAnswered(c, i) PROVE Result
  BY <1>5, AnsweredMessage
<1>6. ASSUME HandleDelivery(c) PROVE Extends(contacts[c], contacts'[c])
  <2>1. contacts'[c] = handleNewMessage(c)
    BY <1>1, <1>6 DEF HandleDelivery
  <2> QED BY <1>1, <2>1, NewMessage
<1>7. ASSUME contacts' = contacts PROVE Result
  BY <1>2, <1>7
<1> HIDE DEF Result
<1>8. \/ Result
      \/ \E k \in DOMAIN contacts[c], t \in Text : sendMessage(c, k, t)
      \/ HandleDelivery(c)
  BY <1>3, <1>5, <1>7
        DEF StartClient, ClientStep, UserStep, MainStep, ThreadStep,
            SocketStep, SendFails, Quit, End, Crash, logIn, createChat,
            LogInAnswered, SendRequest, Receive, ReceiveNothing, HandleRespond, DropRespond
<1> QED BY <1>4, <1>6, <1>8 DEF Result

(* Who waits for a respond *)
Owned(c) == {pendingRequests[c][i].owner : i \in Live(c)}

LEMMA UnsentFrom ==
  ASSUME SystemInv, NEW c \in Conn, StartClient(c) \/ ClientStep(c), NEW t,
         NEW new, threads'[c] \subseteq threads[c] \cup new,
         \A th \in threads'[c] \cap threads[c] : th \in Owned(c) => th \in Owned(c)'
  PROVE  Unsent(c, t)' \subseteq Unsent(c, t) \cup new
<1> SUFFICES ASSUME NEW th \in Unsent(c, t)', th \notin new
             PROVE  th \in Unsent(c, t)
  OBVIOUS
<1>1. /\ th \in threads'[c] \cap threads[c] /\ At(contacts'[c], th).text = t
      /\ th \notin Owned(c)'
  BY DEF Unsent, Owned, At
<1>2. th \in Places(contacts[c]) /\ Extends(contacts[c], contacts'[c])
  BY <1>1, ContactsGrow, ClientFacts
<1>3. At(contacts[c], th).text = t
  BY <1>1, <1>2 DEF Extends
<1> QED BY <1>1, <1>3 DEF Unsent, Owned

LEMMA CreatedOwner ==
  ASSUME ClientTypeOK, NEW c \in Conn, HasFreeRequest(c), NEW owner \in Thread,
         createRequest(c, owner)
  PROVE  Owned(c) \cup {owner} \subseteq Owned(c)'
<1> DEFINE r == [owner |-> owner, data |-> NULL, event |-> FALSE]
<1>1. r \in PendingRequest /\ r.owner = owner
  BY DEF PendingRequest
<1>2. FreeRequest(c) \in Id /\ pendingRequests[c][FreeRequest(c)] = NULL
  BY FreeSlot
<1>3. r # NULL
  BY <1>1, SystemAssumption
<1> HIDE DEF r
<1>4. \A i \in Id : pendingRequests'[c][i] = IF i = FreeRequest(c) THEN r
                                             ELSE pendingRequests[c][i]
  BY <1>2 DEF createRequest, ClientTypeOK, r
<1>5. owner \in Owned(c)'
  BY <1>1, <1>2, <1>3, <1>4 DEF Owned, Live
<1>6. \A i \in Live(c) : i \in Live(c)' /\ pendingRequests'[c][i] = pendingRequests[c][i]
  BY <1>2, <1>4 DEF Live
<1> QED BY <1>5, <1>6 DEF Owned

LEMMA DeletedOwner ==
  ASSUME ClientTypeOK, NEW c \in Conn, NEW i \in Id, deleteRequest(c, i)
  PROVE  \A th \in Owned(c) : th = pendingRequests[c][i].owner \/ th \in Owned(c)'
<1>1. \A j \in Id \ {i} : pendingRequests'[c][j] = pendingRequests[c][j]
  BY DEF deleteRequest, ClientTypeOK
<1>2. \A j \in Live(c) \ {i} : j \in Live(c)' /\ pendingRequests'[c][j] = pendingRequests[c][j]
  BY <1>1 DEF Live
<1> QED BY <1>2 DEF Owned

(* Writing to a request, or setting its event, leaves it its owner. *)
LEMMA SameOwners ==
  ASSUME ClientTypeOK, NEW c \in Conn, NEW i \in Live(c), NEW r \in PendingRequest,
         pendingRequests' = [pendingRequests EXCEPT ![c] = [pendingRequests[c] EXCEPT ![i] = r]],
         r.owner = pendingRequests[c][i].owner
  PROVE  Owned(c) \subseteq Owned(c)'
<1>1. r # NULL
  BY SystemAssumption
<1>2. \A j \in Id : pendingRequests'[c][j] = IF j = i THEN r ELSE pendingRequests[c][j]
  BY DEF ClientTypeOK, Live
<1>3. \A j \in Live(c) : /\ j \in Live(c)'
                         /\ pendingRequests'[c][j].owner = pendingRequests[c][j].owner
  BY <1>1, <1>2 DEF Live
<1> QED BY <1>3 DEF Owned

LEMMA ClientUnsent ==
  ASSUME SystemInv, NEW c \in Conn, StartClient(c) \/ ClientStep(c), NEW t
  PROVE  \/ Unsent(c, t)' \subseteq Unsent(c, t)
         \/ \E k \in DOMAIN contacts[c] : \E u \in Text :
              /\ sendMessage(c, k, u)
              /\ Unsent(c, t)' \subseteq
                   Unsent(c, t) \cup {<<k, Len(contacts[c][k].messages) + 1>>}
              /\ u # t => Unsent(c, t)' \subseteq Unsent(c, t)
<1> DEFINE Result == Unsent(c, t)' \subseteq Unsent(c, t)
<1>1. /\ ClientTypeOK /\ contacts[c] \in Seq(Contact) /\ readBuffer[c] \in Seq(Cell)
      /\ threads[c] \subseteq Places(contacts[c]) /\ threads[c] \subseteq Thread
      /\ MAIN \in Thread
  BY ClientFacts DEF MAIN, Thread
<1>2. ASSUME threads'[c] \subseteq threads[c],
             \A th \in threads'[c] : th \in Owned(c) => th \in Owned(c)'
      PROVE  Result
  <2>1. threads'[c] \subseteq threads[c] \cup {}
    BY <1>2
  <2>2. Unsent(c, t)' \subseteq Unsent(c, t) \cup {}
    BY <1>2, <2>1, UnsentFrom
  <2> QED BY <2>2
<1>3. ASSUME UNCHANGED threads, UNCHANGED pendingRequests PROVE Result
  <2>1. Owned(c)' = Owned(c)
    BY <1>3 DEF Owned, Live
  <2> QED BY <1>2, <1>3, <2>1
<1>4. MAIN \notin threads[c]
  <2>1. MAIN \notin Places(contacts[c])
    BY <1>1 DEF Places, MAIN
  <2> QED BY <1>1, <2>1
<1>5. ASSUME End(c) PROVE Result
  <2>1. threads'[c] = {}
    BY <1>1, <1>5 DEF End, ClientTypeOK
  <2> QED BY <1>2, <2>1
<1>6. ASSUME NEW n, logIn(c, n) \/ createChat(c, n) PROVE Result
  <2>1. HasFreeRequest(c) /\ createRequest(c, MAIN) /\ UNCHANGED threads
    BY <1>6 DEF logIn, createChat
  <2> QED BY <1>1, <1>2, <2>1, CreatedOwner
<1>7. ASSUME NEW i \in Id, LogInAnswered(c, i) \/ CreateChatAnswered(c, i) PROVE Result
  <2>1. \/ End(c)
        \/ deleteRequest(c, i) /\ Answered(c, i, MAIN) /\ UNCHANGED threads
    BY <1>7 DEF LogInAnswered, CreateChatAnswered
  <2>2. CASE deleteRequest(c, i) /\ Answered(c, i, MAIN) /\ UNCHANGED threads
    <3>1. pendingRequests[c][i].owner = MAIN
      BY <2>2 DEF Answered
    <3> QED BY <1>1, <1>2, <1>4, <2>2, <3>1, DeletedOwner
  <2> QED BY <1>5, <2>1, <2>2
<1>8. ASSUME NEW k \in DOMAIN contacts[c], NEW u \in Text, sendMessage(c, k, u)
      PROVE  LET km == <<k, Len(contacts[c][k].messages) + 1>>
             IN  /\ Unsent(c, t)' \subseteq Unsent(c, t) \cup {km}
                 /\ u # t => Unsent(c, t)' \subseteq Unsent(c, t)
  <2> DEFINE km == <<k, Len(contacts[c][k].messages) + 1>>
  <2>1. /\ threads' = [threads EXCEPT ![c] = @ \cup {km}]
        /\ At(contacts'[c], km) = [text |-> u, sender |-> TRUE, state |-> "PENDING"]
    BY <1>1, <1>8, UserMessage
  <2>2. UNCHANGED pendingRequests
    BY <1>8 DEF sendMessage
  <2> HIDE DEF km
  <2>3. threads'[c] \subseteq threads[c] \cup {km} /\ At(contacts'[c], km).text = u
    BY <1>1, <2>1 DEF ClientTypeOK
  <2>4. Owned(c)' = Owned(c)
    BY <2>2 DEF Owned, Live
  <2>5. Unsent(c, t)' \subseteq Unsent(c, t) \cup {km}
    BY <2>3, <2>4, UnsentFrom
  <2>6. u # t => km \notin Unsent(c, t)'
    BY <2>3 DEF Unsent, At
  <2> QED BY <2>5, <2>6 DEF km
<1>9. ASSUME NEW th \in threads[c], SendRequest(c, th) PROVE Result
  <2>1. CASE HasFreeRequest(c)
    <3>1. createRequest(c, th) /\ UNCHANGED threads /\ th \in Thread
      BY <1>1, <1>9, <2>1 DEF SendRequest
    <3> QED BY <1>1, <1>2, <2>1, <3>1, CreatedOwner
  <2>2. CASE ~HasFreeRequest(c)
    <3>1. threads' = [threads EXCEPT ![c] = @ \ {th}] /\ UNCHANGED pendingRequests
      BY <1>9, <2>2 DEF SendRequest
    <3>2. threads'[c] \subseteq threads[c]
      BY <1>1, <3>1 DEF ClientTypeOK
    <3>3. Owned(c)' = Owned(c)
      BY <3>1 DEF Owned, Live
    <3> QED BY <1>2, <3>2, <3>3
  <2> QED BY <2>1, <2>2
<1>10. ASSUME NEW i \in Id, MessageAnswered(c, i) PROVE Result
  <2>1. PICK th \in threads[c] : /\ Answered(c, i, th)
                                 /\ threads' = [threads EXCEPT ![c] = @ \ {th}]
    BY <1>10, AnsweredMessage
  <2>2. threads'[c] = threads[c] \ {th}
    BY <1>1, <2>1 DEF ClientTypeOK
  <2>3. deleteRequest(c, i) /\ pendingRequests[c][i].owner = th
    BY <1>10, <2>1 DEF MessageAnswered, Answered
  <2> QED BY <1>1, <1>2, <2>2, <2>3, DeletedOwner
<1>11. ASSUME HandleDelivery(c) PROVE Result
  <2>1. UNCHANGED threads /\ (UNCHANGED pendingRequests \/ StaleSetEvent(c))
    BY <1>11 DEF HandleDelivery
  <2>2. ASSUME NEW i \in Live(c),
               pendingRequests' = [pendingRequests EXCEPT ![c][i].event = TRUE]
        PROVE  Result
    <3> DEFINE r == [pendingRequests[c][i] EXCEPT !.event = TRUE]
    <3>1. i \in Id /\ pendingRequests[c][i] \in PendingRequest
      BY <1>1 DEF Live, ClientTypeOK
    <3>2. r \in PendingRequest /\ r.owner = pendingRequests[c][i].owner
      BY <3>1 DEF PendingRequest
    <3>3. pendingRequests' = [pendingRequests EXCEPT ![c] =
                                [pendingRequests[c] EXCEPT ![i] = r]]
      BY <2>2
    <3> HIDE DEF r
    <3> QED BY <1>1, <1>2, <2>1, <3>2, <3>3, SameOwners
  <2> QED BY <1>3, <2>1, <2>2 DEF StaleSetEvent
<1>12. ASSUME HandleRespond(c) PROVE Result
  <2> DEFINE p == front(c)
             i == p.id
             r == [pendingRequests[c][i] EXCEPT !.data = p, !.event = TRUE]
  <2>1. /\ rx[c] = "packet" /\ pendingRequests[c][i] # NULL
        /\ writeToRequest(c, p) /\ UNCHANGED threads
    BY <1>12 DEF HandleRespond
  <2>2. p \in Packet
    <3>1. Complete(readBuffer[c])
      BY <2>1, ClientFacts DEF PacketsComplete
    <3> QED BY <1>1, <3>1, FrontPacket DEF front
  <2> HIDE DEF p
  <2>3. i \in Live(c) /\ pendingRequests[c][i] \in PendingRequest
    BY <1>1, <2>1, <2>2 DEF Live, ClientTypeOK, Packet
  <2>4. r \in PendingRequest /\ r.owner = pendingRequests[c][i].owner
    BY <2>2, <2>3 DEF PendingRequest
  <2>5. pendingRequests' = [pendingRequests EXCEPT ![c] = [pendingRequests[c] EXCEPT ![i] = r]]
    BY <1>1, <2>1, <2>3 DEF writeToRequest, ClientTypeOK
  <2> HIDE DEF i, r
  <2> QED BY <1>1, <1>2, <2>1, <2>3, <2>4, <2>5, SameOwners
<1>13. CASE UNCHANGED <<threads, pendingRequests>>
  BY <1>3, <1>13
<1> HIDE DEF Result
<1>14. \/ Result
       \/ \E k \in DOMAIN contacts[c], u \in Text : sendMessage(c, k, u)
       \/ UNCHANGED <<threads, pendingRequests>>
  BY <1>5, <1>6, <1>7, <1>9, <1>10, <1>11, <1>12
     DEF StartClient, ClientStep, UserStep, MainStep, ThreadStep,
         SocketStep, SendFails, Quit, Crash, Receive, ReceiveNothing, DropRespond
<1> QED BY <1>8, <1>13, <1>14 DEF Result

(* A thread that has sent its request, or given up, does not wait any more. *)
LEMMA SentOnce ==
  ASSUME SystemInv, NEW c \in Conn, NEW th \in threads[c], SendRequest(c, th), NEW t
  PROVE  th \notin Unsent(c, t)'
<1>1. ClientTypeOK /\ th \in Thread
  BY ClientFacts
<1>2. CASE HasFreeRequest(c)
  <2>1. createRequest(c, th)
    BY <1>2 DEF SendRequest
  <2>2. th \in Owned(c)'
    BY <1>1, <1>2, <2>1, CreatedOwner
  <2> QED BY <2>2 DEF Unsent, Owned
<1>3. CASE ~HasFreeRequest(c)
  <2>1. threads' = [threads EXCEPT ![c] = @ \ {th}]
    BY <1>3 DEF SendRequest
  <2> QED BY <1>1, <2>1 DEF Unsent, ClientTypeOK
<1> QED BY <1>2, <1>3

LEMMA ClientShown ==
  ASSUME SystemInv, NEW c \in Conn, StartClient(c) \/ ClientStep(c), NEW t
  PROVE  \/ Shown(c, t)' \subseteq Shown(c, t)
         \/ /\ HandleDelivery(c) /\ text(c) = t
            /\ \E km : Shown(c, t)' \subseteq Shown(c, t) \cup {km}
<1>1. Extends(contacts[c], contacts'[c])
  BY ContactsGrow
<1>2. ASSUME NEW x \in Shown(c, t)', x \in Places(contacts[c])
      PROVE  x \in Shown(c, t)
  <2>1. ~At(contacts'[c], x).sender /\ At(contacts'[c], x).text = t
    BY <1>2 DEF Shown, At
  <2> QED BY <1>1, <1>2, <2>1 DEF Extends, Shown
<1>3. CASE Places(contacts'[c]) = Places(contacts[c])
  <2>1. Shown(c, t)' \subseteq Places(contacts[c])
    BY <1>3 DEF Shown, Places
  <2> QED BY <1>2, <2>1
<1>4. ASSUME NEW k \in DOMAIN contacts[c], NEW u \in Text, sendMessage(c, k, u)
      PROVE  Shown(c, t)' \subseteq Shown(c, t)
  <2> DEFINE km == <<k, Len(contacts[c][k].messages) + 1>>
  <2>1. /\ Places(contacts'[c]) = Places(contacts[c]) \cup {km}
        /\ At(contacts'[c], km) = [text |-> u, sender |-> TRUE, state |-> "PENDING"]
    BY <1>4, UserMessage
  <2> HIDE DEF km
  <2>2. At(contacts'[c], km).sender
    BY <2>1
  <2>3. Shown(c, t)' \subseteq Places(contacts[c])
    BY <2>1, <2>2 DEF Shown, Places, At
  <2> QED BY <1>2, <2>3
<1>5. CASE HandleDelivery(c)
  <2>1. contacts'[c] = handleNewMessage(c)
    BY <1>5, ClientFacts DEF HandleDelivery, ClientTypeOK
  <2>2. \/ Places(contacts'[c]) = Places(contacts[c])
        \/ \E km \in Thread :
             /\ Places(contacts'[c]) = Places(contacts[c]) \cup {km}
             /\ At(contacts'[c], km) = [text |-> text(c), sender |-> FALSE,
                                        state |-> "SUCCESS"]
    BY <2>1, NewMessage, ClientFacts
  <2>3. ASSUME NEW km \in Thread,
               Places(contacts'[c]) = Places(contacts[c]) \cup {km},
               At(contacts'[c], km) = [text |-> text(c), sender |-> FALSE,
                                       state |-> "SUCCESS"]
        PROVE  /\ Shown(c, t)' \subseteq Shown(c, t) \cup {km}
               /\ text(c) # t => Shown(c, t)' \subseteq Shown(c, t)
    <3>1. At(contacts'[c], km).text = text(c)
      BY <2>3
    <3>2. Shown(c, t)' \subseteq Places(contacts[c]) \cup {km}
      BY <2>3 DEF Shown, Places
    <3>3. text(c) # t => km \notin Shown(c, t)'
      BY <3>1 DEF Shown, At
    <3> QED BY <1>2, <3>2, <3>3
  <2> QED BY <1>3, <1>5, <2>2, <2>3
<1> QED BY <1>3, <1>4, <1>5, ContactsGrow

(* A client's step makes no copy: what sendMessage adds has not been typed *)
(* before, and the thread, or the delivery, a copy comes from is done.     *)
LEMMA ClientKeepsCopy ==
  ASSUME StreamInv, OriginInv, Intact, NEW c \in Conn, StartClient(c) \/ ClientStep(c),
         UNCHANGED serverVars, ~misplaced'[c], NEW t \in Text, CopyOK(t)
  PROVE  CopyOK(t)'
<1>1. /\ SystemInv /\ ClientTypeOK /\ ~misplaced[c] /\ StreamFields(c)
      /\ typed \in [Conn -> SUBSET Text]
  BY ClientFacts DEF StreamInv, Intact, OriginInv, ClientTypeOK
<1>2. \A d \in Conn \ {c} : \A k \in Kind : Copies(k, d, t)' = Copies(k, d, t)
  BY <1>1, OtherCopies
<1>3. Keeps(Streamed(c, t)', Streamed(c, t))
  BY <1>1, ClientStreamed
<1>4. Typed(t) => Typed(t)'
  BY <1>1, TypedGrows DEF Typed
<1>5. \A k \in DOMAIN contacts[c] : \A u \in Text :
        sendMessage(c, k, u) => typed' # typed /\ UNCHANGED pendingRequests
  <2> SUFFICES ASSUME NEW k \in DOMAIN contacts[c], NEW u \in Text, sendMessage(c, k, u)
               PROVE  typed' # typed /\ UNCHANGED pendingRequests
    OBVIOUS
  <2>1. u \notin typed[c] /\ typed'[c] = typed[c] \cup {u} /\ UNCHANGED pendingRequests
    BY <1>1 DEF sendMessage
  <2> QED BY <2>1
<1>6. typed' = typed => Unsent(c, t)' \subseteq Unsent(c, t)
  BY <1>1, <1>5, ClientUnsent
<1>7. ASSUME NEW th \in threads[c], SendRequest(c, th), At(contacts[c], th).text = t,
             Requested(c, t)' \subseteq Requested(c, t) \cup {Len(Reqs(c)) + 3}
      PROVE  CopyOK(t)'
  <2>1. /\ th \in Unsent(c, t)
        /\ typed' = typed /\ contacts' = contacts
    BY <1>7 DEF SendRequest, Unsent
  <2>2. th \in Copies("unsent", c, t) /\ "unsent" \in Kind
    BY <2>1 DEF Copies, Kind
  <2>3. /\ Typed(t) /\ Copies("unsent", c, t) = {th}
        /\ \A d \in Conn : \A l \in Kind : d # c \/ l # "unsent" => Copies(l, d, t) = {}
    BY <2>2, OnlyCopy
  <2>4. /\ Unsent(c, t) = {th} /\ Requested(c, t) = {} /\ Streamed(c, t) = {}
        /\ Shown(c, t) = {}
    BY <2>3 DEF Copies, Kind
  <2>5. Unsent(c, t)' = {}
    BY <1>1, <1>6, <1>7, <2>1, <2>4, SentOnce
  <2>6. Shown(c, t)' = {}
    BY <2>1, <2>4 DEF Shown, Places, At
  <2>7. Streamed(c, t)' = {}
    BY <1>3, <2>4 DEF Keeps
  <2>8. \A d \in Conn : \A l \in Kind : d # c \/ l # "requested" => Copies(l, d, t)' = {}
    BY <1>2, <2>3, <2>5, <2>6, <2>7 DEF Copies, Kind
  <2>9. \A y, z \in Copies("requested", c, t)' : y = z
    BY <1>7, <2>4 DEF Copies
  <2>10. Typed(t)' /\ "requested" \in Kind
    BY <1>4, <2>3 DEF Kind
  <2> QED BY <2>8, <2>9, <2>10, CopiesMoved
<1>8. ASSUME HandleDelivery(c), text(c) = t, Requested(c, t)' \subseteq Requested(c, t),
             NEW km, Shown(c, t)' \subseteq Shown(c, t) \cup {km}
      PROVE  CopyOK(t)'
  <2>1. /\ front(c).fields = <<sender(c), text(c)>> /\ Size(front(c)) = 3
        /\ 3 \in DOMAIN Stream(c) /\ Stream(c)[3] = [pkt |-> front(c), part |-> 2]
    BY <1>1, <1>8, DeliveryFields
  <2>2. 3 \in Streamed(c, t)
    BY <1>8, <2>1 DEF Streamed, Holds
  <2>3. 3 \in Copies("streamed", c, t) /\ "streamed" \in Kind
    BY <2>2 DEF Copies, Kind
  <2>4. /\ Typed(t) /\ Copies("streamed", c, t) = {3}
        /\ \A d \in Conn : \A l \in Kind : d # c \/ l # "streamed" => Copies(l, d, t) = {}
    BY <2>3, OnlyCopy
  <2>5. /\ Unsent(c, t) = {} /\ Requested(c, t) = {} /\ Streamed(c, t) = {3}
        /\ Shown(c, t) = {}
    BY <2>4 DEF Copies, Kind
  <2>6. Streamed(c, t)' = {}
    <3>1. Stream(c)' = Drop(Stream(c), 3)
      BY <1>1, <1>8, <2>1, HandledStream
    <3>2. 3 \in 0 .. Len(Stream(c))
      BY <1>1, <2>1, StreamType
    <3>3. \A j \in Streamed(c, t)' : j \in Nat \ {0} /\ j + 3 \in Streamed(c, t)
      BY <1>1, <3>1, <3>2, DroppedCopies
    <3> QED BY <2>5, <3>3
  <2>7. typed' = typed
    BY <1>8 DEF HandleDelivery
  <2>8. Unsent(c, t)' = {}
    BY <1>6, <2>5, <2>7
  <2>9. \A d \in Conn : \A l \in Kind : d # c \/ l # "shown" => Copies(l, d, t)' = {}
    BY <1>2, <1>8, <2>4, <2>5, <2>6, <2>8 DEF Copies, Kind
  <2>10. \A y, z \in Copies("shown", c, t)' : y = z
    BY <1>8, <2>5 DEF Copies
  <2>11. Typed(t)' /\ "shown" \in Kind
    BY <1>4, <2>4 DEF Kind
  <2> QED BY <2>9, <2>10, <2>11, CopiesMoved
<1>9. ASSUME Requested(c, t)' \subseteq Requested(c, t), Shown(c, t)' \subseteq Shown(c, t),
              NEW k \in DOMAIN contacts[c], sendMessage(c, k, t),
              NEW km, Unsent(c, t)' \subseteq Unsent(c, t) \cup {km}
       PROVE  CopyOK(t)'
  <2>1. ~Typed(t) /\ Typed(t)' /\ "unsent" \in Kind
    BY <1>1, <1>9 DEF sendMessage, Typed, Kind
  <2>2. \A d \in Conn : \A l \in Kind : Copies(l, d, t) = {}
    BY <2>1 DEF CopyOK
  <2>3. /\ Unsent(c, t) = {} /\ Requested(c, t) = {} /\ Streamed(c, t) = {}
        /\ Shown(c, t) = {}
    BY <2>2 DEF Copies, Kind
  <2>4. Streamed(c, t)' = {}
    BY <1>3, <2>3 DEF Keeps
  <2>5. \A d \in Conn : \A l \in Kind : d # c \/ l # "unsent" => Copies(l, d, t)' = {}
    BY <1>2, <1>9, <2>2, <2>3, <2>4 DEF Copies, Kind
  <2>6. \A y, z \in Copies("unsent", c, t)' : y = z
    BY <1>9, <2>3 DEF Copies
  <2> QED BY <2>1, <2>5, <2>6, CopiesMoved
<1>10. ASSUME Requested(c, t)' \subseteq Requested(c, t), Shown(c, t)' \subseteq Shown(c, t),
              Unsent(c, t)' \subseteq Unsent(c, t)
       PROVE  CopyOK(t)'
  <2>1. \A k \in Kind : Keeps(Copies(k, c, t)', Copies(k, c, t))
    BY <1>3, <1>10 DEF Copies, Kind, Keeps
  <2>2. \A d \in Conn \ {c} : \A k \in Kind : Keeps(Copies(k, d, t)', Copies(k, d, t))
    BY <1>2 DEF Keeps
  <2> QED BY <1>4, <2>1, <2>2, CopiesKept
<1>11. \/ Requested(c, t)' \subseteq Requested(c, t)
       \/ \E th \in threads[c] :
            /\ SendRequest(c, th) /\ At(contacts[c], th).text = t
            /\ Requested(c, t)' \subseteq Requested(c, t) \cup {Len(Reqs(c)) + 3}
  BY <1>1, ClientRequested
<1>12. \/ Shown(c, t)' \subseteq Shown(c, t)
       \/ /\ HandleDelivery(c) /\ text(c) = t
          /\ \E km : Shown(c, t)' \subseteq Shown(c, t) \cup {km}
  BY <1>1, ClientShown
<1>13. \/ Unsent(c, t)' \subseteq Unsent(c, t)
       \/ \E k \in DOMAIN contacts[c] :
            /\ sendMessage(c, k, t)
            /\ \E km : Unsent(c, t)' \subseteq Unsent(c, t) \cup {km}
  BY <1>1, ClientUnsent
<1> QED BY <1>7, <1>8, <1>9, <1>10, <1>11, <1>12, <1>13

-----------------------------------------------------------------------------
(* A text is shown once *)

LEMMA CopyInit == SystemInit => CopyInv
<1> SUFFICES ASSUME SystemInit, NEW t \in Text
             PROVE  CopyOK(t)
  BY DEF CopyInv
<1> USE DEF SystemInit, ServerInit, ClientInit, NetInit
<1>1. /\ <<>> \o <<>> = <<>> /\ DOMAIN <<>> = {}
  OBVIOUS
<1>2. ASSUME NEW c \in Conn
      PROVE  Unsent(c, t) = {} /\ Requested(c, t) = {} /\ Streamed(c, t) = {} /\ Shown(c, t) = {}
  <2>1. /\ buffer[c] = <<>> /\ toServer[c] = <<>> /\ readBuffer[c] = <<>> /\ toClient[c] = <<>>
        /\ contacts[c] = <<>> /\ threads[c] = {}
    BY DEF Node
  <2>2. Reqs(c) = <<>> /\ Stream(c) = <<>>
    BY <1>1, <2>1 DEF Reqs, Stream
  <2> QED BY <1>1, <2>1, <2>2 DEF Unsent, Requested, Streamed, Shown, Places
<1>3. \A c \in Conn : \A k \in Kind : Copies(k, c, t) = {}
  BY <1>2 DEF Copies
<1> QED BY <1>3 DEF CopyOK, OneCopy

LEMMA CopyNext ==
  ASSUME StreamInv, SystemInv', LoginInv, OriginInv, CopyInv, [SystemNext]_systemVars
  PROVE  CopyInv'
<1> SUFFICES ASSUME Intact', NEW t \in Text
             PROVE  CopyOK(t)'
  BY DEF CopyInv
<1>1. CASE ServerStep
  <2>1. Intact
    BY <1>1 DEF ServerStep, clientVars, Intact
  <2> QED BY <1>1, <2>1, ServerKeepsCopy DEF CopyInv
<1>2. CASE ClientsStep
  <2>1. PICK c \in Conn : StartClient(c) \/ ClientStep(c)
    BY <1>2 DEF ClientsStep
  <2>2. SystemInv /\ UNCHANGED serverVars
    BY <1>2 DEF StreamInv, ClientsStep
  <2>3. ASSUME NEW d \in Conn PROVE ~misplaced[d]
    <3>1. CASE d = c
      BY <2>1, <2>2, <3>1, StreamStep DEF Intact
    <3>2. CASE d # c
      BY <2>1, <2>2, <3>2, ClientFrame DEF SameClient, Intact
    <3> QED BY <3>1, <3>2
  <2>4. Intact /\ CopyOK(t) /\ ~misplaced'[c]
    BY <2>3 DEF Intact, CopyInv
  <2> QED BY <2>1, <2>2, <2>4, ClientKeepsCopy
<1>3. CASE UNCHANGED systemVars
  <2>1. UNCHANGED <<toServer, toClient, buffer, pc, cursor>>
    BY <1>3 DEF systemVars, vars, netVars, serverVars, nodeVars, localVars
  <2>2. UNCHANGED <<contacts, typed, threads, pendingRequests, readBuffer, misplaced>>
    BY <1>3 DEF systemVars, clientVars
  <2>3. Intact /\ CopyOK(t)
    BY <2>2 DEF Intact, CopyInv
  <2>4. ASSUME NEW c \in Conn
        PROVE  /\ Unsent(c, t)' = Unsent(c, t) /\ Shown(c, t)' = Shown(c, t)
               /\ Requested(c, t)' = Requested(c, t) /\ Streamed(c, t)' = Streamed(c, t)
    BY <2>1, <2>2 DEF Unsent, Shown, Requested, Streamed, Live, At, Places, Reqs, Stream,
                      Spent, request
  <2>5. \A c \in Conn : \A k \in Kind : Keeps(Copies(k, c, t)', Copies(k, c, t))
    BY <2>4 DEF Copies, Keeps
  <2>6. Typed(t)' = Typed(t)
    BY <2>2 DEF Typed
  <2> QED BY <2>3, <2>5, <2>6, CopiesKept
<1> QED BY <1>1, <1>2, <1>3 DEF SystemNext

(* While the clients' buffers are intact there is one copy of each text,   *)
(* from sendMessage to handleNewMessage, wherever it is.                   *)
THEOREM CopyInvariance == SystemSpec => []CopyInv
<1>1. SystemInit => CopyInv
  BY CopyInit
<1>2. StreamInv /\ SystemInv' /\ LoginInv /\ OriginInv /\ CopyInv /\ [SystemNext]_systemVars
        => CopyInv'
  BY CopyNext
<1>3. SystemSpec => [](StreamInv /\ SystemInv /\ LoginInv /\ OriginInv)
  BY StreamInvariance, SystemInvariance, LoginInvariance, OriginInvariance, PTL
<1> QED BY <1>1, <1>2, <1>3, PTL DEF SystemSpec

(* AtMostOnce in every reachable state: no text is shown twice, by one     *)
(* client or by two, while the clients' buffers are intact.                *)
THEOREM ShownOnce == SystemSpec => []AtMostOnce
<1>1. ASSUME SystemInv, CopyInv PROVE AtMostOnce
  <2> SUFFICES ASSUME Intact, NEW t \in Text
               PROVE  Cardinality(Received(t)) <= 1
    BY DEF AtMostOnce
  <2>1. ASSUME NEW y \in Received(t)
        PROVE  \E c \in Conn : \E km \in Shown(c, t) : y = <<c, km>>
    <3>1. PICK c \in Conn : \E km \in {x \in Messages(c, FALSE) : MessageAt(c, x).text = t} :
                              y = <<c, km>>
      BY DEF Received
    <3>2. PICK km \in Messages(c, FALSE) : MessageAt(c, km).text = t /\ y = <<c, km>>
      BY <3>1
    <3>3. PICK no \in BOOLEAN : no = FALSE
      OBVIOUS
    <3>4. /\ km \in Places(contacts[c]) /\ At(contacts[c], km).sender = no
          /\ MessageAt(c, km) = At(contacts[c], km)
      BY <1>1, <3>2, <3>3, MessagePlaces
    <3> QED BY <3>2, <3>3, <3>4 DEF Shown
  <2>2. ASSUME NEW c \in Conn, NEW d \in Conn, NEW x \in Shown(c, t), NEW y \in Shown(d, t)
        PROVE  c = d /\ x = y
    <3>1. x \in Copies("shown", c, t) /\ y \in Copies("shown", d, t) /\ "shown" \in Kind
      BY DEF Copies, Kind
    <3> QED BY <1>1, <3>1 DEF CopyInv, CopyOK, OneCopy
  <2>3. \A x, y \in Received(t) : x = y
    BY <2>1, <2>2
  <2>4. CASE Received(t) = {}
    BY <2>4, FS_EmptySet
  <2>5. ASSUME NEW y \in Received(t) PROVE Cardinality(Received(t)) <= 1
    <3>1. Received(t) = {y}
      BY <2>3
    <3> QED BY <3>1, FS_Singleton
  <2> QED BY <2>4, <2>5
<1>2. SystemSpec => []SystemInv /\ []CopyInv
  BY SystemInvariance, CopyInvariance
<1> QED BY <1>1, <1>2, PTL
=============================================================================
