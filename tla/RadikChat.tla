------------------------------ MODULE RadikChat ------------------------------
(***************************************************************************)
(* The whole system: the server, and on every connection a run of the      *)
(* client program.                                                         *)
(***************************************************************************)
EXTENDS Server, Client

(* The clients are client programs.  A text stands for a message: no        *)
(* nickname is one; NULL is no packet and no request.                      *)
ASSUME SystemAssumption ==
  /\ ClientPacket = ClientPackets
  /\ Nickname \cap Text = {}
  /\ NULL \notin Packet /\ NULL \notin PendingRequest

systemVars == <<vars, clientVars>>

SystemInit == ServerInit /\ ClientInit

ServerStep == ServerNext /\ UNCHANGED clientVars

ClientsStep ==
  /\ \E c \in Conn : (pc # "exited" /\ StartClient(c)) \/ ClientStep(c)
  /\ UNCHANGED serverVars

SystemNext == ServerStep \/ ClientsStep

SystemSpec == SystemInit /\ [][SystemNext]_systemVars

(* The threads of the server and of the clients are scheduled; the users   *)
(* do what they like.                                                      *)
Fairness ==
  /\ WF_systemVars(ServerStep)
  /\ \A c \in Conn :
       /\ WF_systemVars(MainStep(c) /\ UNCHANGED serverVars)
       /\ WF_systemVars(ThreadStep(c) /\ UNCHANGED serverVars)
       /\ WF_systemVars(SocketStep(c) /\ UNCHANGED serverVars)

-----------------------------------------------------------------------------
(* The messages of client c, sent by him (mine) or to him: pairs of a      *)
(* contact and a place in its history                                      *)
Messages(c, mine) ==
  UNION {{<<k, m>> : m \in {j \in DOMAIN contacts[c][k].messages :
                               contacts[c][k].messages[j].sender = mine}} :
           k \in DOMAIN contacts[c]}

MessageAt(c, km) == contacts[c][km[1]].messages[km[2]]

(* Where text t has been received *)
Received(t) ==
  UNION {{<<c, km>> : km \in {x \in Messages(c, FALSE) :
                                 MessageAt(c, x).text = t}} : c \in Conn}

-----------------------------------------------------------------------------
(* Every client has put what followed a packet in its buffer in its place  *)
Intact == \A c \in Conn : ~misplaced[c]

(* A text is shown once, to one client, however the streams of requests    *)
(* are torn by the reads of sendMessage and wherever recv() cuts them, as  *)
(* long as the clients' buffers are intact.                                *)
AtMostOnce ==
  Intact => \A t \in Text : Cardinality(Received(t)) <= 1

(* A received message was typed by a client, or, where a stream of         *)
(* requests has been torn, is a nickname he sent; and it stands under the  *)
(* nickname of that client as long as he is logged in                      *)
(* (processMessagePacket reads the sender from ClientInfo,                 *)
(* handleNewMessage finds the contact).                                    *)
SenderIsContact ==
  Intact =>
    \A c \in Conn : \A km \in Messages(c, FALSE) :
      \E d \in Conn :
        /\ MessageAt(c, km).text \in typed[d] \cup Name
        /\ nickname[d] = contacts[c][km[1]].nickname \/ d \notin Listed

(* A socket thread stays in step with the server's stream: what it takes   *)
(* for a header is one, although it processes one packet per recv(), as    *)
(* long as clearing a packet moves all that follows it                     *)
(* (clientUtils.c:93).                                                     *)
ClientsInStep == \A c \in Conn : rx[c] = "undefined" => misplaced[c]

(* What clients do is what the server's environment may do, so that all    *)
(* that holds of the server holds in the system.                           *)
ServerSpecHolds == Spec

(* A message that is sent leaves the state PENDING (sendMessageThread).    *)
MessagesAnswered ==
  \A c \in Conn, t \in Text :
    t \in typed[c] ~>
      \E km \in Messages(c, TRUE) :
        MessageAt(c, km).text = t /\ MessageAt(c, km).state # "PENDING"

-----------------------------------------------------------------------------
(* What comments and messages of the code say, and the code does not do.   *)

(* packetProcessor.c:159 "Message sent successfully": a message marked as  *)
(* sent has been received.                                                 *)
SuccessIsDelivered ==
  \A c \in Conn : \A km \in Messages(c, TRUE) :
    MessageAt(c, km).state = "SUCCESS" => Received(MessageAt(c, km).text) # {}

(* chatsManager.c:225 "Chat already created": a client has one chat with a *)
(* nickname.                                                               *)
OneChatPerNickname ==
  \A c \in Conn : \A j, k \in DOMAIN contacts[c] :
    contacts[c][j].nickname = contacts[c][k].nickname => j = k

(* packet.h:49 "Client tries to create chat/send message to himself" has a *)
(* status of its own: no message is delivered to the client that sends it. *)
(* (When it is, and the client leaves, main() goes on with a freed node.)  *)
NoMessageToHimself == pc = "respond" => recipient # cursor

(* clientUtils.c:94 "clear buffer": what follows the packet in the buffer  *)
(* is kept.  Then the answer sendMessage waits for is on its way, or the   *)
(* delivery is and will be answered, as long as the recipient runs.        *)
Deliveries(cells) == {j \in DOMAIN cells : cells[j].pkt.type = "DELIVERY"}

AnswerWillCome ==
  pc = "respond" /\ peer[recipient] = "up" =>
    \/ toServer[recipient] # <<>>
    \/ rx[recipient] = "crash"
    \/ Deliveries(toClient[recipient]) # {}
    \/ Deliveries(readBuffer[recipient]) # {}
=============================================================================
