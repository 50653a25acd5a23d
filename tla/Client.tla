------------------------------- MODULE Client -------------------------------
(***************************************************************************)
(* The RadikChat client program (client/): the main thread that talks to   *)
(* the user, one thread per message being sent, and the socket thread that *)
(* reassembles packets, takes deliveries and hands responds to the waiting *)
(* threads through the table of pending requests.                          *)
(*                                                                         *)
(* Every variable is indexed by the connection, which stands for one run   *)
(* of the program.  The contacts of a client are kept in the order of      *)
(* their creation (the code prepends, so that its list is the reverse); a  *)
(* pointer to a contact or to a message is its index, which later          *)
(* additions do not change.                                                *)
(***************************************************************************)
EXTENDS Network, SequencesExt

CONSTANTS
  FREED,     (* stands for the address of a request that has been freed    *)
  MemSize,   (* MAX_READ_BUFFER_SIZE, in cells                             *)
  HeapReuse  (* malloc may place a new request where a freed one was       *)

ASSUME ClientAssumption ==
  /\ MemSize \in Nat /\ MemSize >= 3
  /\ HeapReuse \in BOOLEAN
  /\ FREED \notin Id \cup {NULL}

VARIABLES
  ui,        (* where the main thread is                                   *)
  wanted,    (* the nickname createChat has asked for                      *)
  contacts,
  typed,     (* the texts the user has sent: each text is typed once       *)
  threads,   (* sendMessageThreads: <<contact, message>> each              *)
  pendingRequests,
  readBuffer, (* the received cells of the socket thread's buffer          *)
  rx,        (* where the socket thread is                                 *)
  rxRequest, (* its variable `request': NULL, the id of a request in the   *)
             (* table, or FREED                                            *)
  misplaced  (* history variable: a packet has been cleared, and not all   *)
             (* of what followed it has been moved to its place            *)

clientVars == <<ui, wanted, contacts, typed, threads, pendingRequests,
                readBuffer, rx, rxRequest, misplaced>>

MessageState == {"PENDING", "SUCCESS", "FAILED"}
Message == [text : String, sender : BOOLEAN, state : MessageState]
Contact == [nickname : String, messages : Seq(Message)]

(* Who waits for the respond: the main thread or a sendMessageThread *)
MAIN == <<0, 0>>
Thread == Nat \X Nat

(* A request in the table: its waiter, the packet writeToRequest has       *)
(* copied into it, and its event                                           *)
PendingRequest == [owner : Thread, data : Packet \cup {NULL}, event : BOOLEAN]

ClientTypeOK ==
  /\ ui \in [Conn -> {"off", "nickname", "login", "menu", "creating", "ended"}]
  /\ wanted \in [Conn -> Name]
  /\ contacts \in [Conn -> Seq(Contact)]
  /\ typed \in [Conn -> SUBSET Text]
  /\ threads \in [Conn -> SUBSET Thread]
  /\ pendingRequests \in [Conn -> [Id -> PendingRequest \cup {NULL}]]
  /\ readBuffer \in [Conn -> Seq(Cell)]
  /\ rx \in [Conn -> {"recv", "packet", "crash", "undefined"}]
  /\ rxRequest \in [Conn -> Id \cup {NULL, FREED}]
  /\ misplaced \in [Conn -> BOOLEAN]

ClientInit ==
  /\ ui = [c \in Conn |-> "off"]
  /\ wanted = [c \in Conn |-> NoName]
  /\ contacts = [c \in Conn |-> <<>>]
  /\ typed = [c \in Conn |-> {}]
  /\ threads = [c \in Conn |-> {}]
  /\ pendingRequests = [c \in Conn |-> [i \in Id |-> NULL]]
  /\ readBuffer = [c \in Conn |-> <<>>]
  /\ rx = [c \in Conn |-> "recv"]
  /\ rxRequest = [c \in Conn |-> NULL]
  /\ misplaced = [c \in Conn |-> FALSE]

Running(c) == ui[c] \notin {"off", "ended"}

-----------------------------------------------------------------------------
(* Contacts and messages *)

(* findContact: the list is searched from the newest contact on *)
findContact(c, n) ==
  LET found == {k \in DOMAIN contacts[c] : contacts[c][k].nickname = n}
  IN  IF found = {} THEN NULL ELSE Max(found)

createContact(list, n) == Append(list, [nickname |-> n, messages |-> <<>>])

addMessage(list, k, t, sender, state) ==
  [list EXCEPT ![k].messages =
     Append(@, [text |-> t, sender |-> sender, state |-> state])]

-----------------------------------------------------------------------------
(* Pending requests *)

Live(c) == {i \in Id : pendingRequests[c][i] # NULL}

(* createRequest: the first free slot of the table *)
HasFreeRequest(c) == Live(c) # Id
FreeRequest(c) == Min(Id \ Live(c))

createRequest(c, owner) ==
  pendingRequests' = [pendingRequests EXCEPT ![c][FreeRequest(c)] =
                        [owner |-> owner, data |-> NULL, event |-> FALSE]]

(* deleteRequest frees the request; the socket thread may still point to it *)
deleteRequest(c, i) ==
  /\ pendingRequests' = [pendingRequests EXCEPT ![c][i] = NULL]
  /\ rxRequest' = [rxRequest EXCEPT ![c] = IF @ = i THEN FREED ELSE @]

(* The thread that waits for request i wakes up and reads the status in    *)
(* its data, which nobody has initialised when the event was set by        *)
(* another packet's handler.                                               *)
Answered(c, i, owner) ==
  /\ pendingRequests[c][i] # NULL
  /\ pendingRequests[c][i].owner = owner
  /\ pendingRequests[c][i].event

Statuses(c, i) == IF pendingRequests[c][i].data = NULL
                    THEN PacketStatus
                    ELSE {pendingRequests[c][i].data.status}

-----------------------------------------------------------------------------
(* The end of the process: by the user, or by exit(1) *)
End(c) ==
  /\ ClientClose(c)
  /\ ui' = [ui EXCEPT ![c] = "ended"]
  /\ threads' = [threads EXCEPT ![c] = {}]
  /\ pendingRequests' = [pendingRequests EXCEPT ![c] = [i \in Id |-> NULL]]
  /\ readBuffer' = [readBuffer EXCEPT ![c] = <<>>]
  /\ rx' = [rx EXCEPT ![c] = "recv"]
  /\ rxRequest' = [rxRequest EXCEPT ![c] = NULL]
  /\ UNCHANGED <<wanted, contacts, typed, misplaced>>

Quit(c) == Running(c) /\ End(c)

(* main() connects and starts the socket thread *)
StartClient(c) ==
  /\ Connect(c)
  /\ ui' = [ui EXCEPT ![c] = "nickname"]
  /\ UNCHANGED <<wanted, contacts, typed, threads, pendingRequests,
                 readBuffer, rx, rxRequest, misplaced>>

(* logIn, up to the wait for its event *)
logIn(c, n) ==
  /\ ui[c] = "nickname"
  /\ HasFreeRequest(c)
  /\ createRequest(c, MAIN)
  /\ ClientSend(c, LoginRequest(n, FreeRequest(c)))
  /\ ui' = [ui EXCEPT ![c] = "login"]
  /\ UNCHANGED <<wanted, contacts, typed, threads, readBuffer, rx, rxRequest,
                 misplaced>>

LogInAnswered(c, i) ==
  /\ ui[c] = "login"
  /\ Answered(c, i, MAIN)
  /\ \E status \in Statuses(c, i) :
       IF status = "OK"
         THEN /\ deleteRequest(c, i)
              /\ ui' = [ui EXCEPT ![c] = "menu"]
              /\ UNCHANGED <<netVars, wanted, contacts, typed, threads,
                             readBuffer, rx, misplaced>>
         ELSE End(c)

(* createChat, up to the wait for its event *)
createChat(c, n) ==
  /\ ui[c] = "menu"
  /\ findContact(c, n) = NULL
  /\ HasFreeRequest(c)
  /\ createRequest(c, MAIN)
  /\ ClientSend(c, ChatRequest(n, FreeRequest(c)))
  /\ ui' = [ui EXCEPT ![c] = "creating"]
  /\ wanted' = [wanted EXCEPT ![c] = n]
  /\ UNCHANGED <<contacts, typed, threads, readBuffer, rx, rxRequest, misplaced>>

(* The contact is created whether or not a delivery has created it since   *)
CreateChatAnswered(c, i) ==
  /\ ui[c] = "creating"
  /\ Answered(c, i, MAIN)
  /\ \E status \in Statuses(c, i) :
       contacts' = IF status = "OK"
                     THEN [contacts EXCEPT ![c] = createContact(@, wanted[c])]
                     ELSE contacts
  /\ deleteRequest(c, i)
  /\ ui' = [ui EXCEPT ![c] = "menu"]
  /\ UNCHANGED <<netVars, wanted, typed, threads, readBuffer, rx, misplaced>>

(* sendMessage, from an open chat *)
sendMessage(c, k, t) ==
  /\ ui[c] = "menu"
  /\ k \in DOMAIN contacts[c]
  /\ \A d \in Conn : t \notin typed[d]
  /\ typed' = [typed EXCEPT ![c] = @ \cup {t}]
  /\ contacts' = [contacts EXCEPT ![c] = addMessage(@, k, t, TRUE, "PENDING")]
  /\ threads' = [threads EXCEPT ![c] =
                   @ \cup {<<k, Len(contacts[c][k].messages) + 1>>}]
  /\ UNCHANGED <<netVars, ui, wanted, pendingRequests, readBuffer, rx,
                 rxRequest, misplaced>>

(* sendMessageThread, up to the wait for its event.  When the table is     *)
(* full the thread ends and the message stays as it is.                    *)
SendRequest(c, th) ==
  /\ th \in threads[c]
  /\ \A i \in Live(c) : pendingRequests[c][i].owner # th
  /\ IF HasFreeRequest(c)
       THEN LET contact == contacts[c][th[1]]
            IN  /\ createRequest(c, th)
                /\ ClientSend(c, MessageRequest(contact.nickname,
                                 contact.messages[th[2]].text, FreeRequest(c)))
                /\ UNCHANGED threads
       ELSE /\ threads' = [threads EXCEPT ![c] = @ \ {th}]
            /\ UNCHANGED <<netVars, pendingRequests>>
  /\ UNCHANGED <<ui, wanted, contacts, typed, readBuffer, rx, rxRequest, misplaced>>

(* Fault: the status of the respond is stored as the state of the message *)
rawState(status) == status

stateOf(status) == IF status = "OK" THEN "SUCCESS" ELSE "FAILED"

(* sendMessageThread, after its event: the message gets its state, unless  *)
(* the data does not hold a packet                                         *)
MessageAnswered(c, i) ==
  /\ \E th \in threads[c] :
       /\ Answered(c, i, th)
       /\ threads' = [threads EXCEPT ![c] = @ \ {th}]
       /\ \/ \E status \in Statuses(c, i) :
               contacts' = [contacts EXCEPT ![c][th[1]].messages[th[2]].state =
                              stateOf(status)]
          \/ pendingRequests[c][i].data = NULL /\ UNCHANGED contacts
  /\ deleteRequest(c, i)
  /\ UNCHANGED <<netVars, ui, wanted, typed, readBuffer, rx, misplaced>>

(* send() fails in sendPacket: exit(1) *)
SendFails(c) ==
  /\ peer[c] = "cut"
  /\ \/ ui[c] \in {"nickname", "menu"}
     \/ \E th \in threads[c] : \A i \in Live(c) : pendingRequests[c][i].owner # th
     \/ rx[c] = "packet" /\ readBuffer[c][1].pkt.type = "DELIVERY"
  /\ End(c)

-----------------------------------------------------------------------------
(* The socket thread *)

front(c) == readBuffer[c][1].pkt

(* After recv(): a packet that is not whole waits for the next recv().     *)
(* Where the first bytes are not a header the thread reads its type and    *)
(* id from somewhere inside a string.                                      *)
Look(c, cells) ==
  IF cells = <<>> THEN "recv"
  ELSE IF ~Aligned(cells) THEN "undefined"
  ELSE IF Complete(cells) THEN "packet"
  ELSE "recv"

(* select() reports data and recv() returns k cells *)
Receive(c, k) ==
  /\ Running(c)
  /\ rx[c] = "recv"
  /\ k <= MemSize - Len(readBuffer[c])
  /\ ClientRecv(c, k)
  /\ LET cells == readBuffer[c] \o SubSeq(toClient[c], 1, k)
     IN  /\ readBuffer' = [readBuffer EXCEPT ![c] = cells]
         /\ rx' = [rx EXCEPT ![c] = Look(c, cells)]
  /\ UNCHANGED <<ui, wanted, contacts, typed, threads, pendingRequests,
                 rxRequest, misplaced>>

(* The server has closed its end: recv() returns 0, and the thread looks   *)
(* at its buffer all the same                                              *)
ReceiveNothing(c) ==
  /\ Running(c)
  /\ rx[c] = "recv"
  /\ peer[c] = "cut" /\ toClient[c] = <<>>
  /\ rx' = [rx EXCEPT ![c] = Look(c, readBuffer[c])]
  /\ UNCHANGED <<netVars, ui, wanted, contacts, typed, threads,
                 pendingRequests, readBuffer, rxRequest, misplaced>>

(* Fault: the header alone is cleared *)
ClearedHeader(cells) == Drop(cells, 1)

(* "clear buffer": memcpy moves as many bytes as the packet had, not as    *)
(* many as follow it                                                       *)
Cleared(cells) ==
  LET s == Size(cells[1].pkt)
  IN  [j \in 1 .. Len(cells) - s |-> IF j <= s THEN cells[j + s] ELSE cells[j]]

(* More than moved cells follow the packet at the start of the buffer *)
Misplaces(c, moved) ==
  misplaced' = [misplaced EXCEPT ![c] =
                  @ \/ Len(readBuffer[c]) - Size(front(c)) > moved]

(* handleNewMessage *)
sender(c) == readPacketString(readBuffer[c], 1)
text(c) == readPacketString(readBuffer[c], 2)

(* Fault: the status the respond is created with is never replaced *)
newMessageStatusFailure(c) == "FAILURE"

newMessageStatus(c) ==
  IF sender(c) = NULL \/ text(c) = NULL THEN "CANT_READ" ELSE "OK"

handleNewMessage(c) ==
  LET known == IF sender(c) = NULL \/ findContact(c, sender(c)) # NULL
                 THEN contacts[c]
                 ELSE createContact(contacts[c], sender(c))
      k == Max({j \in DOMAIN known : known[j].nickname = sender(c)})
  IN  IF newMessageStatus(c) = "OK"
        THEN addMessage(known, k, text(c), FALSE, "SUCCESS")
        ELSE known

(* SetEvent(request->event) of the delivery path: `request' is whatever    *)
(* the last respond left in it.  A freed request may have become another   *)
(* one.                                                                    *)
StaleSetEvent(c) ==
  \/ UNCHANGED pendingRequests
  \/ /\ HeapReuse /\ rxRequest[c] = FREED
     /\ \E i \in Live(c) : pendingRequests' =
                             [pendingRequests EXCEPT ![c][i].event = TRUE]

HandleDelivery(c) ==
  /\ rx[c] = "packet" /\ front(c).type = "DELIVERY"
  /\ contacts' = [contacts EXCEPT ![c] = handleNewMessage(c)]
  /\ ClientSend(c, DeliveryRespond(newMessageStatus(c)))
  /\ readBuffer' = [readBuffer EXCEPT ![c] = Cleared(@)]
  /\ IF rxRequest[c] = NULL
       THEN rx' = [rx EXCEPT ![c] = "crash"] /\ UNCHANGED pendingRequests
       ELSE rx' = [rx EXCEPT ![c] = "recv"] /\ StaleSetEvent(c)
  /\ Misplaces(c, Size(front(c)))
  /\ UNCHANGED <<ui, wanted, typed, threads, rxRequest>>

(* `request' was NULL: the process ends *)
Crash(c) == rx[c] = "crash" /\ End(c)

(* Fault: the event is not set *)
writeWithoutSetEvent(c, p) ==
  pendingRequests' = [pendingRequests EXCEPT ![c][p.id].data = p]

(* writeToRequest, and SetEvent *)
writeToRequest(c, p) ==
  pendingRequests' = [pendingRequests EXCEPT ![c][p.id].data = p,
                                             ![c][p.id].event = TRUE]

(* A respond is copied to the request with its id *)
HandleRespond(c) ==
  /\ rx[c] = "packet" /\ front(c).type # "DELIVERY"
  /\ pendingRequests[c][front(c).id] # NULL
  /\ writeToRequest(c, front(c))
  /\ rxRequest' = [rxRequest EXCEPT ![c] = front(c).id]
  /\ readBuffer' = [readBuffer EXCEPT ![c] = Cleared(@)]
  /\ rx' = [rx EXCEPT ![c] = "recv"]
  /\ Misplaces(c, Size(front(c)))
  /\ UNCHANGED <<netVars, ui, wanted, contacts, typed, threads>>

(* Nobody waits for the id of the respond: the count goes down, the bytes  *)
(* stay where they are, and `request' is NULL                              *)
DropRespond(c) ==
  /\ rx[c] = "packet" /\ front(c).type # "DELIVERY"
  /\ pendingRequests[c][front(c).id] = NULL
  /\ rxRequest' = [rxRequest EXCEPT ![c] = NULL]
  /\ readBuffer' = [readBuffer EXCEPT ![c] =
                      SubSeq(@, 1, Len(@) - Size(front(c)))]
  /\ rx' = [rx EXCEPT ![c] = "recv"]
  /\ Misplaces(c, 0)
  /\ UNCHANGED <<netVars, ui, wanted, contacts, typed, threads,
                 pendingRequests>>

-----------------------------------------------------------------------------
UserStep(c) ==
  \/ \E n \in Name : logIn(c, n) \/ createChat(c, n)
  \/ \E k \in DOMAIN contacts[c], t \in Text : sendMessage(c, k, t)
  \/ Quit(c)

MainStep(c) ==
  \E i \in Id : LogInAnswered(c, i) \/ CreateChatAnswered(c, i)

ThreadStep(c) ==
  \/ \E th \in threads[c] : SendRequest(c, th)
  \/ \E i \in Id : MessageAnswered(c, i)

SocketStep(c) ==
  \/ \E k \in 1 .. MemSize : Receive(c, k)
  \/ ReceiveNothing(c)
  \/ HandleDelivery(c) \/ Crash(c)
  \/ HandleRespond(c) \/ DropRespond(c)

ClientStep(c) ==
  UserStep(c) \/ MainStep(c) \/ ThreadStep(c) \/ SocketStep(c) \/ SendFails(c)
=============================================================================
