---------------------------- MODULE SystemProofs ----------------------------
(***************************************************************************)
(* Proofs about the whole system, for any number of clients, nicknames,    *)
(* texts and request ids and any buffer sizes: every variable keeps its    *)
(* type, the clients are an environment of the server's specification, and *)
(* their socket threads stay in step with the server's stream.             *)
(***************************************************************************)
EXTENDS RadikChat, ServerProofs

-----------------------------------------------------------------------------
(* Contacts and requests *)

(* A set of positions that is not empty has a maximum. *)
LEMMA MaxExists ==
  ASSUME NEW n \in Nat, NEW S \in SUBSET (1 .. n), S # {}
  PROVE  /\ Max(S) \in S
         /\ \A y \in S : y <= Max(S)
<1> DEFINE D == {n - x : x \in S}
<1>1. D \in SUBSET Nat /\ D # {}
  <2>1. \A x \in S : x \in Int /\ 1 <= x /\ x <= n
    OBVIOUS
  <2>2. \A x \in S : n - x \in Nat
    BY <2>1
  <2> QED BY <2>2
<1>2. Min(D) \in D /\ \A y \in D : Min(D) =< y
  BY <1>1, MinExists
<1>3. PICK x \in S : Min(D) = n - x
  BY <1>2
<1>4. \A y \in S : n - x =< n - y
  BY <1>2, <1>3
<1>5. \A y \in S : x >= y
  BY <1>4
<1> QED BY <1>5 DEF Max

(* A list stays a list of its kind when one of its elements is replaced. *)
LEMMA ReplaceInList ==
  ASSUME NEW T, NEW list \in Seq(T), NEW k \in DOMAIN list, NEW x \in T
  PROVE  /\ [list EXCEPT ![k] = x] \in Seq(T)
         /\ Len([list EXCEPT ![k] = x]) = Len(list)
         /\ DOMAIN [list EXCEPT ![k] = x] = DOMAIN list
OBVIOUS

(* createContact and addMessage keep a list of contacts, and the messages  *)
(* that are in it keep their places.                                       *)
LEMMA AddContact ==
  ASSUME NEW list \in Seq(Contact), NEW n \in String
  PROVE  /\ createContact(list, n) \in Seq(Contact)
         /\ Len(createContact(list, n)) = Len(list) + 1
         /\ createContact(list, n)[Len(list) + 1] = [nickname |-> n, messages |-> <<>>]
         /\ \A k \in 1 .. Len(list) : createContact(list, n)[k] = list[k]
<1>1. [nickname |-> n, messages |-> <<>>] \in Contact
  BY DEF Contact
<1> QED BY <1>1 DEF createContact

LEMMA AddedMessage ==
  ASSUME NEW list \in Seq(Contact), NEW k \in DOMAIN list, NEW t \in String,
         NEW own \in BOOLEAN, NEW state \in MessageState
  PROVE  LET new == addMessage(list, k, t, own, state)
         IN  /\ new \in Seq(Contact) /\ Len(new) = Len(list)
             /\ new[k].nickname = list[k].nickname
             /\ new[k].messages = Append(list[k].messages,
                           [text |-> t, sender |-> own, state |-> state])
             /\ \A j \in DOMAIN list : j # k => new[j] = list[j]
<1> DEFINE m == [text |-> t, sender |-> own, state |-> state]
           x == [list[k] EXCEPT !.messages = Append(@, m)]
<1>1. m \in Message
  BY DEF Message
<1>2. list[k] \in Contact
  OBVIOUS
<1> HIDE DEF m
<1>3. x \in Contact /\ x.nickname = list[k].nickname
      /\ x.messages = Append(list[k].messages, m)
  <2>1. /\ list[k].nickname \in String
        /\ Append(list[k].messages, m) \in Seq(Message)
    BY <1>1, <1>2 DEF Contact
  <2>2. ASSUME NEW r \in Contact, NEW ms \in Seq(Message)
        PROVE  [r EXCEPT !.messages = ms] \in Contact
               /\ [r EXCEPT !.messages = ms].nickname = r.nickname
               /\ [r EXCEPT !.messages = ms].messages = ms
    BY DEF Contact
  <2> QED BY <1>2, <2>1, <2>2
<1>4. addMessage(list, k, t, own, state) = [list EXCEPT ![k] = x]
  BY DEF addMessage, m
<1> HIDE DEF x
<1>5. [list EXCEPT ![k] = x] \in Seq(Contact) /\ Len([list EXCEPT ![k] = x]) = Len(list)
  BY <1>3, ReplaceInList
<1> QED BY <1>3, <1>4, <1>5 DEF m

(* The places of the messages in a list of contacts, and what is there *)
Places(list) ==
  {km \in Thread : km[1] \in DOMAIN list /\ km[2] \in DOMAIN list[km[1]].messages}

At(list, km) == list[km[1]].messages[km[2]]

(* What is in the list keeps its place; the state of a message may change *)
Extends(old, new) ==
  /\ Places(old) \subseteq Places(new)
  /\ \A k \in DOMAIN old : k \in DOMAIN new /\ new[k].nickname = old[k].nickname
  /\ \A km \in Places(old) : /\ At(new, km).text = At(old, km).text
                             /\ At(new, km).sender = At(old, km).sender

LEMMA ExtendsTransitive ==
  ASSUME NEW a, NEW b, NEW d, Extends(a, b), Extends(b, d)
  PROVE  Extends(a, d)
BY DEF Extends

(* createContact adds no message. *)
LEMMA ContactExtends ==
  ASSUME NEW list \in Seq(Contact), NEW n \in String
  PROVE  LET new == createContact(list, n)
         IN  Extends(list, new) /\ Places(new) = Places(list)
<1> DEFINE new == createContact(list, n)
<1>1. /\ new \in Seq(Contact) /\ Len(new) = Len(list) + 1
      /\ new[Len(list) + 1] = [nickname |-> n, messages |-> <<>>]
      /\ \A k \in 1 .. Len(list) : new[k] = list[k]
  BY AddContact
<1> HIDE DEF new
<1>0. new[Len(list) + 1].messages = <<>>
  BY <1>1
<1>2. DOMAIN new = DOMAIN list \cup {Len(list) + 1} /\ Len(list) + 1 \notin DOMAIN list
  BY <1>1
<1>3. Places(new) = Places(list)
  BY <1>0, <1>1, <1>2 DEF Places
<1>4. \A km \in Places(list) : At(new, km) = At(list, km)
  BY <1>1 DEF Places, At
<1> QED BY <1>1, <1>2, <1>3, <1>4 DEF Extends, new

(* addMessage adds one message, at the end of the history of contact k. *)
LEMMA MessageExtends ==
  ASSUME NEW list \in Seq(Contact), NEW k \in DOMAIN list, NEW t \in String,
         NEW own \in BOOLEAN, NEW state \in MessageState
  PROVE  LET new == addMessage(list, k, t, own, state)
             km == <<k, Len(list[k].messages) + 1>>
         IN  /\ Extends(list, new)
             /\ km \in Thread /\ km \notin Places(list)
             /\ Places(new) = Places(list) \cup {km}
             /\ At(new, km) = [text |-> t, sender |-> own, state |-> state]
<1> DEFINE new == addMessage(list, k, t, own, state)
           n == Len(list[k].messages) + 1
           m == [text |-> t, sender |-> own, state |-> state]
<1>1. /\ new \in Seq(Contact) /\ Len(new) = Len(list)
      /\ new[k].nickname = list[k].nickname
      /\ new[k].messages = Append(list[k].messages, m)
      /\ \A j \in DOMAIN list : j # k => new[j] = list[j]
  BY AddedMessage
<1> HIDE DEF new, m
<1>2. list[k].messages \in Seq(Message) /\ k \in Nat
  <2>1. list[k] \in Contact /\ k \in Nat
    OBVIOUS
  <2> QED BY <2>1 DEF Contact
<1>3. /\ n \in Nat /\ n \notin DOMAIN list[k].messages
      /\ DOMAIN new[k].messages = DOMAIN list[k].messages \cup {n}
      /\ new[k].messages[n] = m
      /\ \A i \in DOMAIN list[k].messages : new[k].messages[i] = list[k].messages[i]
  BY <1>1, <1>2
<1> HIDE DEF n
<1>4. DOMAIN new = DOMAIN list
  BY <1>1
<1>5. <<k, n>> \in Thread /\ <<k, n>> \notin Places(list)
  BY <1>2, <1>3 DEF Places, Thread
<1>6. Places(new) = Places(list) \cup {<<k, n>>}
  <2>1. ASSUME NEW x \in Thread
        PROVE  x \in Places(new) <=> x \in Places(list) \cup {<<k, n>>}
    <3>1. CASE x[1] = k
      BY <1>3, <1>4, <1>5, <3>1 DEF Places, Thread
    <3>2. CASE x[1] # k
      BY <1>1, <1>4, <3>2 DEF Places
    <3> QED BY <3>1, <3>2
  <2> QED BY <1>5, <2>1 DEF Places
<1>7. At(new, <<k, n>>) = m
  BY <1>3 DEF At
<1>8. ASSUME NEW x \in Places(list)
      PROVE  At(new, x) = At(list, x)
  <2>1. CASE x[1] = k
    BY <1>3, <2>1 DEF Places, At
  <2>2. CASE x[1] # k
    BY <1>1, <2>2 DEF Places, At
  <2> QED BY <2>1, <2>2
<1>9. \A j \in DOMAIN list : j \in DOMAIN new /\ new[j].nickname = list[j].nickname
  BY <1>1, <1>4
<1> QED BY <1>5, <1>6, <1>7, <1>8, <1>9 DEF Extends, new, m, n

(* The state of a message changes, and nothing else. *)
LEMMA StateExtends ==
  ASSUME NEW list \in Seq(Contact), NEW km \in Places(list), NEW state \in MessageState
  PROVE  LET new == [list EXCEPT ![km[1]].messages[km[2]].state = state]
         IN  /\ new \in Seq(Contact)
             /\ Extends(list, new) /\ Places(new) = Places(list)
<1> DEFINE k == km[1]
           n == km[2]
           ms == list[k].messages
           m == [ms[n] EXCEPT !.state = state]
           msNew == [ms EXCEPT ![n] = m]
           x == [list[k] EXCEPT !.messages = msNew]
           new == [list EXCEPT ![k] = x]
<1>1. k \in DOMAIN list /\ n \in DOMAIN ms /\ list[k] \in Contact
  BY DEF Places
<1>2. ms \in Seq(Message) /\ ms[n] \in Message
  BY <1>1 DEF Contact
<1>3. m \in Message /\ m.text = ms[n].text /\ m.sender = ms[n].sender
  BY <1>2 DEF Message
<1> HIDE DEF m
<1>4. /\ msNew \in Seq(Message) /\ DOMAIN msNew = DOMAIN ms /\ msNew[n] = m
      /\ \A j \in DOMAIN ms : j # n => msNew[j] = ms[j]
  BY <1>1, <1>2, <1>3
<1> HIDE DEF msNew
<1>5. x \in Contact /\ x.messages = msNew /\ x.nickname = list[k].nickname
  BY <1>1, <1>4 DEF Contact
<1> HIDE DEF x
<1>6. /\ new \in Seq(Contact) /\ DOMAIN new = DOMAIN list /\ new[k] = x
      /\ \A j \in DOMAIN list : j # k => new[j] = list[j]
  BY <1>1, <1>5, ReplaceInList
<1> HIDE DEF new
<1>7. \A y \in Thread : y \in Places(list) <=> y \in Places(new)
  <2> SUFFICES ASSUME NEW y \in Thread PROVE y \in Places(list) <=> y \in Places(new)
    OBVIOUS
  <2>1. CASE y[1] = k
    BY <1>1, <1>4, <1>5, <1>6, <2>1 DEF Places
  <2>2. CASE y[1] # k
    BY <1>6, <2>2 DEF Places
  <2> QED BY <2>1, <2>2
<1>8. Places(new) = Places(list)
  BY <1>7 DEF Places
<1>9. ASSUME NEW y \in Places(list)
      PROVE  At(new, y).text = At(list, y).text /\ At(new, y).sender = At(list, y).sender
  <2>1. CASE y[1] = k /\ y[2] = n
    BY <1>3, <1>4, <1>5, <1>6, <2>1 DEF At, Places
  <2>2. CASE y[1] = k /\ y[2] # n
    BY <1>4, <1>5, <1>6, <2>2 DEF At, Places
  <2>3. CASE y[1] # k
    BY <1>6, <2>3 DEF At, Places
  <2> QED BY <2>1, <2>2, <2>3
<1>10. \A j \in DOMAIN list : j \in DOMAIN new /\ new[j].nickname = list[j].nickname
  BY <1>1, <1>5, <1>6
<1>11. Extends(list, new)
  BY <1>8, <1>9, <1>10 DEF Extends
<1>12. new = [list EXCEPT ![km[1]].messages[km[2]].state = state]
  BY DEF new, x, msNew, m
<1> QED BY <1>6, <1>8, <1>11, <1>12

(* What handleNewMessage makes of the contacts: a message in a history of  *)
(* a contact with the sender's nickname when both fields can be read, and  *)
(* no contact under any other nickname.                                    *)
LEMMA NewMessage ==
  ASSUME NEW c \in Conn, contacts[c] \in Seq(Contact), readBuffer[c] \in Seq(Cell)
  PROVE  LET new == handleNewMessage(c)
         IN  /\ new \in Seq(Contact) /\ Extends(contacts[c], new)
             /\ newMessageStatus(c) # "OK" => Places(new) = Places(contacts[c])
             /\ newMessageStatus(c) = "OK" =>
                  \E km \in Thread \ Places(contacts[c]) :
                    /\ Places(new) = Places(contacts[c]) \cup {km}
                    /\ At(new, km) = [text |-> text(c), sender |-> FALSE,
                                      state |-> "SUCCESS"]
                    /\ new[km[1]].nickname = sender(c)
             /\ \A k \in DOMAIN new : \/ k \in DOMAIN contacts[c]
                                      \/ sender(c) # NULL /\ new[k].nickname = sender(c)
<1> DEFINE list == contacts[c]
           known == IF sender(c) = NULL \/ findContact(c, sender(c)) # NULL
                      THEN list ELSE createContact(list, sender(c))
           S == {j \in DOMAIN known : known[j].nickname = sender(c)}
           new == handleNewMessage(c)
<1>1. sender(c) \in String \cup {NULL} /\ text(c) \in String \cup {NULL}
  BY FieldString DEF sender, text
<1>2. /\ known \in Seq(Contact) /\ Extends(list, known) /\ Places(known) = Places(list)
      /\ \A k \in DOMAIN known : \/ k \in DOMAIN list
                                 \/ sender(c) # NULL /\ known[k].nickname = sender(c)
  <2>1. CASE sender(c) = NULL \/ findContact(c, sender(c)) # NULL
    BY <2>1 DEF Extends
  <2>2. CASE ~(sender(c) = NULL \/ findContact(c, sender(c)) # NULL)
    <3>1. known = createContact(list, sender(c)) /\ sender(c) \in String /\ sender(c) # NULL
      BY <1>1, <2>2
    <3>2. /\ known \in Seq(Contact) /\ Len(known) = Len(list) + 1
          /\ known[Len(list) + 1] = [nickname |-> sender(c), messages |-> <<>>]
      BY <3>1, AddContact
    <3>3. Extends(list, known) /\ Places(known) = Places(list)
      BY <3>1, ContactExtends
    <3> QED BY <3>1, <3>2, <3>3
  <2> QED BY <2>1, <2>2
<1>3. sender(c) # NULL => S # {}
  <2>1. CASE sender(c) # NULL /\ findContact(c, sender(c)) # NULL
    BY <2>1 DEF findContact
  <2>2. CASE sender(c) # NULL /\ findContact(c, sender(c)) = NULL
    <3>1. known = createContact(list, sender(c)) /\ sender(c) \in String
      BY <1>1, <2>2
    <3> HIDE DEF known
    <3>2. /\ known \in Seq(Contact) /\ Len(known) = Len(list) + 1
          /\ known[Len(list) + 1] = [nickname |-> sender(c), messages |-> <<>>]
      BY <3>1, AddContact
    <3>3. known[Len(list) + 1].nickname = sender(c)
      BY <3>2
    <3>4. Len(list) + 1 \in DOMAIN known
      BY <3>2
    <3> QED BY <3>3, <3>4
  <2> QED BY <2>1, <2>2
<1>4. new = IF newMessageStatus(c) = "OK"
              THEN addMessage(known, Max(S), text(c), FALSE, "SUCCESS") ELSE known
  BY DEF handleNewMessage
<1>5. CASE newMessageStatus(c) # "OK"
  BY <1>2, <1>4, <1>5
<1>6. CASE newMessageStatus(c) = "OK"
  <2>1. sender(c) # NULL /\ text(c) \in String
    BY <1>1, <1>6 DEF newMessageStatus
  <2> HIDE DEF known
  <2>2. Max(S) \in S
    <3>1. S \in SUBSET (1 .. Len(known)) /\ Len(known) \in Nat
      BY <1>2
    <3> QED BY <1>3, <2>1, <3>1, MaxExists
  <2> DEFINE k == Max(S)
             km == <<k, Len(known[k].messages) + 1>>
  <2>3. k \in DOMAIN known /\ known[k].nickname = sender(c)
    BY <2>2
  <2> HIDE DEF S, k
  <2>4. new = addMessage(known, k, text(c), FALSE, "SUCCESS")
    BY <1>4, <1>6 DEF k
  <2> HIDE DEF new
  <2>5. /\ Extends(known, new) /\ km \in Thread /\ km \notin Places(known)
        /\ Places(new) = Places(known) \cup {km}
        /\ At(new, km) = [text |-> text(c), sender |-> FALSE, state |-> "SUCCESS"]
    <3>1. FALSE \in BOOLEAN /\ "SUCCESS" \in MessageState
      BY DEF MessageState
    <3>2. known \in Seq(Contact) /\ k \in DOMAIN known /\ text(c) \in String
      BY <1>2, <2>1, <2>3
    <3> DEFINE added == addMessage(known, k, text(c), FALSE, "SUCCESS")
    <3>3. /\ Extends(known, added) /\ km \in Thread /\ km \notin Places(known)
          /\ Places(added) = Places(known) \cup {km}
          /\ At(added, km) = [text |-> text(c), sender |-> FALSE, state |-> "SUCCESS"]
      <4>1. PICK own \in BOOLEAN, state \in MessageState : own = FALSE /\ state = "SUCCESS"
        BY <3>1
      <4>2. LET new1 == addMessage(known, k, text(c), own, state)
            IN  /\ Extends(known, new1)
                /\ km \in Thread /\ km \notin Places(known)
                /\ Places(new1) = Places(known) \cup {km}
                /\ At(new1, km) = [text |-> text(c), sender |-> own, state |-> state]
        BY <3>2, MessageExtends
      <4> QED BY <4>1, <4>2
    <3> QED BY <2>4, <3>3
  <2>6. new \in Seq(Contact) /\ Len(new) = Len(known) /\ new[k].nickname = sender(c)
    BY <1>2, <2>1, <2>3, <2>4, AddedMessage DEF MessageState
  <2>7. Extends(list, new)
    BY <1>2, <2>5, ExtendsTransitive
  <2>8. \A j \in DOMAIN new : j \in DOMAIN known /\ new[j].nickname = known[j].nickname
    BY <1>2, <2>5, <2>6 DEF Extends
  <2>9. km[1] = k
    OBVIOUS
  <2> HIDE DEF km
  <2>10. /\ km \in Thread \ Places(list) /\ Places(new) = Places(list) \cup {km}
         /\ new[km[1]].nickname = sender(c)
    BY <1>2, <2>5, <2>6, <2>9
  <2> QED BY <1>2, <1>6, <2>5, <2>6, <2>7, <2>8, <2>10 DEF new
<1> QED BY <1>5, <1>6

(* The slot createRequest takes is a free one of the table. *)
LEMMA FreeSlot ==
  ASSUME NEW c \in Conn, HasFreeRequest(c)
  PROVE  FreeRequest(c) \in Id /\ pendingRequests[c][FreeRequest(c)] = NULL
<1>1. Id \ Live(c) \in SUBSET Nat /\ Id \ Live(c) # {}
  BY PacketsAssumption DEF HasFreeRequest, Live, Id
<1>2. Min(Id \ Live(c)) \in Id \ Live(c)
  BY <1>1, MinExists
<1> QED BY <1>2 DEF FreeRequest, Live

(* Clearing a packet leaves a buffer of cells. *)
LEMMA ClearedBuffer ==
  ASSUME NEW cells \in Seq(Cell), Complete(cells)
  PROVE  /\ Cleared(cells) \in Seq(Cell)
         /\ Len(Cleared(cells)) = Len(cells) - Size(cells[1].pkt)
<1> DEFINE s == Size(cells[1].pkt)
           n == Len(cells) - s
<1>1. s \in Nat \ {0} /\ n \in Nat /\ Len(cells) \in Nat
  BY FrontPacket, PacketCells DEF Complete
<1>2. \A j \in 1 .. n : IF j <= s THEN cells[j + s] \in Cell ELSE cells[j] \in Cell
  BY <1>1
<1>3. Cleared(cells) = [j \in 1 .. n |-> IF j <= s THEN cells[j + s] ELSE cells[j]]
  BY DEF Cleared
<1> HIDE DEF n, s
<1>4. Cleared(cells) \in [1 .. n -> Cell]
  BY <1>2, <1>3
<1>5. Cleared(cells) \in Seq(Cell)
  BY <1>1, <1>4, SeqDef
<1>6. Len(Cleared(cells)) = n
  BY <1>1, <1>4, <1>5
<1> QED BY <1>5, <1>6 DEF n, s

-----------------------------------------------------------------------------
(* The invariant of the clients *)

(* A message thread points to a message of a contact *)
ThreadsHaveMessages ==
  \A c \in Conn : threads[c] \subseteq Places(contacts[c])

(* The socket thread handles whole packets *)
PacketsComplete == \A c \in Conn : rx[c] = "packet" => Complete(readBuffer[c])

(* The server does not send what a socket cannot hold *)
StreamsFit == \A c \in Conn : Len(toClient[c]) <= SockBuf

ClientInv ==
  ClientTypeOK /\ ThreadsHaveMessages /\ PacketsComplete /\ StreamsFit

SystemInv == IInv /\ ClientInv

(* What the environment of the server's specification may do on c *)
Environment(c) ==
  \/ pc # "exited" /\ Connect(c)
  \/ \E p \in ClientPackets : ClientSend(c, p)
  \/ \E k \in 1 .. SockBuf : ClientRecv(c, k)
  \/ ClientClose(c)
  \/ UNCHANGED netVars

(* A step of a client does to the network what the environment may do. *)
LEMMA ClientIsEnvironment ==
  ASSUME SystemInv, NEW c \in Conn,
         (pc # "exited" /\ StartClient(c)) \/ ClientStep(c)
  PROVE  Environment(c)
<1>1. ClientTypeOK /\ ThreadsHaveMessages /\ PacketsComplete /\ StreamsFit
      /\ toClient \in [Conn -> Seq(Cell)]
  BY DEF SystemInv, ClientInv, IInv, ServerTypeOK, NetTypeOK
<1>2. CASE pc # "exited" /\ StartClient(c)
  BY <1>2 DEF StartClient, Environment
<1>3. ASSUME End(c) PROVE Environment(c)
  BY <1>3 DEF End, Environment
<1>4. ASSUME NEW n \in Name, logIn(c, n) \/ createChat(c, n) PROVE Environment(c)
  <2>1. FreeRequest(c) \in Id
    BY <1>4, FreeSlot DEF logIn, createChat
  <2> QED BY <1>4, <2>1 DEF logIn, createChat, Environment, ClientPackets
<1>5. ASSUME NEW k, NEW t, sendMessage(c, k, t) PROVE Environment(c)
  BY <1>5 DEF sendMessage, Environment
<1>6. ASSUME NEW i, LogInAnswered(c, i) PROVE Environment(c)
  BY <1>3, <1>6 DEF LogInAnswered, Environment, netVars
<1>7. ASSUME NEW i, CreateChatAnswered(c, i) \/ MessageAnswered(c, i)
      PROVE  Environment(c)
  BY <1>7 DEF CreateChatAnswered, MessageAnswered, Environment, netVars
<1>8. ASSUME NEW th \in threads[c], SendRequest(c, th) PROVE Environment(c)
  <2>1. CASE HasFreeRequest(c)
    <3> DEFINE contact == contacts[c][th[1]]
               p == MessageRequest(contact.nickname, contact.messages[th[2]].text,
                                   FreeRequest(c))
    <3>1. ClientSend(c, p)
      BY <1>8, <2>1 DEF SendRequest
    <3>2. contact \in Contact /\ th[2] \in DOMAIN contact.messages
      BY <1>1 DEF ThreadsHaveMessages, ClientTypeOK, Places
    <3>3. contact.nickname \in String /\ contact.messages[th[2]] \in Message
      BY <3>2 DEF Contact
    <3>4. p \in ClientPackets
      BY <2>1, <3>3, FreeSlot DEF Message, ClientPackets
    <3> QED BY <3>1, <3>4 DEF Environment
  <2>2. CASE ~HasFreeRequest(c)
    BY <1>8, <2>2 DEF SendRequest, Environment, netVars
  <2> QED BY <2>1, <2>2
<1>9. ASSUME NEW k \in 1 .. MemSize, Receive(c, k) PROVE Environment(c)
  <2>1. ClientRecv(c, k)
    BY <1>9 DEF Receive
  <2>2. k \in 1 .. SockBuf
    BY <1>1, <2>1, NetworkAssumption DEF ClientRecv, StreamsFit
  <2> QED BY <2>1, <2>2 DEF Environment
<1>10. ASSUME HandleDelivery(c) PROVE Environment(c)
  <2>1. ClientSend(c, DeliveryRespond(newMessageStatus(c)))
    BY <1>10 DEF HandleDelivery
  <2>2. DeliveryRespond(newMessageStatus(c)) \in ClientPackets
    BY DEF newMessageStatus, ClientPackets
  <2> QED BY <2>1, <2>2 DEF Environment
<1>11. ASSUME ReceiveNothing(c) \/ HandleRespond(c) \/ DropRespond(c)
       PROVE  Environment(c)
  BY <1>11 DEF ReceiveNothing, HandleRespond, DropRespond, Environment, netVars
<1>12. CASE ClientStep(c)
  <2>1. CASE UserStep(c)
    BY <2>1, <1>3, <1>4, <1>5 DEF UserStep, Quit
  <2>2. CASE MainStep(c) \/ ThreadStep(c)
    BY <2>2, <1>6, <1>7, <1>8 DEF MainStep, ThreadStep
  <2>3. CASE SocketStep(c)
    BY <2>3, <1>3, <1>9, <1>10, <1>11 DEF SocketStep, Crash
  <2>4. CASE SendFails(c)
    BY <2>4, <1>3 DEF SendFails
  <2> QED BY <1>12, <2>1, <2>2, <2>3, <2>4 DEF ClientStep
<1> QED BY <1>2, <1>12

(* A step of the system is a step of the server's specification or changes *)
(* nothing of it.                                                          *)
LEMMA SystemStepIsServerStep == SystemInv /\ [SystemNext]_systemVars => [Next]_vars
<1> SUFFICES ASSUME SystemInv, [SystemNext]_systemVars
             PROVE  [Next]_vars
  OBVIOUS
<1>1. CASE ServerStep
  BY <1>1 DEF ServerStep, Next
<1>2. CASE ClientsStep
  <2>1. PICK c \in Conn : (pc # "exited" /\ StartClient(c)) \/ ClientStep(c)
    BY <1>2 DEF ClientsStep
  <2>2. Environment(c) /\ UNCHANGED serverVars
    BY <1>2, <2>1, ClientIsEnvironment DEF ClientsStep
  <2>3. CASE UNCHANGED netVars
    BY <2>2, <2>3 DEF vars
  <2>4. CASE ~UNCHANGED netVars
    <3>1. AnyClient
      BY <2>2, <2>4, SystemAssumption DEF Environment, AnyClient
    <3> QED BY <3>1 DEF Next
  <2> QED BY <2>3, <2>4
<1>3. CASE UNCHANGED systemVars
  BY <1>3 DEF systemVars
<1> QED BY <1>1, <1>2, <1>3 DEF SystemNext

-----------------------------------------------------------------------------
(* The steps of the clients keep their invariant *)

(* The types of what a client's step starts from *)
LEMMA ClientFacts ==
  ASSUME SystemInv, NEW c \in Conn
  PROVE  /\ ClientTypeOK /\ ThreadsHaveMessages /\ PacketsComplete /\ StreamsFit
         /\ toClient \in [Conn -> Seq(Cell)] /\ toClient[c] \in Seq(Cell)
         /\ contacts[c] \in Seq(Contact) /\ readBuffer[c] \in Seq(Cell)
         /\ threads[c] \subseteq Places(contacts[c]) /\ threads[c] \subseteq Thread
         /\ pendingRequests[c] \in [Id -> PendingRequest \cup {NULL}]
BY DEF SystemInv, ClientInv, IInv, ServerTypeOK, NetTypeOK, ClientTypeOK,
       ThreadsHaveMessages

(* Threads and buffers that stay, with contacts that keep their messages *)
LEMMA ThreadsKept ==
  ASSUME ClientTypeOK, ThreadsHaveMessages, NEW c \in Conn, NEW list,
         contacts' = [contacts EXCEPT ![c] = list],
         Places(contacts[c]) \subseteq Places(list),
         \A d \in Conn : threads'[d] \subseteq threads[d]
  PROVE  ThreadsHaveMessages'
<1> SUFFICES ASSUME NEW d \in Conn
             PROVE  threads'[d] \subseteq Places(contacts'[d])
  BY DEF ThreadsHaveMessages
<1>1. threads'[d] \subseteq Places(contacts[d])
  BY DEF ThreadsHaveMessages
<1>2. contacts'[d] = IF d = c THEN list ELSE contacts[d]
  BY DEF ClientTypeOK
<1> QED BY <1>1, <1>2

(* The end of a client, whatever ends it *)
LEMMA EndStep ==
  ASSUME SystemInv, NEW c \in Conn, End(c)
  PROVE  ClientInv'
<1>1. /\ ClientTypeOK /\ ThreadsHaveMessages /\ PacketsComplete /\ StreamsFit
      /\ toClient \in [Conn -> Seq(Cell)]
  BY ClientFacts
<1>2. /\ toClient' = [toClient EXCEPT ![c] = <<>>]
      /\ ui' = [ui EXCEPT ![c] = "ended"]
      /\ threads' = [threads EXCEPT ![c] = {}]
      /\ pendingRequests' = [pendingRequests EXCEPT ![c] = [i \in Id |-> NULL]]
      /\ readBuffer' = [readBuffer EXCEPT ![c] = <<>>]
      /\ rx' = [rx EXCEPT ![c] = "recv"]
      /\ rxRequest' = [rxRequest EXCEPT ![c] = NULL]
      /\ UNCHANGED <<wanted, contacts, typed, misplaced>>
  BY DEF End, ClientClose
<1>3. ClientTypeOK'
  <2>1. <<>> \in Seq(Cell) /\ [i \in Id |-> NULL] \in [Id -> PendingRequest \cup {NULL}]
    OBVIOUS
  <2>2. /\ readBuffer' \in [Conn -> Seq(Cell)]
        /\ pendingRequests' \in [Conn -> [Id -> PendingRequest \cup {NULL}]]
    BY <1>1, <1>2, <2>1 DEF ClientTypeOK
  <2> QED BY <1>1, <1>2, <2>2 DEF ClientTypeOK
<1>4. ThreadsHaveMessages'
  BY <1>1, <1>2 DEF ThreadsHaveMessages, ClientTypeOK
<1>5. PacketsComplete'
  BY <1>1, <1>2 DEF PacketsComplete, ClientTypeOK
<1>6. StreamsFit'
  BY <1>1, <1>2, NetworkAssumption DEF StreamsFit
<1> QED BY <1>3, <1>4, <1>5, <1>6 DEF ClientInv

(* The request a client puts into a free slot of its table *)
LEMMA CreatedRequest ==
  ASSUME ClientTypeOK, NEW c \in Conn, HasFreeRequest(c), NEW owner \in Thread,
         createRequest(c, owner)
  PROVE  pendingRequests' \in [Conn -> [Id -> PendingRequest \cup {NULL}]]
<1> DEFINE r == [owner |-> owner, data |-> NULL, event |-> FALSE]
<1>1. r \in PendingRequest
  BY DEF PendingRequest
<1>2. FreeRequest(c) \in Id
  BY FreeSlot
<1> HIDE DEF r
<1>3. [pendingRequests[c] EXCEPT ![FreeRequest(c)] = r]
        \in [Id -> PendingRequest \cup {NULL}]
  BY <1>1, <1>2 DEF ClientTypeOK
<1>4. pendingRequests' = [pendingRequests EXCEPT ![c] =
                            [pendingRequests[c] EXCEPT ![FreeRequest(c)] = r]]
  BY DEF createRequest, r
<1> QED BY <1>3, <1>4 DEF ClientTypeOK

(* The table and the socket thread's pointer after a request is freed *)
LEMMA DeletedRequest ==
  ASSUME ClientTypeOK, NEW c \in Conn, NEW i \in Id, deleteRequest(c, i)
  PROVE  /\ pendingRequests' \in [Conn -> [Id -> PendingRequest \cup {NULL}]]
         /\ rxRequest' \in [Conn -> Id \cup {NULL, FREED}]
<1>1. [pendingRequests[c] EXCEPT ![i] = NULL] \in [Id -> PendingRequest \cup {NULL}]
  BY DEF ClientTypeOK
<1>2. pendingRequests' = [pendingRequests EXCEPT ![c] =
                            [pendingRequests[c] EXCEPT ![i] = NULL]]
  BY DEF deleteRequest
<1>3. rxRequest[c] \in Id \cup {NULL, FREED}
  BY DEF ClientTypeOK
<1> QED BY <1>1, <1>2, <1>3 DEF deleteRequest, ClientTypeOK

(* What the main thread does: it starts, logs in, asks for a chat and is   *)
(* answered.                                                               *)
LEMMA MainThreadStep ==
  ASSUME SystemInv, NEW c \in Conn,
         \/ StartClient(c)
         \/ \E n \in Name : logIn(c, n) \/ createChat(c, n)
         \/ \E i \in Id : LogInAnswered(c, i) \/ CreateChatAnswered(c, i)
  PROVE  ClientInv'
<1>1. /\ ClientTypeOK /\ ThreadsHaveMessages /\ PacketsComplete /\ StreamsFit
      /\ contacts[c] \in Seq(Contact)
  BY ClientFacts
<1>2. ASSUME UNCHANGED <<contacts, threads>>
      PROVE  ThreadsHaveMessages'
  BY <1>1, <1>2 DEF ThreadsHaveMessages
<1>3. ASSUME UNCHANGED <<readBuffer, rx>>
      PROVE  PacketsComplete'
  BY <1>1, <1>3 DEF PacketsComplete
<1>4. ASSUME UNCHANGED toClient
      PROVE  StreamsFit'
  BY <1>1, <1>4 DEF StreamsFit
<1>5. MAIN \in Thread
  BY DEF MAIN, Thread
<1>6. CASE StartClient(c)
  <2>1. ClientTypeOK'
    BY <1>1, <1>6 DEF StartClient, ClientTypeOK
  <2> QED BY <1>2, <1>3, <1>4, <1>6, <2>1 DEF StartClient, Connect, ClientInv
<1>7. ASSUME NEW n \in Name, logIn(c, n)
      PROVE  ClientInv'
  <2>1. pendingRequests' \in [Conn -> [Id -> PendingRequest \cup {NULL}]]
    BY <1>1, <1>5, <1>7, CreatedRequest DEF logIn
  <2>2. ClientTypeOK'
    BY <1>1, <1>7, <2>1 DEF logIn, ClientTypeOK
  <2> QED BY <1>2, <1>3, <1>4, <1>7, <2>2 DEF logIn, ClientSend, ClientInv
<1>8. ASSUME NEW n \in Name, createChat(c, n)
      PROVE  ClientInv'
  <2>1. pendingRequests' \in [Conn -> [Id -> PendingRequest \cup {NULL}]]
    BY <1>1, <1>5, <1>8, CreatedRequest DEF createChat
  <2>2. ClientTypeOK'
    BY <1>1, <1>8, <2>1 DEF createChat, ClientTypeOK
  <2> QED BY <1>2, <1>3, <1>4, <1>8, <2>2 DEF createChat, ClientSend, ClientInv
<1>9. ASSUME NEW i \in Id, LogInAnswered(c, i)
      PROVE  ClientInv'
  <2>1. CASE End(c)
    BY <2>1, EndStep
  <2>2. CASE ~End(c)
    <3>1. /\ deleteRequest(c, i) /\ ui' = [ui EXCEPT ![c] = "menu"]
          /\ UNCHANGED <<netVars, wanted, contacts, typed, threads, readBuffer, rx,
                         misplaced>>
      BY <1>9, <2>2 DEF LogInAnswered
    <3>2. ClientTypeOK'
      BY <1>1, <3>1, DeletedRequest DEF ClientTypeOK
    <3> QED BY <1>2, <1>3, <1>4, <3>1, <3>2 DEF netVars, ClientInv
  <2> QED BY <2>1, <2>2
<1>10. ASSUME NEW i \in Id, CreateChatAnswered(c, i)
       PROVE  ClientInv'
  <2>1. /\ deleteRequest(c, i) /\ ui' = [ui EXCEPT ![c] = "menu"]
        /\ UNCHANGED <<netVars, wanted, typed, threads, readBuffer, rx, misplaced>>
        /\ \/ contacts' = [contacts EXCEPT ![c] = createContact(@, wanted[c])]
           \/ contacts' = contacts
    BY <1>10 DEF CreateChatAnswered
  <2> DEFINE list == createContact(contacts[c], wanted[c])
  <2>2. wanted[c] \in String
    BY <1>1 DEF ClientTypeOK, String
  <2>3. list \in Seq(Contact) /\ Places(list) = Places(contacts[c])
    BY <1>1, <2>2, AddContact, ContactExtends
  <2>4. contacts' = [contacts EXCEPT ![c] = list] \/ contacts' = contacts
    BY <2>1
  <2> HIDE DEF list
  <2>5. contacts' \in [Conn -> Seq(Contact)]
    BY <1>1, <2>3, <2>4 DEF ClientTypeOK
  <2>6. ThreadsHaveMessages'
    BY <1>1, <1>2, <2>1, <2>3, <2>4, ThreadsKept
  <2>7. ClientTypeOK'
    BY <1>1, <2>1, <2>5, DeletedRequest DEF ClientTypeOK
  <2> QED BY <1>3, <1>4, <2>1, <2>6, <2>7 DEF netVars, ClientInv
<1> QED BY <1>6, <1>7, <1>8, <1>9, <1>10

(* sendMessage adds a message of the user's, and a thread that points to it *)
LEMMA UserMessage ==
  ASSUME SystemInv, NEW c \in Conn, NEW k \in DOMAIN contacts[c], NEW t \in Text,
         sendMessage(c, k, t)
  PROVE  LET km == <<k, Len(contacts[c][k].messages) + 1>>
         IN  /\ contacts'[c] \in Seq(Contact) /\ Extends(contacts[c], contacts'[c])
             /\ \A d \in Conn : d # c => contacts'[d] = contacts[d]
             /\ contacts' \in [Conn -> Seq(Contact)]
             /\ km \in Thread /\ km \notin Places(contacts[c])
             /\ Places(contacts'[c]) = Places(contacts[c]) \cup {km}
             /\ At(contacts'[c], km) = [text |-> t, sender |-> TRUE, state |-> "PENDING"]
             /\ threads' = [threads EXCEPT ![c] = @ \cup {km}]
<1>1. ClientTypeOK /\ contacts[c] \in Seq(Contact)
  BY ClientFacts
<1> DEFINE km == <<k, Len(contacts[c][k].messages) + 1>>
           list == addMessage(contacts[c], k, t, TRUE, "PENDING")
<1>2. /\ contacts' = [contacts EXCEPT ![c] = list]
      /\ threads' = [threads EXCEPT ![c] = @ \cup {km}]
  BY DEF sendMessage
<1>3. PICK own \in BOOLEAN, state \in MessageState : own = TRUE /\ state = "PENDING"
  BY DEF MessageState
<1>4. t \in String
  BY DEF String
<1>5. LET new == addMessage(contacts[c], k, t, own, state)
      IN  /\ new \in Seq(Contact) /\ Extends(contacts[c], new)
          /\ km \in Thread /\ km \notin Places(contacts[c])
          /\ Places(new) = Places(contacts[c]) \cup {km}
          /\ At(new, km) = [text |-> t, sender |-> own, state |-> state]
  BY <1>1, <1>4, MessageExtends, AddedMessage
<1>6. /\ list \in Seq(Contact) /\ Extends(contacts[c], list)
      /\ km \in Thread /\ km \notin Places(contacts[c])
      /\ Places(list) = Places(contacts[c]) \cup {km}
      /\ At(list, km) = [text |-> t, sender |-> TRUE, state |-> "PENDING"]
  BY <1>3, <1>5
<1> HIDE DEF list, km
<1>7. /\ contacts'[c] = list /\ contacts' \in [Conn -> Seq(Contact)]
      /\ \A d \in Conn : d # c => contacts'[d] = contacts[d]
  BY <1>1, <1>2, <1>6 DEF ClientTypeOK
<1> QED BY <1>2, <1>6, <1>7 DEF km

(* The thread of an answered message ends, and its message gets a state *)
LEMMA AnsweredMessage ==
  ASSUME SystemInv, NEW c \in Conn, NEW i \in Id, MessageAnswered(c, i)
  PROVE  /\ contacts' \in [Conn -> Seq(Contact)]
         /\ \A d \in Conn : /\ Extends(contacts[d], contacts'[d])
                            /\ Places(contacts'[d]) = Places(contacts[d])
         /\ \E th \in threads[c] : /\ Answered(c, i, th)
                                   /\ threads' = [threads EXCEPT ![c] = @ \ {th}]
<1>1. /\ ClientTypeOK /\ contacts[c] \in Seq(Contact)
      /\ threads[c] \subseteq Places(contacts[c])
  BY ClientFacts
<1>2. PICK th \in threads[c] :
        /\ Answered(c, i, th)
        /\ threads' = [threads EXCEPT ![c] = @ \ {th}]
        /\ \/ \E status \in Statuses(c, i) :
                contacts' = [contacts EXCEPT ![c][th[1]].messages[th[2]].state =
                               stateOf(status)]
           \/ UNCHANGED contacts
  BY DEF MessageAnswered
<1>3. CASE UNCHANGED contacts
  BY <1>1, <1>2, <1>3 DEF ClientTypeOK, Extends
<1>4. ASSUME NEW status \in Statuses(c, i),
             contacts' = [contacts EXCEPT ![c][th[1]].messages[th[2]].state =
                            stateOf(status)]
      PROVE  /\ contacts' \in [Conn -> Seq(Contact)]
             /\ \A d \in Conn : /\ Extends(contacts[d], contacts'[d])
                                /\ Places(contacts'[d]) = Places(contacts[d])
  <2> DEFINE list == [contacts[c] EXCEPT ![th[1]].messages[th[2]].state =
                        stateOf(status)]
  <2>1. contacts' = [contacts EXCEPT ![c] = list]
    BY <1>4
  <2>2. stateOf(status) \in MessageState
    BY DEF stateOf, MessageState
  <2>3. /\ list \in Seq(Contact) /\ Extends(contacts[c], list)
        /\ Places(list) = Places(contacts[c])
    BY <1>1, <2>2, StateExtends
  <2> HIDE DEF list
  <2>4. contacts' \in [Conn -> Seq(Contact)] /\ contacts'[c] = list
        /\ \A d \in Conn : d # c => contacts'[d] = contacts[d]
    BY <1>1, <2>1, <2>3 DEF ClientTypeOK
  <2>5. \A d \in Conn : Extends(contacts[d], contacts[d])
    BY DEF Extends
  <2> QED BY <2>3, <2>4, <2>5
<1> QED BY <1>2, <1>3, <1>4

(* What the users and the message threads do with messages *)
LEMMA MessageThreadStep ==
  ASSUME SystemInv, NEW c \in Conn,
         \/ \E k \in DOMAIN contacts[c], t \in Text : sendMessage(c, k, t)
         \/ \E th \in threads[c] : SendRequest(c, th)
         \/ \E i \in Id : MessageAnswered(c, i)
  PROVE  ClientInv'
<1>1. /\ ClientTypeOK /\ ThreadsHaveMessages /\ PacketsComplete /\ StreamsFit
      /\ contacts[c] \in Seq(Contact) /\ threads[c] \subseteq Thread
  BY ClientFacts
<1>2. UNCHANGED <<readBuffer, rx, toClient>>
  BY DEF sendMessage, SendRequest, MessageAnswered, netVars, ClientSend
<1>3. PacketsComplete' /\ StreamsFit'
  BY <1>1, <1>2 DEF PacketsComplete, StreamsFit
<1>4. ASSUME NEW k \in DOMAIN contacts[c], NEW t \in Text, sendMessage(c, k, t)
      PROVE  ClientTypeOK' /\ ThreadsHaveMessages'
  <2> DEFINE km == <<k, Len(contacts[c][k].messages) + 1>>
  <2>1. /\ contacts' \in [Conn -> Seq(Contact)] /\ km \in Thread
        /\ \A d \in Conn : d # c => contacts'[d] = contacts[d]
        /\ Places(contacts'[c]) = Places(contacts[c]) \cup {km}
        /\ threads' = [threads EXCEPT ![c] = @ \cup {km}]
    BY <1>4, UserMessage
  <2>2. /\ typed' = [typed EXCEPT ![c] = @ \cup {t}]
        /\ UNCHANGED <<ui, wanted, pendingRequests, readBuffer, rx, rxRequest, misplaced>>
    BY <1>4 DEF sendMessage
  <2> HIDE DEF km
  <2>3. ClientTypeOK'
    BY <1>1, <2>1, <2>2 DEF ClientTypeOK
  <2>4. ThreadsHaveMessages'
    BY <1>1, <2>1 DEF ThreadsHaveMessages, ClientTypeOK
  <2> QED BY <2>3, <2>4
<1>5. ASSUME NEW th \in threads[c], SendRequest(c, th)
      PROVE  ClientTypeOK' /\ ThreadsHaveMessages'
  <2>1. /\ UNCHANGED <<ui, wanted, contacts, typed, readBuffer, rx, rxRequest, misplaced>>
        /\ \/ HasFreeRequest(c) /\ createRequest(c, th) /\ UNCHANGED threads
           \/ threads' = [threads EXCEPT ![c] = @ \ {th}] /\ UNCHANGED pendingRequests
    BY <1>5 DEF SendRequest
  <2>2. pendingRequests' \in [Conn -> [Id -> PendingRequest \cup {NULL}]]
    BY <1>1, <2>1, CreatedRequest DEF ClientTypeOK
  <2>3. threads' \in [Conn -> SUBSET Thread] /\ \A d \in Conn : threads'[d] \subseteq threads[d]
    BY <1>1, <2>1 DEF ClientTypeOK
  <2>4. ClientTypeOK'
    BY <1>1, <2>1, <2>2, <2>3 DEF ClientTypeOK
  <2> QED BY <1>1, <2>1, <2>3, <2>4 DEF ThreadsHaveMessages
<1>6. ASSUME NEW i \in Id, MessageAnswered(c, i)
      PROVE  ClientTypeOK' /\ ThreadsHaveMessages'
  <2>1. /\ contacts' \in [Conn -> Seq(Contact)]
        /\ \A d \in Conn : Places(contacts'[d]) = Places(contacts[d])
    BY <1>6, AnsweredMessage
  <2>2. PICK th \in threads[c] : threads' = [threads EXCEPT ![c] = @ \ {th}]
    BY <1>6, AnsweredMessage
  <2>3. deleteRequest(c, i) /\ UNCHANGED <<ui, wanted, typed, readBuffer, rx, misplaced>>
    BY <1>6 DEF MessageAnswered
  <2>4. threads' \in [Conn -> SUBSET Thread] /\ \A d \in Conn : threads'[d] \subseteq threads[d]
    BY <1>1, <2>2 DEF ClientTypeOK
  <2>5. ClientTypeOK'
    BY <1>1, <2>1, <2>3, <2>4, DeletedRequest DEF ClientTypeOK
  <2> QED BY <1>1, <2>1, <2>4, <2>5 DEF ThreadsHaveMessages
<1> QED BY <1>3, <1>4, <1>5, <1>6 DEF ClientInv

(* recv() moves cells from the stream to the buffer *)
LEMMA ReceivedCells ==
  ASSUME SystemInv, NEW c \in Conn, NEW k \in 1 .. MemSize, Receive(c, k)
  PROVE  LET cells == readBuffer[c] \o SubSeq(toClient[c], 1, k)
         IN  /\ k \in 1 .. Len(toClient[c])
             /\ cells \in Seq(Cell)
             /\ Drop(toClient[c], k) \in Seq(Cell)
             /\ Len(Drop(toClient[c], k)) = Len(toClient[c]) - k
<1>1. /\ toClient[c] \in Seq(Cell) /\ readBuffer[c] \in Seq(Cell)
      /\ k \in 1 .. Len(toClient[c]) /\ k \in 0 .. Len(toClient[c]) /\ k \in Nat
  BY ClientFacts DEF Receive, ClientRecv
<1>2. SubSeq(toClient[c], 1, k) \in Seq(Cell) /\ Drop(toClient[c], k) \in Seq(Cell)
  BY <1>1, StreamStart, StreamDrop
<1>3. Len(Drop(toClient[c], k)) = Len(toClient[c]) - k
  <2>1. \A i \in k + 1 .. Len(toClient[c]) : toClient[c][i] \in Cell
    BY <1>1
  <2> QED BY <1>1, <2>1, SubSeqProperties DEF Drop
<1> QED BY <1>1, <1>2, <1>3, ConcatProperties

(* The rest of a buffer after a respond nobody has waited for *)
LEMMA DroppedBuffer ==
  ASSUME NEW cells \in Seq(Cell), Complete(cells)
  PROVE  SubSeq(cells, 1, Len(cells) - Size(cells[1].pkt)) \in Seq(Cell)
<1>1. Len(cells) - Size(cells[1].pkt) \in 0 .. Len(cells)
  BY FrontPacket, PacketCells DEF Complete
<1> QED BY <1>1, StreamStart

(* writeToRequest keeps the table of requests *)
LEMMA WrittenRequest ==
  ASSUME ClientTypeOK, NEW c \in Conn, NEW p \in Packet,
         pendingRequests[c][p.id] # NULL, writeToRequest(c, p)
  PROVE  pendingRequests' \in [Conn -> [Id -> PendingRequest \cup {NULL}]]
<1> DEFINE i == p.id
           r == [pendingRequests[c][i] EXCEPT !.data = p, !.event = TRUE]
<1>1. i \in Id
  BY DEF Packet
<1>2. pendingRequests[c][i] \in PendingRequest
  BY <1>1 DEF ClientTypeOK
<1>3. r \in PendingRequest
  BY <1>2 DEF PendingRequest
<1>4. pendingRequests' = [pendingRequests EXCEPT ![c] = [pendingRequests[c] EXCEPT ![i] = r]]
  BY <1>1 DEF writeToRequest, ClientTypeOK
<1> HIDE DEF r
<1>5. [pendingRequests[c] EXCEPT ![i] = r] \in [Id -> PendingRequest \cup {NULL}]
  BY <1>1, <1>3 DEF ClientTypeOK
<1> QED BY <1>4, <1>5 DEF ClientTypeOK

(* The event that the delivery path sets keeps the table of requests *)
LEMMA StaleEvent ==
  ASSUME ClientTypeOK, NEW c \in Conn, StaleSetEvent(c)
  PROVE  pendingRequests' \in [Conn -> [Id -> PendingRequest \cup {NULL}]]
<1>1. CASE UNCHANGED pendingRequests
  BY <1>1 DEF ClientTypeOK
<1>2. ASSUME NEW i \in Live(c),
             pendingRequests' = [pendingRequests EXCEPT ![c][i].event = TRUE]
      PROVE  pendingRequests' \in [Conn -> [Id -> PendingRequest \cup {NULL}]]
  <2> DEFINE r == [pendingRequests[c][i] EXCEPT !.event = TRUE]
  <2>1. i \in Id /\ pendingRequests[c][i] \in PendingRequest
    BY DEF Live, ClientTypeOK
  <2>2. r \in PendingRequest
    BY <2>1 DEF PendingRequest
  <2>3. pendingRequests' = [pendingRequests EXCEPT ![c] = [pendingRequests[c] EXCEPT ![i] = r]]
    BY <1>2
  <2> HIDE DEF r
  <2>4. [pendingRequests[c] EXCEPT ![i] = r] \in [Id -> PendingRequest \cup {NULL}]
    BY <2>1, <2>2 DEF ClientTypeOK
  <2> QED BY <2>3, <2>4 DEF ClientTypeOK
<1> QED BY <1>1, <1>2 DEF StaleSetEvent

(* What the socket thread does *)
LEMMA SocketThreadStep ==
  ASSUME SystemInv, NEW c \in Conn, SocketStep(c)
  PROVE  ClientInv'
<1>1. /\ ClientTypeOK /\ ThreadsHaveMessages /\ PacketsComplete /\ StreamsFit
      /\ contacts[c] \in Seq(Contact) /\ readBuffer[c] \in Seq(Cell)
      /\ toClient \in [Conn -> Seq(Cell)]
  BY ClientFacts
<1>2. ASSUME UNCHANGED <<contacts, threads>>
      PROVE  ThreadsHaveMessages'
  BY <1>1, <1>2 DEF ThreadsHaveMessages
<1>3. ASSUME UNCHANGED toClient
      PROVE  StreamsFit'
  BY <1>1, <1>3 DEF StreamsFit
<1>4. ASSUME NEW cells, readBuffer' = [readBuffer EXCEPT ![c] = cells],
             NEW where, rx' = [rx EXCEPT ![c] = where],
             where = "packet" => Complete(cells)
      PROVE  PacketsComplete'
  BY <1>1, <1>4 DEF PacketsComplete, ClientTypeOK
<1>5. ASSUME NEW k \in 1 .. MemSize, Receive(c, k)
      PROVE  ClientInv'
  <2> DEFINE cells == readBuffer[c] \o SubSeq(toClient[c], 1, k)
  <2>1. /\ k \in 1 .. Len(toClient[c]) /\ cells \in Seq(Cell)
        /\ Drop(toClient[c], k) \in Seq(Cell)
        /\ Len(Drop(toClient[c], k)) = Len(toClient[c]) - k
    BY <1>5, ReceivedCells
  <2>2. /\ readBuffer' = [readBuffer EXCEPT ![c] = cells]
        /\ rx' = [rx EXCEPT ![c] = Look(c, cells)]
        /\ toClient' = [toClient EXCEPT ![c] = Drop(@, k)]
        /\ UNCHANGED <<ui, wanted, contacts, typed, threads, pendingRequests,
                       rxRequest, misplaced>>
    BY <1>5 DEF Receive, ClientRecv
  <2> HIDE DEF cells
  <2>3. /\ Look(c, cells) \in {"recv", "packet", "undefined"}
        /\ Look(c, cells) = "packet" => Complete(cells)
    BY DEF Look
  <2>4. ClientTypeOK'
    BY <1>1, <2>1, <2>2, <2>3 DEF ClientTypeOK
  <2>5. StreamsFit'
    BY <1>1, <2>1, <2>2, NetworkAssumption DEF StreamsFit
  <2> QED BY <1>2, <1>4, <2>2, <2>3, <2>4, <2>5 DEF ClientInv
<1>6. ASSUME ReceiveNothing(c)
      PROVE  ClientInv'
  <2>1. /\ rx' = [rx EXCEPT ![c] = Look(c, readBuffer[c])]
        /\ UNCHANGED <<netVars, ui, wanted, contacts, typed, threads,
                       pendingRequests, readBuffer, rxRequest, misplaced>>
    BY <1>6 DEF ReceiveNothing
  <2>2. /\ Look(c, readBuffer[c]) \in {"recv", "packet", "undefined"}
        /\ Look(c, readBuffer[c]) = "packet" => Complete(readBuffer[c])
    BY DEF Look
  <2>3. ClientTypeOK'
    BY <1>1, <2>1, <2>2 DEF ClientTypeOK
  <2>4. PacketsComplete'
    BY <1>1, <2>1, <2>2 DEF PacketsComplete, ClientTypeOK
  <2> QED BY <1>2, <1>3, <2>1, <2>3, <2>4 DEF netVars, ClientInv
<1>7. ASSUME rx[c] = "packet"
      PROVE  /\ Complete(readBuffer[c]) /\ front(c) \in Packet
             /\ Cleared(readBuffer[c]) \in Seq(Cell)
  <2>1. Complete(readBuffer[c])
    BY <1>1, <1>7 DEF PacketsComplete
  <2> QED BY <1>1, <2>1, FrontPacket, ClearedBuffer DEF front
<1>8. ASSUME HandleDelivery(c)
      PROVE  ClientInv'
  <2> DEFINE list == handleNewMessage(c)
  <2>1. list \in Seq(Contact) /\ Places(contacts[c]) \subseteq Places(list)
    BY <1>1, NewMessage DEF Extends
  <2>2. /\ contacts' = [contacts EXCEPT ![c] = list]
        /\ readBuffer' = [readBuffer EXCEPT ![c] = Cleared(@)]
        /\ UNCHANGED <<toClient, ui, wanted, typed, threads, rxRequest>>
        /\ misplaced' \in [Conn -> BOOLEAN]
    BY <1>1, <1>8 DEF HandleDelivery, ClientSend, Misplaces, ClientTypeOK
  <2> HIDE DEF list
  <2>3. PICK where \in {"crash", "recv"} : rx' = [rx EXCEPT ![c] = where]
    BY <1>8 DEF HandleDelivery
  <2>4. pendingRequests' \in [Conn -> [Id -> PendingRequest \cup {NULL}]]
    <3>1. UNCHANGED pendingRequests \/ StaleSetEvent(c)
      BY <1>8 DEF HandleDelivery
    <3> QED BY <1>1, <3>1, StaleEvent DEF ClientTypeOK
  <2>5. Cleared(readBuffer[c]) \in Seq(Cell)
    BY <1>7, <1>8 DEF HandleDelivery
  <2>6. ClientTypeOK'
    BY <1>1, <2>1, <2>2, <2>3, <2>4, <2>5 DEF ClientTypeOK
  <2>7. ThreadsHaveMessages'
    BY <1>1, <2>1, <2>2, ThreadsKept
  <2> QED BY <1>3, <1>4, <2>2, <2>3, <2>6, <2>7 DEF ClientInv
<1>9. ASSUME HandleRespond(c)
      PROVE  ClientInv'
  <2>1. /\ rx[c] = "packet" /\ pendingRequests[c][front(c).id] # NULL
        /\ writeToRequest(c, front(c))
        /\ rxRequest' = [rxRequest EXCEPT ![c] = front(c).id]
        /\ readBuffer' = [readBuffer EXCEPT ![c] = Cleared(@)]
        /\ rx' = [rx EXCEPT ![c] = "recv"]
        /\ misplaced' \in [Conn -> BOOLEAN]
        /\ UNCHANGED <<netVars, ui, wanted, contacts, typed, threads>>
    BY <1>1, <1>9 DEF HandleRespond, Misplaces, ClientTypeOK
  <2>2. front(c) \in Packet /\ front(c).id \in Id /\ Cleared(readBuffer[c]) \in Seq(Cell)
    BY <1>7, <2>1 DEF Packet
  <2>3. pendingRequests' \in [Conn -> [Id -> PendingRequest \cup {NULL}]]
    BY <1>1, <2>1, <2>2, WrittenRequest
  <2>4. ClientTypeOK'
    BY <1>1, <2>1, <2>2, <2>3 DEF ClientTypeOK
  <2>5. PacketsComplete'
    BY <1>1, <2>1 DEF PacketsComplete, ClientTypeOK
  <2> QED BY <1>2, <1>3, <2>1, <2>4, <2>5 DEF netVars, ClientInv
<1>10. ASSUME DropRespond(c)
       PROVE  ClientInv'
  <2>1. /\ rx[c] = "packet"
        /\ rxRequest' = [rxRequest EXCEPT ![c] = NULL]
        /\ readBuffer' = [readBuffer EXCEPT ![c] =
                            SubSeq(readBuffer[c], 1, Len(readBuffer[c]) - Size(front(c)))]
        /\ rx' = [rx EXCEPT ![c] = "recv"]
        /\ misplaced' \in [Conn -> BOOLEAN]
        /\ UNCHANGED <<netVars, ui, wanted, contacts, typed, threads, pendingRequests>>
    BY <1>1, <1>10 DEF DropRespond, Misplaces, ClientTypeOK
  <2>2. SubSeq(readBuffer[c], 1, Len(readBuffer[c]) - Size(front(c))) \in Seq(Cell)
    BY <1>1, <1>7, <2>1, DroppedBuffer DEF front
  <2>3. ClientTypeOK'
    BY <1>1, <2>1, <2>2 DEF ClientTypeOK
  <2>4. PacketsComplete'
    BY <1>1, <2>1 DEF PacketsComplete, ClientTypeOK
  <2> QED BY <1>2, <1>3, <2>1, <2>3, <2>4 DEF netVars, ClientInv
<1>11. ASSUME Crash(c)
       PROVE  ClientInv'
  BY <1>11, EndStep DEF Crash
<1> QED BY <1>5, <1>6, <1>8, <1>9, <1>10, <1>11 DEF SocketStep

-----------------------------------------------------------------------------
(* The steps of the server, seen by the clients *)

(* What the server's steps do to the streams to the clients: one whole     *)
(* packet is added, to one stream that has room for it, or none is.        *)
LEMMA ServerStreams ==
  ASSUME IInv, ServerNext
  PROVE  \/ UNCHANGED toClient
         \/ \E d \in Conn, p \in Packet :
              /\ (SendDelivery /\ p = delivery) \/ (SendRespond /\ p = out /\ d = cursor)
              /\ peer[d] = "up"
              /\ Len(toClient[d]) + Size(p) <= SockBuf
              /\ toClient' = [toClient EXCEPT ![d] = @ \o Cells(p)]
<1>1. ServerTypeOK /\ NetTypeOK
  BY DEF IInv, ServerTypeOK
<1>2. CASE SendDelivery
  <2>1. /\ pc = "process" /\ ~unreadable
        /\ \E to \in Conn : HasRoom(to, delivery) /\ toClient' = Sent(to, delivery)
    BY <1>2 DEF SendDelivery, Processing
  <2>2. cursor \in Node /\ field(2) \in String \cup {NULL}
    BY <2>1, HandlerFacts
  <2>3. nickname[cursor] \in String /\ field(2) \in String
    BY <1>1, <2>1, <2>2 DEF ServerTypeOK, unreadable
  <2>4. <<nickname[cursor], field(2)>> \in Seq(String) /\ 0 \in Id
    BY <2>3, PacketsAssumption DEF Id
  <2>5. delivery \in Packet
    BY <2>4, MadePacket DEF delivery, PacketType, PacketCommand, PacketStatus
  <2>6. PICK to \in Conn : HasRoom(to, delivery) /\ toClient' = Sent(to, delivery)
    BY <2>1
  <2>7. CASE peer[to] = "up"
    BY <1>2, <2>5, <2>6, <2>7 DEF HasRoom, Sent
  <2>8. CASE peer[to] # "up"
    BY <2>6, <2>8 DEF Sent
  <2> QED BY <2>7, <2>8
<1>3. CASE SendRespond
  <2>1. /\ cursor \in Conn /\ out \in Packet /\ HasRoom(cursor, out)
        /\ toClient' = Sent(cursor, out)
    BY <1>3 DEF SendRespond, IInv, ThreadControl
  <2> QED BY <1>3, <2>1 DEF HasRoom, Sent
<1>4. CASE waitForClients \/ Accept \/ AcceptFails \/ \E k \in 1 .. BufSize : Recv(k)
  BY <1>4 DEF waitForClients, Accept, AcceptFails, Recv, netVars
<1>5. CASE RecvFails \/ RespondFails
  BY <1>5 DEF RecvFails, RespondFails, deleteClient
<1>6. CASE processLoginPacket \/ processCreateChatPacket \/ RefuseMessage
  BY <1>6 DEF processLoginPacket, processCreateChatPacket, RefuseMessage, netVars
<1>7. CASE DeliveryFails \/ RespondNotSent
  BY <1>7 DEF DeliveryFails, RespondNotSent, Exit
<1>8. CASE (\E k \in 1 .. RespondSize : ReadRespond(k)) \/ ReadPartOfRespond
  BY <1>8 DEF ReadRespond, ReadPartOfRespond
<1> QED BY <1>2, <1>3, <1>4, <1>5, <1>6, <1>7, <1>8 DEF ServerNext

(* The server's steps leave the clients alone, and their sockets fit. *)
LEMMA ServerKeepsClients == SystemInv /\ ServerStep => ClientInv'
<1> SUFFICES ASSUME SystemInv, ServerStep
             PROVE  ClientInv'
  OBVIOUS
<1>1. /\ ClientTypeOK /\ ThreadsHaveMessages /\ PacketsComplete /\ StreamsFit
      /\ IInv /\ toClient \in [Conn -> Seq(Cell)]
  BY DEF SystemInv, ClientInv, IInv, ServerTypeOK, NetTypeOK
<1>2. ServerNext /\ UNCHANGED clientVars
  BY DEF ServerStep
<1>3. ClientTypeOK' /\ ThreadsHaveMessages' /\ PacketsComplete'
  BY <1>1, <1>2 DEF clientVars, ClientTypeOK, ThreadsHaveMessages, PacketsComplete
<1>4. StreamsFit'
  <2>1. CASE UNCHANGED toClient
    BY <1>1, <2>1 DEF StreamsFit
  <2>2. ASSUME NEW d \in Conn, NEW p \in Packet,
               Len(toClient[d]) + Size(p) <= SockBuf,
               toClient' = [toClient EXCEPT ![d] = @ \o Cells(p)]
        PROVE  StreamsFit'
    <3>1. Len(Cells(p)) = Size(p) /\ Cells(p) \in Seq(Cell)
      BY PacketCells DEF Cells
    <3>2. toClient[d] \in Seq(Cell)
      BY <1>1
    <3>3. Len(toClient[d] \o Cells(p)) = Len(toClient[d]) + Size(p)
      <4>1. Len(toClient[d] \o Cells(p)) = Len(toClient[d]) + Len(Cells(p))
        BY <3>1, <3>2, ConcatProperties
      <4> QED BY <3>1, <4>1
    <3> QED BY <1>1, <2>2, <3>3 DEF StreamsFit
  <2> QED BY <1>1, <1>2, <2>1, <2>2, ServerStreams
<1> QED BY <1>3, <1>4 DEF ClientInv

-----------------------------------------------------------------------------
(* Every step, and so every behaviour *)

(* The invariant holds when the server starts and no client is connected *)
LEMMA SystemInitInv == SystemInit => SystemInv
<1> SUFFICES ASSUME SystemInit
             PROVE  SystemInv
  OBVIOUS
<1>1. ServerInit /\ ClientInit
  BY DEF SystemInit
<1>2. IInv
  BY <1>1, InitIInv
<1>3. ClientTypeOK
  <2>1. /\ NoName \in Name /\ <<>> \in Seq(Contact) /\ <<>> \in Seq(Cell)
        /\ [i \in Id |-> NULL] \in [Id -> PendingRequest \cup {NULL}]
    BY DEF Name
  <2> QED BY <1>1, <2>1 DEF ClientInit, ClientTypeOK
<1>4. ThreadsHaveMessages /\ PacketsComplete
  BY <1>1 DEF ClientInit, ThreadsHaveMessages, PacketsComplete
<1>5. StreamsFit
  BY <1>1, NetworkAssumption DEF ServerInit, NetInit, StreamsFit
<1> QED BY <1>2, <1>3, <1>4, <1>5 DEF SystemInv, ClientInv

(* Every step of a client keeps the clients' invariant. *)
LEMMA ClientKeepsInv ==
  ASSUME SystemInv, NEW c \in Conn, StartClient(c) \/ ClientStep(c)
  PROVE  ClientInv'
<1>1. CASE StartClient(c)
  BY <1>1, MainThreadStep
<1>2. CASE UserStep(c)
  BY <1>2, MainThreadStep, MessageThreadStep, EndStep DEF UserStep, Quit
<1>3. CASE MainStep(c)
  BY <1>3, MainThreadStep DEF MainStep
<1>4. CASE ThreadStep(c)
  BY <1>4, MessageThreadStep DEF ThreadStep
<1>5. CASE SocketStep(c)
  BY <1>5, SocketThreadStep
<1>6. CASE SendFails(c)
  BY <1>6, EndStep DEF SendFails
<1> QED BY <1>1, <1>2, <1>3, <1>4, <1>5, <1>6 DEF ClientStep

(* Every step of the system keeps the invariant of server and clients. *)
LEMMA SystemNextInv == SystemInv /\ [SystemNext]_systemVars => SystemInv'
<1> SUFFICES ASSUME SystemInv, [SystemNext]_systemVars
             PROVE  SystemInv'
  OBVIOUS
<1>1. IInv'
  BY SystemStepIsServerStep, NextIInv DEF SystemInv
<1>2. ASSUME ServerStep PROVE ClientInv'
  BY <1>2, ServerKeepsClients
<1>3. ASSUME ClientsStep PROVE ClientInv'
  BY <1>3, ClientKeepsInv DEF ClientsStep
<1>4. ASSUME UNCHANGED systemVars PROVE ClientInv'
  <2>1. UNCHANGED <<toClient, clientVars>>
    BY <1>4 DEF systemVars, vars, netVars
  <2> QED BY <2>1 DEF SystemInv, ClientInv, clientVars, ClientTypeOK,
                      ThreadsHaveMessages, PacketsComplete, StreamsFit
<1> QED BY <1>1, <1>2, <1>3, <1>4 DEF SystemNext, SystemInv

(* The invariant of server and clients holds in every reachable state *)
THEOREM SystemInvariance == SystemSpec => []SystemInv
<1>1. SystemInit => SystemInv
  BY SystemInitInv
<1>2. SystemInv /\ [SystemNext]_systemVars => SystemInv'
  BY SystemNextInv
<1> QED BY <1>1, <1>2, PTL DEF SystemSpec

(* Every variable of the clients keeps its type: a pointer to a request is *)
(* an id, NULL or freed, what is in a history is a message, and what the   *)
(* socket thread stores is a packet.                                       *)
THEOREM ClientTypes == SystemSpec => []ClientTypeOK
<1>1. SystemInv => ClientTypeOK
  BY DEF SystemInv, ClientInv
<1> QED BY <1>1, SystemInvariance, PTL

(* The system implements the server's specification: the client program is *)
(* one of the clients the server was verified against.                     *)
THEOREM ServerRefined == SystemSpec => ServerSpecHolds
<1>1. SystemInit => ServerInit
  BY DEF SystemInit
<1>2. SystemInv /\ [SystemNext]_systemVars => [Next]_vars
  BY SystemStepIsServerStep
<1> QED BY <1>1, <1>2, SystemInvariance, PTL DEF SystemSpec, ServerSpecHolds, Spec

(* What is proved of the server holds when the client program runs. *)
THEOREM ServerPropertiesHold ==
  SystemSpec => /\ [](UniqueNicknames /\ ListIntegrity)
                /\ [](PointersLive /\ AnswersMatchRequests)
                /\ NicknamesAreRegistry /\ DroppedOnlyWhenGone
<1>1. SystemSpec => Spec
  BY ServerRefined DEF ServerSpecHolds
<1> QED BY <1>1, NicknamesUnique, ListCorrect, PointersCorrect, AnswersCorrect,
           RegistryRefined, DroppedCorrectly, PTL
=============================================================================
