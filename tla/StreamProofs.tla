---------------------------- MODULE StreamProofs ----------------------------
(***************************************************************************)
(* Proofs about the streams from the server to the clients: as long as a   *)
(* client's buffer is intact, what it has not handled yet is a row of      *)
(* whole packets, and its socket thread finds a header where it looks for  *)
(* one.                                                                    *)
(***************************************************************************)
EXTENDS SystemProofs

-----------------------------------------------------------------------------
(* Streams of cells *)

(* What Drop leaves of a stream *)
LEMMA DropCells ==
  ASSUME NEW s \in Seq(Cell), NEW n \in 0 .. Len(s)
  PROVE  /\ Drop(s, n) \in Seq(Cell)
         /\ Len(Drop(s, n)) = Len(s) - n
         /\ \A i \in 1 .. Len(s) - n : Drop(s, n)[i] = s[n + i]
<1>1. \A i \in n + 1 .. Len(s) : s[i] \in Cell
  OBVIOUS
<1> QED BY <1>1, SubSeqProperties DEF Drop

(* The cells of a packet *)
LEMMA CellsOf ==
  ASSUME NEW p \in Packet
  PROVE  /\ Cells(p) \in Seq(Cell) /\ Len(Cells(p)) = Size(p)
         /\ \A i \in 1 .. Size(p) : Cells(p)[i] = [pkt |-> p, part |-> i - 1]
BY PacketCells DEF Cells

(* A cell of a stream *)
LEMMA CellFacts ==
  ASSUME NEW x \in Cell
  PROVE  /\ x.pkt \in Packet /\ x.part \in Int
         /\ x.part >= -1 /\ x.part <= Len(x.pkt.fields)
         /\ Len(x.pkt.fields) \in Nat
BY DEF Cell, Packet

(* Dropping from the first of two streams *)
LEMMA ConcatDrop ==
  ASSUME NEW a \in Seq(Cell), NEW b \in Seq(Cell), NEW n \in 0 .. Len(a)
  PROVE  Drop(a, n) \o b = Drop(a \o b, n)
<1> DEFINE l == Drop(a, n) \o b
           r == Drop(a \o b, n)
<1>1. /\ Drop(a, n) \in Seq(Cell) /\ Len(Drop(a, n)) = Len(a) - n
      /\ \A i \in 1 .. Len(a) - n : Drop(a, n)[i] = a[n + i]
  BY DropCells
<1>2. /\ l \in Seq(Cell) /\ Len(l) = Len(a) - n + Len(b)
      /\ \A i \in 1 .. Len(a) - n + Len(b) :
           l[i] = IF i <= Len(a) - n THEN a[n + i] ELSE b[i - (Len(a) - n)]
  <2> DEFINE d == Drop(a, n)
  <2>1. /\ d \o b \in Seq(Cell) /\ Len(d \o b) = Len(d) + Len(b)
        /\ \A i \in 1 .. Len(d) + Len(b) :
             (d \o b)[i] = IF i <= Len(d) THEN d[i] ELSE b[i - Len(d)]
    BY <1>1, ConcatProperties
  <2> HIDE DEF d
  <2>2. Len(a) \in Nat /\ Len(b) \in Nat
    OBVIOUS
  <2> QED BY <1>1, <2>1, <2>2 DEF d
<1>3. /\ a \o b \in Seq(Cell) /\ Len(a \o b) = Len(a) + Len(b)
      /\ \A i \in 1 .. Len(a) + Len(b) :
           (a \o b)[i] = IF i <= Len(a) THEN a[i] ELSE b[i - Len(a)]
  BY ConcatProperties
<1>4. /\ r \in Seq(Cell) /\ Len(r) = Len(a) + Len(b) - n
      /\ \A i \in 1 .. Len(a) + Len(b) - n : r[i] = (a \o b)[n + i]
  <2>1. n \in 0 .. Len(a \o b)
    BY <1>3
  <2>2. /\ r \in Seq(Cell) /\ Len(r) = Len(a \o b) - n
        /\ \A i \in 1 .. Len(a \o b) - n : r[i] = (a \o b)[n + i]
    BY <1>3, <2>1, DropCells
  <2> QED BY <1>3, <2>2
<1> HIDE DEF l, r
<1>5. ASSUME NEW i \in 1 .. Len(l)
      PROVE  l[i] = r[i]
  <2>1. /\ n + i \in 1 .. Len(a) + Len(b) /\ r[i] = (a \o b)[n + i]
        /\ i \in 1 .. Len(a) - n + Len(b)
    BY <1>2, <1>4
  <2>2. (n + i <= Len(a)) <=> (i <= Len(a) - n)
    BY <2>1
  <2>3. n + i - Len(a) = i - (Len(a) - n)
    BY <2>1
  <2> QED BY <1>2, <1>3, <2>1, <2>2, <2>3
<1>6. Len(l) = Len(r)
  BY <1>2, <1>4
<1> QED BY <1>2, <1>4, <1>5, <1>6, SeqEqual DEF l, r

(* Two streams joined begin like the first *)
LEMMA ConcatFront ==
  ASSUME NEW a \in Seq(Cell), NEW b \in Seq(Cell)
  PROVE  /\ a \o b \in Seq(Cell)
         /\ a # <<>> => a \o b # <<>> /\ (a \o b)[1] = a[1]
         /\ Len(a) <= Len(a \o b)
<1>1. /\ a \o b \in Seq(Cell) /\ Len(a \o b) = Len(a) + Len(b)
      /\ \A i \in 1 .. Len(a) + Len(b) :
           (a \o b)[i] = IF i <= Len(a) THEN a[i] ELSE b[i - Len(a)]
  BY ConcatProperties
<1>2. Len(a) \in Nat /\ Len(b) \in Nat
  OBVIOUS
<1>3. ASSUME a # <<>>
      PROVE  a \o b # <<>> /\ (a \o b)[1] = a[1]
  <2>1. Len(a) >= 1
    BY <1>3, EmptySeq
  <2>2. 1 \in 1 .. Len(a) + Len(b) /\ 1 <= Len(a)
    BY <1>2, <2>1
  <2>3. (a \o b)[1] = a[1]
    BY <1>1, <2>2
  <2>4. Len(a \o b) >= 1
    BY <1>1, <1>2, <2>1
  <2>5. a \o b # <<>>
    BY <2>4, EmptySeq
  <2> QED BY <2>3, <2>5
<1> QED BY <1>1, <1>2, <1>3

LEMMA StreamsJoined ==
  ASSUME NEW a \in Seq(Cell), NEW b \in Seq(Cell), NEW d \in Seq(Cell)
  PROVE  (a \o b) \o d = a \o (b \o d)
BY ConcatAssociative

(* recv() moves cells, and the stream from buffer to socket stays. *)
LEMMA MoveCells ==
  ASSUME NEW a \in Seq(Cell), NEW b \in Seq(Cell), NEW k \in 1 .. Len(b)
  PROVE  (a \o SubSeq(b, 1, k)) \o Drop(b, k) = a \o b
<1>1. SubSeq(b, 1, k) \in Seq(Cell) /\ Drop(b, k) \in Seq(Cell)
  <2>1. k \in 0 .. Len(b)
    OBVIOUS
  <2> QED BY <2>1, StreamStart, DropCells
<1>2. SubSeq(b, 1, k) \o SubSeq(b, k + 1, Len(b)) = SubSeq(b, 1, Len(b))
  BY ConcatAdjacentSubSeq
<1>3. SubSeq(b, 1, k) \o Drop(b, k) = b
  BY <1>2, SubSeqFull DEF Drop
<1>4. (a \o SubSeq(b, 1, k)) \o Drop(b, k) = a \o (SubSeq(b, 1, k) \o Drop(b, k))
  BY <1>1, ConcatAssociative
<1> QED BY <1>3, <1>4

(* Clearing a packet is dropping it as long as no more follows than it had *)
(* itself (clientUtils.c:93).                                              *)
LEMMA ClearedInPlace ==
  ASSUME NEW cells \in Seq(Cell), Complete(cells),
         Len(cells) - Size(cells[1].pkt) <= Size(cells[1].pkt)
  PROVE  Cleared(cells) = Drop(cells, Size(cells[1].pkt))
<1> DEFINE s == Size(cells[1].pkt)
           n == Len(cells) - s
<1>1. s \in 0 .. Len(cells) /\ s \in Nat \ {0} /\ n \in Nat /\ n <= s
  BY FrontPacket, PacketCells DEF Complete
<1>2. /\ Drop(cells, s) \in Seq(Cell) /\ Len(Drop(cells, s)) = n
      /\ \A i \in 1 .. n : Drop(cells, s)[i] = cells[s + i]
  BY <1>1, DropCells
<1>3. Cleared(cells) = [j \in 1 .. n |-> IF j <= s THEN cells[j + s] ELSE cells[j]]
  BY DEF Cleared
<1>4. Cleared(cells) \in Seq(Cell) /\ Len(Cleared(cells)) = n
  BY ClearedBuffer
<1> HIDE DEF s, n
<1>5. \A i \in 1 .. n : Cleared(cells)[i] = Drop(cells, s)[i]
  BY <1>1, <1>2, <1>3
<1> QED BY <1>2, <1>4, <1>5, SeqEqual DEF s

-----------------------------------------------------------------------------
(* Rows of whole packets *)

(* Around every cell of the stream stands its packet, from the header on *)
Whole(s) ==
  \A j \in DOMAIN s :
    /\ s[j].part >= 0
    /\ \A i \in 0 .. Len(s[j].pkt.fields) :
         LET k == j - s[j].part + i
         IN  k \in DOMAIN s /\ s[k] = [pkt |-> s[j].pkt, part |-> i]

(* A row of whole packets begins with a header. *)
LEMMA WholeStart ==
  ASSUME NEW s \in Seq(Cell), Whole(s), s # <<>>
  PROVE  s[1].part = 0
<1>1. 1 \in DOMAIN s /\ s[1] \in Cell
  OBVIOUS
<1>2. s[1].part \in Int /\ s[1].part >= 0 /\ Len(s[1].pkt.fields) \in Nat
  BY <1>1, CellFacts DEF Whole
<1>3. 0 \in 0 .. Len(s[1].pkt.fields)
  BY <1>2
<1>4. 1 - s[1].part + 0 \in DOMAIN s
  BY <1>1, <1>3 DEF Whole
<1> QED BY <1>2, <1>4

(* One more packet at the end *)
LEMMA WholeAppend ==
  ASSUME NEW s \in Seq(Cell), Whole(s), NEW p \in Packet
  PROVE  Whole(s \o Cells(p))
<1> DEFINE r == s \o Cells(p)
<1>1. /\ Cells(p) \in Seq(Cell) /\ Len(Cells(p)) = Size(p)
      /\ \A i \in 1 .. Size(p) : Cells(p)[i] = [pkt |-> p, part |-> i - 1]
      /\ Size(p) = Len(p.fields) + 1 /\ Len(p.fields) \in Nat
  BY CellsOf DEF Size, Packet
<1>2. /\ r \in Seq(Cell) /\ Len(r) = Len(s) + Size(p)
      /\ \A i \in 1 .. Len(s) + Size(p) :
           r[i] = IF i <= Len(s) THEN s[i] ELSE Cells(p)[i - Len(s)]
  <2>1. /\ r \in Seq(Cell) /\ Len(r) = Len(s) + Len(Cells(p))
        /\ \A i \in 1 .. Len(s) + Len(Cells(p)) :
             r[i] = IF i <= Len(s) THEN s[i] ELSE Cells(p)[i - Len(s)]
    BY <1>1, ConcatProperties
  <2> QED BY <1>1, <2>1
<1> HIDE DEF r
<1>3. DOMAIN s = 1 .. Len(s) /\ DOMAIN r = 1 .. Len(s) + Size(p) /\ Len(s) \in Nat
  BY <1>2
<1>4. \A i \in 1 .. Len(s) : r[i] = s[i]
  BY <1>1, <1>2, <1>3
<1>5. \A i \in 1 .. Size(p) : r[Len(s) + i] = [pkt |-> p, part |-> i - 1]
  <2> SUFFICES ASSUME NEW i \in 1 .. Size(p)
               PROVE  r[Len(s) + i] = [pkt |-> p, part |-> i - 1]
    OBVIOUS
  <2>1. Len(s) + i \in 1 .. Len(s) + Size(p) /\ ~(Len(s) + i <= Len(s))
        /\ Len(s) + i - Len(s) = i
    BY <1>1, <1>3
  <2> QED BY <1>1, <1>2, <2>1
<1> SUFFICES ASSUME NEW j \in DOMAIN r
             PROVE  /\ r[j].part >= 0
                    /\ \A i \in 0 .. Len(r[j].pkt.fields) :
                         LET k == j - r[j].part + i
                         IN  k \in DOMAIN r /\ r[k] = [pkt |-> r[j].pkt, part |-> i]
  BY DEF Whole, r
<1>6. CASE j <= Len(s)
  <2>1. j \in DOMAIN s /\ r[j] = s[j]
    BY <1>3, <1>4, <1>6
  <2> QED BY <1>1, <1>3, <1>4, <2>1 DEF Whole
<1>7. CASE j > Len(s)
  <2> DEFINE m == j - Len(s)
  <2>1. m \in 1 .. Size(p) /\ j = Len(s) + m
    BY <1>1, <1>3, <1>7
  <2>2. r[j] = [pkt |-> p, part |-> m - 1]
    BY <1>5, <2>1
  <2>3. r[j].pkt = p /\ r[j].part = m - 1
    BY <2>2
  <2>4. ASSUME NEW i \in 0 .. Len(p.fields)
        PROVE  LET k == j - (m - 1) + i
               IN  k \in DOMAIN r /\ r[k] = [pkt |-> p, part |-> i]
    <3>1. i + 1 \in 1 .. Size(p) /\ j - (m - 1) + i = Len(s) + (i + 1)
          /\ i + 1 - 1 = i /\ Len(s) + (i + 1) \in DOMAIN r
      BY <1>1, <1>3, <2>1
    <3> QED BY <1>5, <3>1
  <2> QED BY <2>1, <2>3, <2>4
<1> QED BY <1>3, <1>6, <1>7

(* The first packet dropped *)
LEMMA WholeDrop ==
  ASSUME NEW s \in Seq(Cell), Whole(s), s # <<>>,
         Size(s[1].pkt) <= Len(s)
  PROVE  Whole(Drop(s, Size(s[1].pkt)))
<1> DEFINE n == Size(s[1].pkt)
           r == Drop(s, n)
<1>1. s[1] \in Cell /\ s[1].part = 0 /\ DOMAIN s = 1 .. Len(s) /\ Len(s) \in Nat
  BY WholeStart
<1>2. n = Len(s[1].pkt.fields) + 1 /\ n \in Nat \ {0} /\ n \in 0 .. Len(s)
  BY <1>1, CellFacts DEF Size
<1>3. \A i \in 1 .. n : s[i] = [pkt |-> s[1].pkt, part |-> i - 1]
  <2> SUFFICES ASSUME NEW i \in 1 .. n
               PROVE  s[i] = [pkt |-> s[1].pkt, part |-> i - 1]
    OBVIOUS
  <2>1. i - 1 \in 0 .. Len(s[1].pkt.fields) /\ 1 - s[1].part + (i - 1) = i
    BY <1>1, <1>2
  <2> QED BY <1>1, <2>1 DEF Whole
<1> HIDE DEF n
<1>4. /\ r \in Seq(Cell) /\ Len(r) = Len(s) - n
      /\ \A i \in 1 .. Len(s) - n : r[i] = s[n + i]
  BY <1>2, DropCells
<1> HIDE DEF r
<1>5. DOMAIN r = 1 .. Len(s) - n
  BY <1>4
<1> SUFFICES ASSUME NEW j \in 1 .. Len(s) - n
             PROVE  /\ r[j].part >= 0
                    /\ \A i \in 0 .. Len(r[j].pkt.fields) :
                         LET k == j - r[j].part + i
                         IN  k \in DOMAIN r /\ r[k] = [pkt |-> r[j].pkt, part |-> i]
  BY <1>5 DEF Whole, r, n
<1> DEFINE x == s[n + j]
<1>6. r[j] = x /\ n + j \in DOMAIN s /\ x \in Cell
  <2>1. n + j \in DOMAIN s
    BY <1>1, <1>2
  <2> QED BY <1>4, <2>1
<1>7. /\ x.part \in Int /\ x.part >= 0 /\ Len(x.pkt.fields) \in Nat
      /\ x.part <= Len(x.pkt.fields)
      /\ \A i \in 0 .. Len(x.pkt.fields) :
           LET k == (n + j) - x.part + i
           IN  k \in DOMAIN s /\ s[k] = [pkt |-> x.pkt, part |-> i]
  BY <1>6, CellFacts DEF Whole
<1> HIDE DEF x
<1>8. (n + j) - x.part > n
  <2> SUFFICES ASSUME (n + j) - x.part <= n
               PROVE  FALSE
    BY <1>2, <1>7
  <2> DEFINE k == (n + j) - x.part
  <2>1. k \in 1 .. n /\ s[k] = [pkt |-> x.pkt, part |-> 0]
    <3>1. 0 \in 0 .. Len(x.pkt.fields) /\ (n + j) - x.part + 0 = k
      BY <1>2, <1>7
    <3> QED BY <1>1, <1>7, <3>1
  <2>2. s[k] = [pkt |-> s[1].pkt, part |-> k - 1]
    BY <1>3, <2>1
  <2> HIDE DEF k
  <2>3. s[k].pkt = x.pkt /\ s[k].part = 0 /\ s[k].pkt = s[1].pkt /\ s[k].part = k - 1
    BY <2>1, <2>2
  <2>4. k = 1 /\ x.pkt = s[1].pkt
    BY <2>1, <2>3
  <2>5. x.part = n + j - 1 /\ x.part <= n - 1
    BY <1>2, <1>7, <2>4 DEF k
  <2> QED BY <1>2, <2>5
<1>9. ASSUME NEW i \in 0 .. Len(x.pkt.fields)
      PROVE  LET k == j - x.part + i
             IN  k \in DOMAIN r /\ r[k] = [pkt |-> x.pkt, part |-> i]
  <2> DEFINE k == j - x.part + i
  <2>1. n + k \in DOMAIN s /\ s[n + k] = [pkt |-> x.pkt, part |-> i]
    <3>1. (n + j) - x.part + i = n + k
      BY <1>2, <1>7
    <3> QED BY <1>7, <3>1
  <2>2. k \in 1 .. Len(s) - n
    <3>1. n + k <= Len(s) /\ k \in Int
      BY <1>1, <1>2, <1>7, <2>1
    <3>2. k >= 1
      BY <1>2, <1>7, <1>8
    <3> QED BY <1>1, <1>2, <3>1, <3>2
  <2> HIDE DEF k
  <2>3. r[k] = s[n + k]
    BY <1>4, <2>2
  <2> QED BY <1>5, <2>1, <2>2, <2>3 DEF k
<1> QED BY <1>6, <1>7, <1>9

-----------------------------------------------------------------------------
(* What a client's step does to the other clients: nothing *)

SameClient(d) ==
  /\ ui'[d] = ui[d] /\ contacts'[d] = contacts[d] /\ typed'[d] = typed[d]
  /\ threads'[d] = threads[d] /\ pendingRequests'[d] = pendingRequests[d]
  /\ readBuffer'[d] = readBuffer[d] /\ rx'[d] = rx[d]
  /\ rxRequest'[d] = rxRequest[d] /\ misplaced'[d] = misplaced[d]

SameSocket(d) ==
  /\ peer'[d] = peer[d]
  /\ toServer'[d] = toServer[d] /\ toClient'[d] = toClient[d]

LEMMA ClientFrame ==
  ASSUME SystemInv, NEW c \in Conn, StartClient(c) \/ ClientStep(c),
         NEW d \in Conn \ {c}
  PROVE  SameClient(d) /\ SameSocket(d)
<1>1. ClientTypeOK /\ NetTypeOK
  BY ClientFacts DEF SystemInv, IInv, ServerTypeOK
<1>2. ASSUME End(c) PROVE SameClient(d) /\ SameSocket(d)
  BY <1>1, <1>2 DEF End, ClientClose, SameClient, SameSocket, ClientTypeOK, NetTypeOK
<1>3. ASSUME UNCHANGED netVars PROVE SameSocket(d)
  BY <1>3 DEF SameSocket, netVars
<1>4. ASSUME NEW p, ClientSend(c, p) PROVE SameSocket(d)
  BY <1>1, <1>4 DEF ClientSend, SameSocket, NetTypeOK
<1>5. CASE StartClient(c)
  BY <1>1, <1>5 DEF StartClient, Connect, SameClient, SameSocket, ClientTypeOK, NetTypeOK
<1>6. ASSUME NEW n, logIn(c, n) \/ createChat(c, n)
      PROVE  SameClient(d) /\ SameSocket(d)
  <2>1. SameSocket(d)
    BY <1>4, <1>6 DEF logIn, createChat
  <2>2. SameClient(d)
    BY <1>1, <1>6 DEF logIn, createChat, createRequest, SameClient, ClientTypeOK
  <2> QED BY <2>1, <2>2
<1>7. ASSUME NEW i, LogInAnswered(c, i) \/ CreateChatAnswered(c, i)
      PROVE  SameClient(d) /\ SameSocket(d)
  <2>1. CASE ~End(c)
    <3>1. SameSocket(d)
      BY <1>3, <1>7, <2>1 DEF LogInAnswered, CreateChatAnswered, netVars
    <3>2. SameClient(d)
      BY <1>1, <1>7, <2>1
         DEF LogInAnswered, CreateChatAnswered, deleteRequest, SameClient, ClientTypeOK
    <3> QED BY <3>1, <3>2
  <2> QED BY <1>2, <2>1
<1>8. ASSUME NEW k, NEW t, sendMessage(c, k, t)
      PROVE  SameClient(d) /\ SameSocket(d)
  BY <1>1, <1>3, <1>8 DEF sendMessage, SameClient, ClientTypeOK, netVars
<1>9. ASSUME NEW th, SendRequest(c, th)
      PROVE  SameClient(d) /\ SameSocket(d)
  <2>1. SameSocket(d)
    BY <1>3, <1>4, <1>9 DEF SendRequest, netVars
  <2>2. SameClient(d)
    BY <1>1, <1>9 DEF SendRequest, createRequest, SameClient, ClientTypeOK
  <2> QED BY <2>1, <2>2
<1>10. ASSUME NEW i, MessageAnswered(c, i)
       PROVE  SameClient(d) /\ SameSocket(d)
  <2>1. SameSocket(d)
    BY <1>3, <1>10 DEF MessageAnswered, netVars
  <2>2. SameClient(d)
    BY <1>1, <1>10 DEF MessageAnswered, deleteRequest, SameClient, ClientTypeOK
  <2> QED BY <2>1, <2>2
<1>11. ASSUME NEW k, Receive(c, k)
       PROVE  SameClient(d) /\ SameSocket(d)
  BY <1>1, <1>11 DEF Receive, ClientRecv, SameClient, SameSocket, ClientTypeOK, NetTypeOK
<1>12. ASSUME ReceiveNothing(c)
       PROVE  SameClient(d) /\ SameSocket(d)
  BY <1>1, <1>3, <1>12 DEF ReceiveNothing, SameClient, ClientTypeOK, netVars
<1>13. ASSUME HandleDelivery(c)
       PROVE  SameClient(d) /\ SameSocket(d)
  <2>1. SameSocket(d)
    BY <1>4, <1>13 DEF HandleDelivery
  <2>2. pendingRequests'[d] = pendingRequests[d]
    BY <1>1, <1>13 DEF HandleDelivery, StaleSetEvent, ClientTypeOK
  <2>3. SameClient(d)
    BY <1>1, <1>13, <2>2 DEF HandleDelivery, Misplaces, SameClient, ClientTypeOK
  <2> QED BY <2>1, <2>3
<1>14. ASSUME HandleRespond(c)
       PROVE  SameClient(d) /\ SameSocket(d)
  BY <1>1, <1>3, <1>14
     DEF HandleRespond, writeToRequest, Misplaces, SameClient, ClientTypeOK, netVars
<1>15. ASSUME DropRespond(c)
       PROVE  SameClient(d) /\ SameSocket(d)
  BY <1>1, <1>3, <1>15 DEF DropRespond, Misplaces, SameClient, ClientTypeOK, netVars
<1> QED BY <1>2, <1>5, <1>6, <1>7, <1>8, <1>9, <1>10, <1>11, <1>12, <1>13, <1>14, <1>15
        DEF ClientStep, UserStep, Quit, MainStep, ThreadStep, SocketStep, Crash, SendFails

-----------------------------------------------------------------------------
(* The stream a client has not handled yet *)

Stream(c) == readBuffer[c] \o toClient[c]

LEMMA StreamType ==
  ASSUME SystemInv, NEW c \in Conn
  PROVE  /\ Stream(c) \in Seq(Cell)
         /\ readBuffer[c] # <<>> => Stream(c) # <<>> /\ Stream(c)[1] = readBuffer[c][1]
         /\ Len(readBuffer[c]) <= Len(Stream(c))
<1>1. readBuffer[c] \in Seq(Cell) /\ toClient[c] \in Seq(Cell)
  BY ClientFacts
<1> QED BY <1>1, ConcatFront DEF Stream

(* recv() leaves the stream as it is. *)
LEMMA ReceiveStream ==
  ASSUME SystemInv, NEW c \in Conn, NEW k \in 1 .. MemSize, Receive(c, k)
  PROVE  Stream(c)' = Stream(c)
<1>1. /\ toClient[c] \in Seq(Cell) /\ readBuffer[c] \in Seq(Cell)
      /\ k \in 1 .. Len(toClient[c])
  BY ClientFacts, ReceivedCells
<1>2. /\ toClient'[c] = Drop(toClient[c], k)
      /\ readBuffer'[c] = readBuffer[c] \o SubSeq(toClient[c], 1, k)
  BY ClientFacts DEF Receive, ClientRecv, ClientTypeOK
<1> QED BY <1>1, <1>2, MoveCells DEF Stream

(* A packet that the socket thread has handled has left its stream, when   *)
(* the step left the buffer intact.                                        *)
LEMMA HandledStream ==
  ASSUME SystemInv, NEW c \in Conn,
         HandleDelivery(c) \/ HandleRespond(c) \/ DropRespond(c), ~misplaced'[c]
  PROVE  /\ ~misplaced[c] /\ rx[c] = "packet" /\ Complete(readBuffer[c])
         /\ Size(front(c)) \in 1 .. Len(readBuffer[c])
         /\ Stream(c)' = Drop(Stream(c), Size(front(c)))
<1> DEFINE s == Size(front(c))
<1>1. /\ toClient[c] \in Seq(Cell) /\ readBuffer[c] \in Seq(Cell) /\ ClientTypeOK
      /\ PacketsComplete
  BY ClientFacts
<1>2. rx[c] = "packet" /\ toClient' = toClient
  BY DEF HandleDelivery, HandleRespond, DropRespond, ClientSend, netVars
<1>3. Complete(readBuffer[c]) /\ front(c) \in Packet
  BY <1>1, <1>2, FrontPacket DEF PacketsComplete, front
<1>4. s \in 1 .. Len(readBuffer[c]) /\ s \in Nat /\ s \in 0 .. Len(readBuffer[c])
  BY <1>1, <1>3, PacketCells DEF Complete, front
<1>5. ~misplaced[c]
  BY <1>1 DEF HandleDelivery, HandleRespond, DropRespond, Misplaces, ClientTypeOK
<1>6. readBuffer'[c] = Drop(readBuffer[c], s)
  <2>1. CASE HandleDelivery(c) \/ HandleRespond(c)
    <3>1. readBuffer'[c] = Cleared(readBuffer[c]) /\ Len(readBuffer[c]) - s <= s
      <4>1. ~(Len(readBuffer[c]) - s > s)
        BY <1>1, <2>1 DEF HandleDelivery, HandleRespond, Misplaces, ClientTypeOK
      <4>2. readBuffer'[c] = Cleared(readBuffer[c])
        BY <1>1, <2>1 DEF HandleDelivery, HandleRespond, ClientTypeOK
      <4> QED BY <1>1, <1>4, <4>1, <4>2
    <3> QED BY <1>1, <1>3, <3>1, ClearedInPlace DEF front
  <2>2. CASE DropRespond(c)
    <3>1. ~(Len(readBuffer[c]) - s > 0)
      BY <1>1, <2>2 DEF DropRespond, Misplaces, ClientTypeOK
    <3>2. readBuffer'[c] = SubSeq(readBuffer[c], 1, Len(readBuffer[c]) - s)
      BY <1>1, <2>2 DEF DropRespond, ClientTypeOK
    <3>3. Len(readBuffer[c]) = s
      BY <1>1, <1>4, <3>1
    <3>4. readBuffer'[c] = <<>> /\ Drop(readBuffer[c], s) = <<>>
      BY <1>4, <3>2, <3>3, SubSeqEmpty DEF Drop
    <3> QED BY <3>4
  <2> QED BY <2>1, <2>2
<1> HIDE DEF s
<1>7. Stream(c)' = Drop(Stream(c), s)
  BY <1>1, <1>2, <1>4, <1>6, ConcatDrop DEF Stream
<1> QED BY <1>2, <1>3, <1>4, <1>5, <1>7 DEF s

(* The steps of a client that leave its socket thread alone *)
LEMMA QuietSocket ==
  ASSUME SystemInv, NEW c \in Conn,
         \/ StartClient(c)
         \/ \E n \in Name : logIn(c, n) \/ createChat(c, n)
         \/ \E i \in Id : (LogInAnswered(c, i) /\ ~End(c)) \/ CreateChatAnswered(c, i)
         \/ \E k, t : sendMessage(c, k, t)
         \/ ThreadStep(c)
  PROVE  UNCHANGED <<readBuffer, toClient, rx, misplaced>>
BY DEF StartClient, Connect, logIn, createChat, LogInAnswered, CreateChatAnswered,
       sendMessage, ThreadStep, SendRequest, MessageAnswered, ClientSend, netVars

(* The end of a client empties its stream. *)
LEMMA EndedStream ==
  ASSUME SystemInv, NEW c \in Conn, End(c)
  PROVE  /\ Stream(c)' = <<>> /\ misplaced' = misplaced
         /\ rx'[c] = "recv"
<1>1. /\ readBuffer'[c] = <<>> /\ toClient'[c] = <<>> /\ rx'[c] = "recv"
      /\ misplaced' = misplaced
  BY ClientFacts DEF End, ClientClose, ClientTypeOK
<1>2. <<>> \in Seq(Cell)
  OBVIOUS
<1> QED BY <1>1, <1>2, ConcatEmptySeq DEF Stream

(* What a client's step does to its own stream as long as its buffer is    *)
(* intact: nothing, or the packet at its front is handled, or all is gone. *)
LEMMA StreamStep ==
  ASSUME SystemInv, NEW c \in Conn, StartClient(c) \/ ClientStep(c), ~misplaced'[c]
  PROVE  /\ ~misplaced[c]
         /\ \/ Stream(c)' = Stream(c)
            \/ Stream(c)' = <<>>
            \/ /\ rx[c] = "packet" /\ Complete(readBuffer[c])
               /\ Size(front(c)) \in 1 .. Len(readBuffer[c])
               /\ Stream(c)' = Drop(Stream(c), Size(front(c)))
<1>1. CASE End(c)
  BY <1>1, EndedStream
<1>2. CASE \E k \in 1 .. MemSize : Receive(c, k)
  BY <1>2, ReceiveStream DEF Receive
<1>3. CASE ReceiveNothing(c)
  BY <1>3 DEF ReceiveNothing, Stream, netVars
<1>4. CASE HandleDelivery(c) \/ HandleRespond(c) \/ DropRespond(c)
  BY <1>4, HandledStream
<1>5. CASE UNCHANGED <<readBuffer, toClient, rx, misplaced>>
  BY <1>5 DEF Stream
<1>6. CASE StartClient(c) \/ MainStep(c) \/ ThreadStep(c)
  BY <1>1, <1>5, <1>6, QuietSocket DEF MainStep
<1>7. CASE UserStep(c)
  BY <1>1, <1>5, <1>7, QuietSocket DEF UserStep, Quit
<1> QED BY <1>1, <1>2, <1>3, <1>4, <1>6, <1>7
        DEF ClientStep, SocketStep, Crash, SendFails

(* The socket thread looks for a header at the start of its stream. *)
LEMMA UndefinedStep ==
  ASSUME SystemInv, NEW c \in Conn, StartClient(c) \/ ClientStep(c),
         rx'[c] = "undefined"
  PROVE  \/ rx[c] = "undefined" /\ misplaced'[c] = misplaced[c]
         \/ /\ misplaced'[c] = misplaced[c] /\ Stream(c)' = Stream(c)
            /\ readBuffer'[c] # <<>> /\ ~Aligned(readBuffer'[c])
<1>1. ClientTypeOK
  BY ClientFacts
<1>2. CASE End(c)
  BY <1>2, EndedStream
<1>3. ASSUME NEW k \in 1 .. MemSize, Receive(c, k)
      PROVE  /\ misplaced'[c] = misplaced[c] /\ Stream(c)' = Stream(c)
             /\ readBuffer'[c] # <<>> /\ ~Aligned(readBuffer'[c])
  <2>1. rx'[c] = Look(c, readBuffer'[c]) /\ misplaced' = misplaced
    BY <1>1, <1>3 DEF Receive, ClientTypeOK
  <2> QED BY <1>3, <2>1, ReceiveStream DEF Look
<1>4. CASE ReceiveNothing(c)
  <2>1. /\ rx'[c] = Look(c, readBuffer'[c]) /\ misplaced' = misplaced
        /\ UNCHANGED <<readBuffer, toClient>>
    BY <1>1, <1>4 DEF ReceiveNothing, ClientTypeOK, netVars
  <2> QED BY <2>1 DEF Look, Stream
<1>5. CASE HandleDelivery(c) \/ HandleRespond(c) \/ DropRespond(c)
  BY <1>1, <1>5 DEF HandleDelivery, HandleRespond, DropRespond, ClientTypeOK
<1>6. CASE UNCHANGED <<readBuffer, toClient, rx, misplaced>>
  BY <1>6
<1>7. CASE StartClient(c) \/ MainStep(c) \/ ThreadStep(c)
  BY <1>2, <1>6, <1>7, QuietSocket DEF MainStep
<1>8. CASE UserStep(c)
  BY <1>2, <1>6, <1>8, QuietSocket DEF UserStep, Quit
<1> QED BY <1>2, <1>3, <1>4, <1>5, <1>7, <1>8
        DEF ClientStep, SocketStep, Crash, SendFails

-----------------------------------------------------------------------------
(* The invariant of the streams *)

(* As long as a client's buffer is intact, what it has not handled yet is  *)
(* a row of whole packets.                                                 *)
StreamsWhole == \A c \in Conn : ~misplaced[c] => Whole(Stream(c))

StreamInv == SystemInv /\ StreamsWhole /\ ClientsInStep

(* A client's step keeps its stream whole, and the thread in step. *)
LEMMA ClientKeepsStreams ==
  ASSUME StreamInv, SystemInv', NEW c \in Conn, StartClient(c) \/ ClientStep(c)
  PROVE  (StreamsWhole /\ ClientsInStep)'
<1> USE DEF StreamInv
<1>1. ASSUME NEW d \in Conn, d # c
      PROVE  /\ Stream(d)' = Stream(d)
             /\ misplaced'[d] = misplaced[d] /\ rx'[d] = rx[d]
  BY <1>1, ClientFrame DEF SameClient, SameSocket, Stream
<1>2. ASSUME ~misplaced'[c]
      PROVE  Whole(Stream(c)')
  <2>1. ~misplaced[c] /\ Whole(Stream(c)) /\ Stream(c) \in Seq(Cell)
    BY <1>2, StreamStep, StreamType DEF StreamsWhole
  <2>2. CASE Stream(c)' = Stream(c)
    BY <2>1, <2>2
  <2>3. CASE Stream(c)' = <<>>
    BY <2>3 DEF Whole
  <2>4. CASE /\ rx[c] = "packet" /\ Complete(readBuffer[c])
             /\ Size(front(c)) \in 1 .. Len(readBuffer[c])
             /\ Stream(c)' = Drop(Stream(c), Size(front(c)))
    <3>1. /\ Stream(c) # <<>> /\ Stream(c)[1].pkt = front(c)
          /\ Len(readBuffer[c]) <= Len(Stream(c)) /\ readBuffer[c] \in Seq(Cell)
      BY <2>4, StreamType, ClientFacts DEF Complete, Aligned, front
    <3>2. Size(front(c)) <= Len(Stream(c))
      BY <2>1, <2>4, <3>1
    <3> QED BY <2>1, <2>4, <3>1, <3>2, WholeDrop
  <2> QED BY <1>2, <2>2, <2>3, <2>4, StreamStep
<1>3. ASSUME rx'[c] = "undefined"
      PROVE  misplaced'[c]
  <2>1. CASE rx[c] = "undefined" /\ misplaced'[c] = misplaced[c]
    BY <2>1 DEF ClientsInStep
  <2>2. CASE /\ misplaced'[c] = misplaced[c] /\ Stream(c)' = Stream(c)
             /\ readBuffer'[c] # <<>> /\ ~Aligned(readBuffer'[c])
    <3> SUFFICES ASSUME ~misplaced'[c] PROVE FALSE
      OBVIOUS
    <3>1. readBuffer'[c] \in Seq(Cell) /\ toClient'[c] \in Seq(Cell)
      BY DEF SystemInv, ClientInv, ClientTypeOK, IInv, ServerTypeOK, NetTypeOK
    <3>2. Stream(c)' # <<>> /\ Stream(c)'[1] = readBuffer'[c][1] /\ Stream(c)' \in Seq(Cell)
      BY <2>2, <3>1, ConcatFront DEF Stream
    <3>3. Stream(c)'[1].part = 0
      BY <1>2, <3>2, WholeStart
    <3> QED BY <2>2, <3>2, <3>3 DEF Aligned
  <2> QED BY <1>3, <2>1, <2>2, UndefinedStep
<1>4. StreamsWhole'
  BY <1>1, <1>2 DEF StreamsWhole
<1>5. ClientsInStep'
  BY <1>1, <1>3 DEF ClientsInStep
<1> QED BY <1>4, <1>5

(* The server adds whole packets. *)
LEMMA ServerStream ==
  ASSUME SystemInv, ServerStep
  PROVE  \/ \A c \in Conn : Stream(c)' = Stream(c)
         \/ \E d \in Conn, p \in Packet :
              /\ (SendDelivery /\ p = delivery) \/ (SendRespond /\ p = out /\ d = cursor)
              /\ Stream(d)' = Stream(d) \o Cells(p)
              /\ \A c \in Conn \ {d} : Stream(c)' = Stream(c)
<1>1. /\ IInv /\ ServerNext /\ UNCHANGED readBuffer
      /\ toClient \in [Conn -> Seq(Cell)]
  BY DEF SystemInv, IInv, ServerTypeOK, NetTypeOK, ServerStep, clientVars
<1>2. CASE UNCHANGED toClient
  BY <1>1, <1>2 DEF Stream
<1>3. ASSUME NEW d \in Conn, NEW p \in Packet,
             (SendDelivery /\ p = delivery) \/ (SendRespond /\ p = out /\ d = cursor),
             toClient' = [toClient EXCEPT ![d] = @ \o Cells(p)]
      PROVE  /\ Stream(d)' = Stream(d) \o Cells(p)
             /\ \A c \in Conn \ {d} : Stream(c)' = Stream(c)
  <2>1. /\ readBuffer[d] \in Seq(Cell) /\ toClient[d] \in Seq(Cell)
        /\ Cells(p) \in Seq(Cell)
    BY ClientFacts, CellsOf
  <2>2. /\ toClient'[d] = toClient[d] \o Cells(p)
        /\ \A c \in Conn \ {d} : toClient'[c] = toClient[c]
    BY <1>1, <1>3
  <2>3. Stream(d)' = Stream(d) \o Cells(p)
    <3>1. (readBuffer[d] \o toClient[d]) \o Cells(p) = readBuffer[d] \o (toClient[d] \o Cells(p))
      BY <2>1, StreamsJoined
    <3> QED BY <1>1, <2>2, <3>1 DEF Stream
  <2> QED BY <1>1, <2>2, <2>3 DEF Stream
<1> QED BY <1>1, <1>2, <1>3, ServerStreams

LEMMA ServerKeepsStreams ==
  ASSUME StreamInv, ServerStep
  PROVE  (StreamsWhole /\ ClientsInStep)'
<1>1. /\ UNCHANGED <<misplaced, rx>> /\ SystemInv
  BY DEF ServerStep, clientVars, StreamInv
<1>2. ClientsInStep'
  BY <1>1 DEF StreamInv, ClientsInStep
<1>3. ASSUME NEW c \in Conn, ~misplaced[c], NEW p \in Packet,
             Stream(c)' = Stream(c) \o Cells(p)
      PROVE  Whole(Stream(c)')
  BY <1>1, <1>3, StreamType, WholeAppend DEF StreamInv, StreamsWhole
<1>4. StreamsWhole'
  BY <1>1, <1>3, ServerStream DEF StreamInv, StreamsWhole
<1> QED BY <1>2, <1>4

(* The invariant of the streams holds in every reachable state. *)
THEOREM StreamInvariance == SystemSpec => []StreamInv
<1>1. SystemInit => StreamInv
  <2> SUFFICES ASSUME SystemInit PROVE StreamInv
    OBVIOUS
  <2>1. /\ \A c \in Conn : readBuffer[c] = <<>> /\ toClient[c] = <<>> /\ rx[c] = "recv"
        /\ <<>> \in Seq(Cell)
    BY DEF SystemInit, ServerInit, NetInit, ClientInit
  <2>2. \A c \in Conn : Stream(c) = <<>>
    BY <2>1, ConcatEmptySeq DEF Stream
  <2> QED BY <2>1, <2>2, SystemInitInv DEF StreamInv, StreamsWhole, Whole, ClientsInStep
<1>2. StreamInv /\ [SystemNext]_systemVars => StreamInv'
  <2> SUFFICES ASSUME StreamInv, [SystemNext]_systemVars PROVE StreamInv'
    OBVIOUS
  <2>1. SystemInv'
    BY SystemNextInv DEF StreamInv
  <2>2. ASSUME ServerStep PROVE (StreamsWhole /\ ClientsInStep)'
    BY <2>2, ServerKeepsStreams
  <2>3. ASSUME ClientsStep PROVE (StreamsWhole /\ ClientsInStep)'
    BY <2>1, <2>3, ClientKeepsStreams DEF ClientsStep
  <2>4. ASSUME UNCHANGED systemVars PROVE (StreamsWhole /\ ClientsInStep)'
    <3>1. UNCHANGED <<readBuffer, toClient, rx, misplaced>>
      BY <2>4 DEF systemVars, vars, netVars, clientVars
    <3> QED BY <3>1 DEF StreamInv, StreamsWhole, ClientsInStep, Stream
  <2> QED BY <2>1, <2>2, <2>3, <2>4 DEF SystemNext, StreamInv
<1> QED BY <1>1, <1>2, PTL DEF SystemSpec

(* A socket thread takes only headers for headers as long as clearing has  *)
(* moved all that followed a packet, wherever recv() cuts the stream and   *)
(* however many packets wait in the buffer (clientUtils.c:93).             *)
THEOREM ClientsStayInStep == SystemSpec => []ClientsInStep
<1>1. StreamInv => ClientsInStep
  BY DEF StreamInv
<1> QED BY <1>1, StreamInvariance, PTL
=============================================================================
