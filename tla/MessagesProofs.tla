--------------------------- MODULE MessagesProofs ---------------------------
(***************************************************************************)
(* Proofs about what clients send: the server tears the streams of         *)
(* requests but makes nothing up and reorders nothing, the packets in them *)
(* are those of a client program, and a client writes after a login was    *)
(* granted, and then sends no other.                                       *)
(***************************************************************************)
EXTENDS StreamProofs

-----------------------------------------------------------------------------
(* What happens to a stream of requests *)

(* Cell j of the new stream is cell f[j] of the old one, or what is left   *)
(* of the header that was there.                                           *)
Shrinks(f, new, old) ==
  /\ f \in [DOMAIN new -> DOMAIN old]
  /\ \A i, j \in DOMAIN new : f[i] = f[j] => i = j
  /\ \A j \in DOMAIN new : /\ new[j].pkt = old[f[j]].pkt
                           /\ new[j].part = old[f[j]].part \/ new[j].part = -1
                           /\ j <= f[j]

LEMMA ShrinkNot ==
  ASSUME NEW s \in Seq(Cell)
  PROVE  Shrinks([j \in DOMAIN s |-> j], s, s)
BY DEF Shrinks

LEMMA ShrinkAll ==
  ASSUME NEW s \in Seq(Cell)
  PROVE  Shrinks([j \in {} |-> j], <<>>, s)
<1>1. DOMAIN <<>> = {}
  OBVIOUS
<1> QED BY <1>1 DEF Shrinks

(* The first cells are dropped. *)
LEMMA ShrinkDrop ==
  ASSUME NEW s \in Seq(Cell), NEW n \in 0 .. Len(s)
  PROVE  Shrinks([j \in DOMAIN Drop(s, n) |-> j + n], Drop(s, n), s)
<1> DEFINE r == Drop(s, n)
           f == [j \in DOMAIN r |-> j + n]
<1>1. /\ r \in Seq(Cell) /\ Len(r) = Len(s) - n
      /\ \A i \in 1 .. Len(s) - n : r[i] = s[n + i]
  BY DropCells
<1> HIDE DEF r
<1>2. DOMAIN r = 1 .. Len(s) - n /\ Len(s) \in Nat
  BY <1>1
<1>3. ASSUME NEW j \in DOMAIN r
      PROVE  /\ f[j] \in DOMAIN s /\ r[j] = s[f[j]] /\ j <= f[j] /\ f[j] = j + n
  BY <1>1, <1>2, <1>3
<1> QED BY <1>2, <1>3 DEF Shrinks, r

(* Cells are taken from behind the buffer a. *)
LEMMA ShrinkMiddle ==
  ASSUME NEW a \in Seq(Cell), NEW b \in Seq(Cell), NEW k \in 0 .. Len(b)
  PROVE  \E f : Shrinks(f, a \o Drop(b, k), a \o b)
<1> DEFINE d == Drop(b, k)
           new == a \o d
           old == a \o b
           f == [j \in DOMAIN new |-> IF j <= Len(a) THEN j ELSE j + k]
<1>1. /\ d \in Seq(Cell) /\ Len(d) = Len(b) - k
      /\ \A i \in 1 .. Len(b) - k : d[i] = b[k + i]
  BY DropCells
<1> HIDE DEF d
<1>2. /\ old \in Seq(Cell) /\ Len(old) = Len(a) + Len(b)
      /\ \A i \in 1 .. Len(a) + Len(b) :
           old[i] = IF i <= Len(a) THEN a[i] ELSE b[i - Len(a)]
  BY ConcatProperties
<1>3. /\ new \in Seq(Cell) /\ Len(new) = Len(a) + Len(d)
      /\ \A i \in 1 .. Len(a) + Len(d) :
           new[i] = IF i <= Len(a) THEN a[i] ELSE d[i - Len(a)]
  BY <1>1, ConcatProperties
<1>4. Len(a) \in Nat /\ Len(b) \in Nat
  OBVIOUS
<1> HIDE DEF new, old
<1>5. DOMAIN new = 1 .. Len(a) + Len(b) - k /\ DOMAIN old = 1 .. Len(a) + Len(b)
  BY <1>1, <1>2, <1>3, <1>4
<1>6. ASSUME NEW j \in DOMAIN new
      PROVE  f[j] \in DOMAIN old /\ new[j] = old[f[j]] /\ j <= f[j]
  <2>0. j \in Nat /\ j \in 1 .. Len(a) + Len(d) /\ k \in Nat
    BY <1>1, <1>4, <1>5
  <2>1. CASE j <= Len(a)
    <3>1. f[j] = j /\ j \in 1 .. Len(a) + Len(b)
      BY <1>4, <2>0, <2>1
    <3>2. new[j] = a[j] /\ old[j] = a[j]
      BY <1>2, <1>3, <2>0, <2>1, <3>1
    <3> QED BY <1>5, <2>0, <3>1, <3>2
  <2>2. CASE ~(j <= Len(a))
    <3>1. j - Len(a) \in 1 .. Len(b) - k /\ f[j] = j + k /\ j + k \in 1 .. Len(a) + Len(b)
      BY <1>4, <1>5, <2>0, <2>2
    <3>2. new[j] = d[j - Len(a)]
      BY <1>3, <2>0, <2>2
    <3>3. d[j - Len(a)] = b[k + (j - Len(a))]
      BY <1>1, <3>1
    <3>4. ~(j + k <= Len(a)) /\ k + (j - Len(a)) = (j + k) - Len(a)
      BY <1>4, <2>0, <2>2
    <3>5. old[j + k] = b[(j + k) - Len(a)]
      BY <1>2, <3>1, <3>4
    <3> QED BY <1>5, <2>0, <3>1, <3>2, <3>3, <3>4, <3>5
  <2> QED BY <2>1, <2>2
<1>7. \A i, j \in DOMAIN new : f[i] = f[j] => i = j
  BY <1>4, <1>5
<1>8. f \in [DOMAIN new -> DOMAIN old]
  BY <1>6
<1> HIDE DEF f
<1>9. Shrinks(f, new, old)
  BY <1>6, <1>7, <1>8 DEF Shrinks
<1> QED BY <1>9 DEF new, old, d

(* The first header behind the buffer a is cut. *)
LEMMA ShrinkRest ==
  ASSUME NEW a \in Seq(Cell), NEW b \in Seq(Cell), b # <<>>
  PROVE  \E f : Shrinks(f, a \o (<<Rest(b[1].pkt)>> \o Tail(b)), a \o b)
<1> DEFINE d == <<Rest(b[1].pkt)>> \o Tail(b)
           new == a \o d
           old == a \o b
           f == [j \in DOMAIN new |-> j]
<1>1. Rest(b[1].pkt) \in Cell /\ Rest(b[1].pkt).part = -1 /\ Rest(b[1].pkt).pkt = b[1].pkt
  <2>1. b[1] \in Cell
    BY EmptySeq
  <2>2. b[1].pkt \in Packet /\ Len(b[1].pkt.fields) \in Nat
    BY <2>1, CellFacts
  <2> QED BY <2>2 DEF Rest, Cell
<1>2. /\ d \in Seq(Cell) /\ Len(d) = Len(b)
      /\ \A i \in 1 .. Len(b) : d[i] = IF i = 1 THEN Rest(b[1].pkt) ELSE b[i]
  <2> DEFINE h == <<Rest(b[1].pkt)>>
  <2>1. h \in Seq(Cell) /\ Len(h) = 1 /\ h[1] = Rest(b[1].pkt)
    BY <1>1
  <2>2. /\ Tail(b) \in Seq(Cell) /\ Len(Tail(b)) = Len(b) - 1
        /\ \A i \in 1 .. Len(Tail(b)) : Tail(b)[i] = b[i + 1]
    BY HeadTailProperties
  <2> DEFINE t == Tail(b)
  <2>22. /\ t \in Seq(Cell) /\ Len(t) = Len(b) - 1
         /\ \A i \in 1 .. Len(b) - 1 : t[i] = b[i + 1]
    BY <2>2
  <2>4. Len(b) \in Nat /\ Len(b) >= 1
    BY EmptySeq
  <2> HIDE DEF h, t
  <2>3. /\ h \o t \in Seq(Cell) /\ Len(h \o t) = Len(h) + Len(t)
        /\ \A i \in 1 .. Len(h) + Len(t) :
             (h \o t)[i] = IF i <= Len(h) THEN h[i] ELSE t[i - Len(h)]
    <3>1. h \in Seq(Cell) /\ t \in Seq(Cell)
      BY <2>1, <2>22
    <3> QED BY <3>1, ConcatProperties
  <2> DEFINE r == h \o t
  <2>33. /\ r \in Seq(Cell) /\ Len(r) = Len(b)
         /\ \A i \in 1 .. Len(b) : r[i] = IF i <= 1 THEN h[i] ELSE t[i - 1]
    BY <2>1, <2>22, <2>3, <2>4
  <2> HIDE DEF r
  <2>5. ASSUME NEW i \in 1 .. Len(b)
        PROVE  r[i] = IF i = 1 THEN Rest(b[1].pkt) ELSE b[i]
    <3>1. CASE i = 1
      BY <2>1, <2>33, <3>1
    <3>2. CASE i # 1
      <4>1. i - 1 \in 1 .. Len(b) - 1 /\ ~(i <= 1) /\ (i - 1) + 1 = i
        BY <2>4, <3>2
      <4> QED BY <2>22, <2>33, <3>2, <4>1
    <3> QED BY <3>1, <3>2
  <2>6. d = r
    BY DEF d, r, h, t
  <2> HIDE DEF d
  <2> QED BY <2>33, <2>5, <2>6
<1> HIDE DEF d
<1>3. /\ old \in Seq(Cell) /\ Len(old) = Len(a) + Len(b)
      /\ \A i \in 1 .. Len(a) + Len(b) :
           old[i] = IF i <= Len(a) THEN a[i] ELSE b[i - Len(a)]
  BY ConcatProperties
<1>4. /\ new \in Seq(Cell) /\ Len(new) = Len(a) + Len(d)
      /\ \A i \in 1 .. Len(a) + Len(d) :
           new[i] = IF i <= Len(a) THEN a[i] ELSE d[i - Len(a)]
  BY <1>2, ConcatProperties
<1> HIDE DEF new, old
<1>5. DOMAIN new = DOMAIN old /\ DOMAIN new = 1 .. Len(a) + Len(b)
      /\ Len(a) \in Nat /\ Len(b) \in Nat
  BY <1>2, <1>3, <1>4
<1>6. ASSUME NEW j \in DOMAIN new
      PROVE  new[j].pkt = old[j].pkt /\ (new[j].part = old[j].part \/ new[j].part = -1)
  <2>1. CASE j <= Len(a)
    BY <1>2, <1>3, <1>4, <1>5, <2>1
  <2>2. CASE ~(j <= Len(a))
    <3>1. j - Len(a) \in 1 .. Len(b) /\ new[j] = d[j - Len(a)] /\ old[j] = b[j - Len(a)]
      BY <1>2, <1>3, <1>4, <1>5, <2>2
    <3> QED BY <1>1, <1>2, <3>1
  <2> QED BY <2>1, <2>2
<1>7. Shrinks(f, new, old)
  BY <1>5, <1>6 DEF Shrinks
<1> QED BY <1>7 DEF new, old, d

(* What a shrunk stream holds was in the stream before. *)
LEMMA ShrinkFacts ==
  ASSUME NEW f, NEW new \in Seq(Cell), NEW old \in Seq(Cell), Shrinks(f, new, old)
  PROVE  \A j \in DOMAIN new :
           /\ f[j] \in DOMAIN old /\ new[j].pkt = old[f[j]].pkt
           /\ new[j].part >= 0 => new[j].part = old[f[j]].part
           /\ j >= 1 /\ f[j] >= j /\ j \in Nat /\ f[j] \in Nat
BY DEF Shrinks

(* What a stream holds after a packet has been sent *)
LEMMA AppendedCells ==
  ASSUME NEW s \in Seq(Cell), NEW p \in Packet
  PROVE  /\ s \o Cells(p) \in Seq(Cell)
         /\ Len(s \o Cells(p)) = Len(s) + Size(p)
         /\ \A j \in DOMAIN s : (s \o Cells(p))[j] = s[j] /\ j \in DOMAIN (s \o Cells(p))
         /\ \A j \in DOMAIN (s \o Cells(p)) :
              \/ j \in DOMAIN s
              \/ /\ j - Len(s) \in 1 .. Size(p)
                 /\ (s \o Cells(p))[j] = [pkt |-> p, part |-> j - Len(s) - 1]
<1> DEFINE d == Cells(p)
           r == s \o d
<1>1. /\ d \in Seq(Cell) /\ Len(d) = Size(p)
      /\ \A i \in 1 .. Size(p) : d[i] = [pkt |-> p, part |-> i - 1]
  BY CellsOf
<1>2. Len(s) \in Nat /\ DOMAIN s = 1 .. Len(s) /\ Size(p) \in Nat
  <2>1. Len(d) \in Nat
    BY <1>1
  <2> QED BY <1>1, <2>1
<1> HIDE DEF d
<1>3. /\ r \in Seq(Cell) /\ Len(r) = Len(s) + Len(d)
      /\ \A i \in 1 .. Len(s) + Len(d) :
           r[i] = IF i <= Len(s) THEN s[i] ELSE d[i - Len(s)]
  <2>1. d \in Seq(Cell)
    BY <1>1
  <2> QED BY <2>1, ConcatProperties
<1> HIDE DEF r
<1>4. DOMAIN r = 1 .. Len(s) + Size(p)
  BY <1>1, <1>3
<1>5. ASSUME NEW j \in DOMAIN s
      PROVE  r[j] = s[j] /\ j \in DOMAIN r
  <2>1. j \in 1 .. Len(s) + Len(d) /\ j <= Len(s)
    BY <1>1, <1>2
  <2> QED BY <1>1, <1>3, <1>4, <2>1
<1>6. ASSUME NEW j \in DOMAIN r, j \notin DOMAIN s
      PROVE  /\ j - Len(s) \in 1 .. Size(p)
             /\ r[j] = [pkt |-> p, part |-> j - Len(s) - 1]
  <2>1. j - Len(s) \in 1 .. Size(p) /\ ~(j <= Len(s)) /\ j \in 1 .. Len(s) + Len(d)
    BY <1>1, <1>2, <1>4, <1>6
  <2>2. r[j] = d[j - Len(s)]
    BY <1>3, <2>1
  <2> QED BY <1>1, <2>1, <2>2
<1>7. Len(r) = Len(s) + Size(p)
  BY <1>1, <1>3
<1> QED BY <1>3, <1>5, <1>6, <1>7 DEF r, d

-----------------------------------------------------------------------------
(* The requests of a client that the server has not handled yet *)

Reqs(c) == buffer[c] \o toServer[c]

(* The cells of the request being handled that the handler has done with *)
Spent(c) ==
  IF pc \in {"respond", "reply"} /\ cursor = c THEN Size(request) ELSE 0

LEMMA ReqsType ==
  ASSUME IInv, NEW c \in Conn
  PROVE  /\ Reqs(c) \in Seq(Cell) /\ buffer[c] \in Seq(Cell) /\ toServer[c] \in Seq(Cell)
         /\ buffer[c] # <<>> => Reqs(c) # <<>> /\ Reqs(c)[1] = buffer[c][1]
         /\ \A j \in DOMAIN buffer[c] : j \in DOMAIN Reqs(c) /\ Reqs(c)[j] = buffer[c][j]
<1>1. buffer[c] \in Seq(Cell) /\ toServer[c] \in Seq(Cell)
  BY DEF IInv, ServerTypeOK, NetTypeOK, Node
<1> DEFINE a == buffer[c]
           b == toServer[c]
<1>2. a \in Seq(Cell) /\ b \in Seq(Cell)
  BY <1>1
<1> HIDE DEF a, b
<1>3. /\ a \o b \in Seq(Cell) /\ Len(a \o b) = Len(a) + Len(b)
      /\ \A i \in 1 .. Len(a) + Len(b) :
           (a \o b)[i] = IF i <= Len(a) THEN a[i] ELSE b[i - Len(a)]
  BY <1>2, ConcatProperties
<1>4. Len(a) \in Nat /\ Len(b) \in Nat /\ DOMAIN a = 1 .. Len(a)
  BY <1>2
<1>5. \A j \in DOMAIN a : j \in DOMAIN (a \o b) /\ (a \o b)[j] = a[j]
  <2> DEFINE r == a \o b
  <2>1. r \in Seq(Cell) /\ Len(r) = Len(a) + Len(b)
    BY <1>3
  <2>2. \A j \in DOMAIN a : j \in 1 .. Len(a) + Len(b) /\ j <= Len(a)
    BY <1>4
  <2>3. \A j \in DOMAIN a : r[j] = a[j]
    BY <1>3, <2>2
  <2> HIDE DEF r
  <2>4. DOMAIN r = 1 .. Len(a) + Len(b)
    BY <2>1
  <2> QED BY <2>2, <2>3, <2>4 DEF r
<1>6. a # <<>> => a \o b # <<>> /\ (a \o b)[1] = a[1]
  BY <1>2, ConcatFront
<1> QED BY <1>2, <1>3, <1>5, <1>6 DEF a, b, Reqs

(* What a step of the server does to the requests of a client: nothing is  *)
(* added, and what has been handled leaves the front.                      *)
LEMMA ServerShrinks ==
  ASSUME IInv, ServerNext, NEW c \in Conn
  PROVE  \E f : /\ Shrinks(f, Reqs(c)', Reqs(c))
                /\ SendRespond /\ c = cursor =>
                     \A j \in DOMAIN Reqs(c)' : f[j] = j + Size(request)
<1> DEFINE Result == \E f : /\ Shrinks(f, Reqs(c)', Reqs(c))
                            /\ SendRespond /\ c = cursor =>
                                 \A j \in DOMAIN Reqs(c)' : f[j] = j + Size(request)
<1>1. /\ Reqs(c) \in Seq(Cell) /\ buffer[c] \in Seq(Cell) /\ toServer[c] \in Seq(Cell)
      /\ buffer \in [Node -> Seq(Cell)] /\ toServer \in [Conn -> Seq(Cell)] /\ c \in Node
  BY ReqsType DEF IInv, ServerTypeOK, NetTypeOK, Node
<1>2. ASSUME Reqs(c)' = Reqs(c), ~SendRespond \/ c # cursor
      PROVE  Result
  BY <1>1, <1>2, ShrinkNot
<1>3. ASSUME buffer'[c] = <<>>, toServer'[c] = <<>>, ~SendRespond
      PROVE  Result
  <2>1. Reqs(c)' = <<>>
    <3>1. <<>> \in Seq(Cell)
      OBVIOUS
    <3> QED BY <1>3, <3>1, ConcatEmptySeq DEF Reqs
  <2> QED BY <1>1, <1>3, <2>1, ShrinkAll
<1>4. CASE \/ waitForClients \/ Accept \/ AcceptFails
           \/ processLoginPacket \/ processCreateChatPacket \/ RefuseMessage
           \/ SendDelivery \/ DeliveryFails \/ RespondNotSent
  <2>1. ~SendRespond \/ c # cursor
    BY <1>4 DEF SendRespond, waitForClients, Accept, AcceptFails, processLoginPacket,
                processCreateChatPacket, RefuseMessage, SendDelivery, DeliveryFails,
                Processing, RespondNotSent, Exit, GoProcess
  <2>2. UNCHANGED <<buffer, toServer>>
    BY <1>4 DEF waitForClients, Accept, AcceptFails, processLoginPacket,
                processCreateChatPacket, RefuseMessage, SendDelivery, DeliveryFails,
                RespondNotSent, Exit, netVars, nodeVars
  <2> QED BY <1>2, <2>1, <2>2 DEF Reqs
<1>5. CASE \E k \in 1 .. BufSize : Recv(k)
  <2>1. PICK k \in 1 .. BufSize : Recv(k)
    BY <1>5
  <2>2. /\ pc = "recv" /\ cursor \in Conn /\ cursor \in Node /\ k \in 1 .. Len(toServer[cursor])
    <3>1. pc = "recv" /\ cursor \in Conn /\ cursor \in Node
      BY <2>1 DEF Recv, IInv, ThreadControl, Node
    <3> DEFINE a == Len(toServer[cursor])
               b == BufSize - Len(buffer[cursor])
    <3>2. a \in Int /\ b \in Int /\ k \in 1 .. Min({a, b})
      <4>1. Len(toServer[cursor]) \in Nat /\ Len(buffer[cursor]) \in Nat /\ BufSize \in Nat
        BY <1>1, <3>1, ServerAssumption
      <4> QED BY <2>1, <4>1 DEF Recv
    <3> HIDE DEF a, b
    <3>3. k \in Nat /\ k <= a
      BY <3>2, MinOfTwo
    <3> QED BY <3>1, <3>2, <3>3 DEF a
  <2>3. /\ buffer' = [buffer EXCEPT ![cursor] = @ \o SubSeq(toServer[cursor], 1, k)]
        /\ toServer' = [toServer EXCEPT ![cursor] = Drop(@, k)]
    BY <2>1 DEF Recv
  <2>4. ~SendRespond
    BY <2>2 DEF SendRespond
  <2>5. CASE c = cursor
    <3>1. /\ buffer'[c] = buffer[c] \o SubSeq(toServer[c], 1, k)
          /\ toServer'[c] = Drop(toServer[c], k)
      BY <1>1, <2>3, <2>5
    <3>2. Reqs(c)' = Reqs(c)
      <4>1. k \in 1 .. Len(toServer[c])
        BY <2>2, <2>5
      <4>2. (buffer[c] \o SubSeq(toServer[c], 1, k)) \o Drop(toServer[c], k)
              = buffer[c] \o toServer[c]
        BY <1>1, <4>1, MoveCells
      <4> QED BY <3>1, <4>2 DEF Reqs
    <3> QED BY <1>2, <2>4, <3>2
  <2>6. CASE c # cursor
    <3>1. buffer'[c] = buffer[c] /\ toServer'[c] = toServer[c]
      BY <1>1, <2>3, <2>6
    <3> QED BY <1>2, <2>4, <3>1 DEF Reqs
  <2> QED BY <2>5, <2>6
<1>6. ASSUME NEW x \in Conn, deleteClient(x), ~SendRespond
      PROVE  Result
  <2>1. /\ buffer' = [buffer EXCEPT ![x] = <<>>]
        /\ toServer' = [toServer EXCEPT ![x] = <<>>]
    BY <1>6 DEF deleteClient
  <2>2. CASE c = x
    BY <1>1, <1>3, <1>6, <2>1, <2>2
  <2>3. CASE c # x
    <3>1. buffer'[c] = buffer[c] /\ toServer'[c] = toServer[c]
      BY <1>1, <2>1, <2>3
    <3> QED BY <1>2, <1>6, <3>1 DEF Reqs
  <2> QED BY <2>2, <2>3
<1>7. CASE RecvFails \/ RespondFails
  <2>1. \E x \in Conn : deleteClient(x)
    BY <1>7 DEF RecvFails, RespondFails, IInv, ThreadControl
  <2>2. ~SendRespond
    BY <1>7 DEF RecvFails, RespondFails, SendRespond
  <2> QED BY <1>6, <2>1, <2>2
<1>8. CASE \E k \in 1 .. RespondSize : ReadRespond(k)
  <2>1. PICK k \in 1 .. RespondSize : ReadRespond(k)
    BY <1>8
  <2>2. /\ pc = "respond" /\ recipient \in Conn /\ UNCHANGED buffer
        /\ toServer' = [toServer EXCEPT ![recipient] = Drop(@, k)]
        /\ k \in 1 .. Min({Len(toServer[recipient]), RespondSize})
    BY <2>1 DEF ReadRespond, IInv, ThreadControl, nodeVars
  <2>3. k \in 0 .. Len(toServer[recipient])
    <3> DEFINE a == Len(toServer[recipient])
    <3>1. a \in Int /\ RespondSize \in Int /\ k \in 1 .. Min({a, RespondSize})
      BY <1>1, <2>2, ServerAssumption
    <3> HIDE DEF a
    <3>2. k \in Nat /\ k <= a
      BY <3>1, MinOfTwo
    <3> QED BY <3>1, <3>2 DEF a
  <2>4. ~SendRespond
    BY <2>2 DEF SendRespond
  <2>5. CASE c = recipient
    <3>1. toServer'[c] = Drop(toServer[c], k) /\ buffer'[c] = buffer[c]
          /\ k \in 0 .. Len(toServer[c])
      BY <1>1, <2>2, <2>3, <2>5
    <3>2. \E f : Shrinks(f, buffer[c] \o Drop(toServer[c], k), buffer[c] \o toServer[c])
      BY <1>1, <3>1, ShrinkMiddle
    <3> QED BY <2>4, <3>1, <3>2 DEF Reqs
  <2>6. CASE c # recipient
    <3>1. buffer'[c] = buffer[c] /\ toServer'[c] = toServer[c]
      BY <1>1, <2>2, <2>6
    <3> QED BY <1>2, <2>4, <3>1 DEF Reqs
  <2> QED BY <2>5, <2>6
<1>9. CASE ReadPartOfRespond
  <2>1. /\ pc = "respond" /\ recipient \in Conn /\ UNCHANGED buffer
        /\ toServer[recipient] # <<>>
        /\ \/ UNCHANGED toServer
           \/ toServer' = [toServer EXCEPT ![recipient] =
                             <<Rest(toServer[recipient][1].pkt)>> \o Tail(@)]
    BY <1>9 DEF ReadPartOfRespond, IInv, ThreadControl, nodeVars
  <2>2. ~SendRespond
    BY <2>1 DEF SendRespond
  <2>3. CASE c = recipient /\ toServer' # toServer
    <3>1. /\ toServer'[c] = <<Rest(toServer[c][1].pkt)>> \o Tail(toServer[c])
          /\ buffer'[c] = buffer[c] /\ toServer[c] # <<>>
      BY <1>1, <2>1, <2>3
    <3>2. \E f : Shrinks(f, buffer[c] \o (<<Rest(toServer[c][1].pkt)>> \o Tail(toServer[c])),
                            buffer[c] \o toServer[c])
      BY <1>1, <3>1, ShrinkRest
    <3> QED BY <2>2, <3>1, <3>2 DEF Reqs
  <2>4. CASE c # recipient \/ toServer' = toServer
    <3>1. buffer'[c] = buffer[c] /\ toServer'[c] = toServer[c]
      BY <1>1, <2>1, <2>4
    <3> QED BY <1>2, <2>2, <3>1 DEF Reqs
  <2> QED BY <2>3, <2>4
<1>10. CASE SendRespond
  <2>1. /\ pc = "reply" /\ UNCHANGED toServer
        /\ buffer' = [buffer EXCEPT ![cursor] = Drop(buffer[cursor], Size(request))]
    BY <1>10 DEF SendRespond, clearedBuffer
  <2>2. /\ cursor \in Conn /\ Complete(buffer[cursor]) /\ request \in Packet
    BY <2>1, HandlerFacts
  <2>3. Size(request) \in 0 .. Len(buffer[cursor])
    BY <1>1, <2>2, PacketCells DEF Complete, request
  <2>4. CASE c = cursor
    <3> DEFINE n == Size(request)
    <3>1. buffer'[c] = Drop(buffer[c], n) /\ toServer'[c] = toServer[c]
          /\ n \in 0 .. Len(buffer[c])
      BY <1>1, <2>1, <2>3, <2>4
    <3> HIDE DEF n
    <3>2. Reqs(c)' = Drop(Reqs(c), n)
      BY <1>1, <3>1, ConcatDrop DEF Reqs
    <3>3. n \in 0 .. Len(Reqs(c))
      <4>1. Len(buffer[c]) <= Len(Reqs(c))
        BY <1>1, ConcatFront DEF Reqs
      <4> QED BY <1>1, <3>1, <4>1
    <3>4. Shrinks([j \in DOMAIN Drop(Reqs(c), n) |-> j + n], Drop(Reqs(c), n), Reqs(c))
      BY <1>1, <3>3, ShrinkDrop
    <3> QED BY <3>2, <3>4 DEF n
  <2>5. CASE c # cursor
    <3>1. buffer'[c] = buffer[c] /\ toServer'[c] = toServer[c]
      BY <1>1, <2>1, <2>5
    <3> QED BY <1>2, <2>5, <3>1 DEF Reqs
  <2> QED BY <2>4, <2>5
<1> QED BY <1>4, <1>5, <1>7, <1>8, <1>9, <1>10 DEF ServerNext

-----------------------------------------------------------------------------
(* The packets in a stream *)

PacketsIn(s) == {s[j].pkt : j \in DOMAIN s}

(* The places of the headers of login requests *)
LoginsIn(s) == {j \in DOMAIN s : s[j].part = 0 /\ s[j].pkt.command = "LOGIN"}

LEMMA PacketsConcat ==
  ASSUME NEW a \in Seq(Cell), NEW b \in Seq(Cell)
  PROVE  PacketsIn(a \o b) = PacketsIn(a) \cup PacketsIn(b)
<1> DEFINE r == a \o b
<1>1. /\ r \in Seq(Cell) /\ Len(r) = Len(a) + Len(b)
      /\ \A i \in 1 .. Len(a) + Len(b) :
           r[i] = IF i <= Len(a) THEN a[i] ELSE b[i - Len(a)]
  BY ConcatProperties
<1>2. /\ Len(a) \in Nat /\ Len(b) \in Nat
      /\ DOMAIN a = 1 .. Len(a) /\ DOMAIN b = 1 .. Len(b)
  OBVIOUS
<1> HIDE DEF r
<1>3. DOMAIN r = 1 .. Len(a) + Len(b)
  BY <1>1
<1>4. ASSUME NEW j \in DOMAIN r
      PROVE  r[j].pkt \in PacketsIn(a) \cup PacketsIn(b)
  <2>1. CASE j <= Len(a)
    <3>1. j \in DOMAIN a /\ r[j] = a[j]
      BY <1>1, <1>2, <1>3, <2>1
    <3> QED BY <3>1 DEF PacketsIn
  <2>2. CASE ~(j <= Len(a))
    <3>1. j - Len(a) \in DOMAIN b /\ r[j] = b[j - Len(a)]
      BY <1>1, <1>2, <1>3, <2>2
    <3> QED BY <3>1 DEF PacketsIn
  <2> QED BY <2>1, <2>2
<1>5. ASSUME NEW j \in DOMAIN a
      PROVE  a[j].pkt \in PacketsIn(r)
  <2>1. j \in DOMAIN r /\ r[j] = a[j]
    BY <1>1, <1>2, <1>3
  <2> QED BY <2>1 DEF PacketsIn
<1>6. ASSUME NEW j \in DOMAIN b
      PROVE  b[j].pkt \in PacketsIn(r)
  <2>1. /\ j + Len(a) \in 1 .. Len(a) + Len(b) /\ ~(j + Len(a) <= Len(a))
        /\ (j + Len(a)) - Len(a) = j
    BY <1>2
  <2>2. j + Len(a) \in DOMAIN r /\ r[j + Len(a)] = b[j]
    BY <1>1, <1>3, <2>1
  <2> QED BY <2>2 DEF PacketsIn
<1>7. PacketsIn(r) \subseteq PacketsIn(a) \cup PacketsIn(b)
  BY <1>4 DEF PacketsIn
<1>8. PacketsIn(a) \cup PacketsIn(b) \subseteq PacketsIn(r)
  BY <1>5, <1>6 DEF PacketsIn
<1> QED BY <1>7, <1>8 DEF r

(* The packets and headers of a stream of requests that has been shrunk *)
LEMMA PacketsShrink ==
  ASSUME NEW f, NEW new \in Seq(Cell), NEW old \in Seq(Cell), Shrinks(f, new, old)
  PROVE  /\ PacketsIn(new) \subseteq PacketsIn(old)
         /\ \A j \in LoginsIn(new) : f[j] \in LoginsIn(old)
<1>1. \A j \in DOMAIN new :
           /\ f[j] \in DOMAIN old /\ new[j].pkt = old[f[j]].pkt
           /\ new[j].part >= 0 => new[j].part = old[f[j]].part
  BY ShrinkFacts
<1> QED BY <1>1 DEF PacketsIn, LoginsIn

(* The packets and headers of a stream to which a packet is added *)
LEMMA PacketsAppend ==
  ASSUME NEW s \in Seq(Cell), NEW p \in Packet
  PROVE  /\ PacketsIn(s \o Cells(p)) = PacketsIn(s) \cup {p}
         /\ LoginsIn(s \o Cells(p)) =
              LoginsIn(s) \cup (IF p.command = "LOGIN" THEN {Len(s) + 1} ELSE {})
<1> DEFINE r == s \o Cells(p)
<1>1. /\ r \in Seq(Cell) /\ Len(r) = Len(s) + Size(p)
      /\ \A j \in DOMAIN s : r[j] = s[j] /\ j \in DOMAIN r
      /\ \A j \in DOMAIN r :
           \/ j \in DOMAIN s
           \/ /\ j - Len(s) \in 1 .. Size(p)
              /\ r[j] = [pkt |-> p, part |-> j - Len(s) - 1]
  BY AppendedCells
<1>2. /\ Size(p) \in Nat /\ Size(p) >= 1 /\ Len(s) \in Nat /\ DOMAIN s = 1 .. Len(s)
  BY PacketCells
<1> HIDE DEF r
<1>3. DOMAIN r = 1 .. Len(s) + Size(p)
  BY <1>1
<1>4. Len(s) + 1 \in DOMAIN r /\ r[Len(s) + 1] = [pkt |-> p, part |-> 0]
  <2>1. Len(s) + 1 \in DOMAIN r /\ Len(s) + 1 \notin DOMAIN s /\ Len(s) + 1 - Len(s) - 1 = 0
    BY <1>2, <1>3
  <2> QED BY <1>1, <2>1
<1>5. PacketsIn(r) = PacketsIn(s) \cup {p}
  <2>1. ASSUME NEW j \in DOMAIN r
        PROVE  r[j].pkt \in PacketsIn(s) \cup {p}
    BY <1>1 DEF PacketsIn
  <2>2. PacketsIn(s) \subseteq PacketsIn(r)
    BY <1>1 DEF PacketsIn
  <2>3. p \in PacketsIn(r)
    BY <1>4 DEF PacketsIn
  <2>4. PacketsIn(r) \subseteq PacketsIn(s) \cup {p}
    BY <2>1 DEF PacketsIn
  <2> QED BY <2>2, <2>3, <2>4
<1>6. ASSUME NEW j \in DOMAIN r
      PROVE  j \in LoginsIn(r) <=>
               \/ j \in LoginsIn(s)
               \/ j = Len(s) + 1 /\ p.command = "LOGIN"
  <2>1. CASE j \in DOMAIN s
    BY <1>1, <1>2, <2>1 DEF LoginsIn
  <2>2. CASE j \notin DOMAIN s
    <3>1. r[j].pkt = p /\ r[j].part = j - Len(s) - 1
      BY <1>1, <2>2
    <3>2. r[j].part = 0 <=> j = Len(s) + 1
      BY <1>2, <1>3, <3>1
    <3> QED BY <2>2, <3>1, <3>2 DEF LoginsIn
  <2> QED BY <2>1, <2>2
<1>7. LoginsIn(s) \subseteq DOMAIN r /\ LoginsIn(r) \subseteq DOMAIN r
  BY <1>1 DEF LoginsIn
<1>8. LoginsIn(r) = LoginsIn(s) \cup (IF p.command = "LOGIN" THEN {Len(s) + 1} ELSE {})
  BY <1>4, <1>6, <1>7
<1> QED BY <1>5, <1>8 DEF r

(* The packets a client program sends *)
LEMMA ClientPacketFacts ==
  ASSUME NEW p \in ClientPackets
  PROVE  /\ p \in Packet /\ p.type \in {"REQUEST", "RESPOND"}
         /\ p.command = "LOGIN" => \E n \in Name : p.fields = <<n>>
         /\ p.command = "CREATE_CHAT" => \E n \in Name : p.fields = <<n>>
         /\ p.type = "RESPOND" => p.command = "MESSAGE" /\ p.fields = <<>>
<1>1. p \in Packet
  BY ClientPacketsArePackets
<1> QED BY <1>1 DEF ClientPackets, LoginRequest, ChatRequest, MessageRequest,
                    DeliveryRespond, createPacket

-----------------------------------------------------------------------------
(* What the steps do to the packets in the streams *)

ReqPackets(c) == PacketsIn(Reqs(c))
Logins(c) == LoginsIn(Reqs(c))
StreamPackets(c) == PacketsIn(Stream(c))

(* The packet being handled is a request, and stands at the front. *)
LEMMA RequestAtFront ==
  ASSUME IInv, pc \in {"process", "respond", "reply"}
  PROVE  /\ cursor \in Conn /\ Complete(buffer[cursor]) /\ request \in Packet
         /\ 1 \in DOMAIN Reqs(cursor) /\ Reqs(cursor)[1] = buffer[cursor][1]
         /\ request \in ReqPackets(cursor)
         /\ request.command = "LOGIN" => 1 \in Logins(cursor)
         /\ Size(request) \in Nat /\ Size(request) >= 1
         /\ Size(request) <= Len(buffer[cursor])
<1>1. /\ cursor \in Conn /\ Complete(buffer[cursor]) /\ request \in Packet
  BY HandlerFacts
<1>2. buffer[cursor] \in Seq(Cell) /\ buffer[cursor] # <<>> /\ buffer[cursor][1].part = 0
  BY <1>1, ReqsType DEF Complete, Aligned
<1>3. 1 \in DOMAIN buffer[cursor]
  BY <1>2
<1>4. 1 \in DOMAIN Reqs(cursor) /\ Reqs(cursor)[1] = buffer[cursor][1]
  BY <1>1, <1>3, ReqsType
<1>5. Size(request) \in Nat /\ Size(request) >= 1 /\ Size(request) <= Len(buffer[cursor])
  BY <1>1, PacketCells DEF Complete, request
<1> QED BY <1>1, <1>2, <1>4, <1>5 DEF ReqPackets, Logins, PacketsIn, LoginsIn, request

(* The server takes packets and headers of logins away. *)
LEMMA ServerTakes ==
  ASSUME IInv, IInv', ServerNext, NEW c \in Conn
  PROVE  /\ ReqPackets(c)' \subseteq ReqPackets(c)
         /\ Logins(c) = {} => Logins(c)' = {}
         /\ (\A i, j \in Logins(c) : i = j) => (\A i, j \in Logins(c)' : i = j)
         /\ ((\A i, j \in Logins(c) : i = j) /\ SendRespond /\ c = cursor /\ 1 \in Logins(c))
              => Logins(c)' = {}
<1>1. Reqs(c) \in Seq(Cell)
  BY ReqsType
<1>2. Reqs(c)' \in Seq(Cell)
  <2>1. buffer'[c] \in Seq(Cell) /\ toServer'[c] \in Seq(Cell)
    BY DEF IInv, ServerTypeOK, NetTypeOK, Node
  <2> QED BY <2>1, ConcatFront DEF Reqs
<1> DEFINE old == Reqs(c)
           new == Reqs(c)'
<1>3. PICK f : /\ Shrinks(f, new, old)
               /\ SendRespond /\ c = cursor =>
                    \A j \in DOMAIN new : f[j] = j + Size(request)
  BY ServerShrinks
<1>4. old \in Seq(Cell) /\ new \in Seq(Cell)
  BY <1>1, <1>2
<1>5. ReqPackets(c)' = PacketsIn(new) /\ ReqPackets(c) = PacketsIn(old)
      /\ Logins(c)' = LoginsIn(new) /\ Logins(c) = LoginsIn(old)
  BY DEF ReqPackets, Logins, PacketsIn, LoginsIn
<1> HIDE DEF old, new
<1>6. /\ PacketsIn(new) \subseteq PacketsIn(old)
      /\ \A j \in LoginsIn(new) : f[j] \in LoginsIn(old) /\ j \in DOMAIN new
  BY <1>3, <1>4, PacketsShrink DEF LoginsIn
<1>7. \A i, j \in DOMAIN new : f[i] = f[j] => i = j
  BY <1>3 DEF Shrinks
<1>8. ASSUME \A i, j \in LoginsIn(old) : i = j
      PROVE  \A i, j \in LoginsIn(new) : i = j
  BY <1>6, <1>7, <1>8
<1>9. ASSUME \A i, j \in LoginsIn(old) : i = j, SendRespond, c = cursor, 1 \in LoginsIn(old)
      PROVE  LoginsIn(new) = {}
  <2>1. pc = "reply"
    BY <1>9 DEF SendRespond
  <2>2. Size(request) \in Nat /\ Size(request) >= 1
    BY <2>1, RequestAtFront
  <2>3. \A j \in DOMAIN new : j \in Nat /\ j >= 1
    BY <1>4
  <2>4. \A j \in LoginsIn(new) : f[j] = 1
    BY <1>6, <1>9
  <2>5. \A j \in LoginsIn(new) : f[j] = j + Size(request)
    BY <1>3, <1>6, <1>9
  <2> QED BY <1>6, <2>2, <2>3, <2>4, <2>5
<1>10. LoginsIn(old) = {} => LoginsIn(new) = {}
  BY <1>6
<1> QED BY <1>5, <1>6, <1>8, <1>9, <1>10

(* A client adds the packets it sends. *)
LEMMA ClientSends ==
  ASSUME IInv, NEW c \in Conn, NEW p \in ClientPackets, ClientSend(c, p), buffer' = buffer
  PROVE  \/ Reqs(c)' = Reqs(c)
         \/ Reqs(c)' = Reqs(c) \o Cells(p)
<1>1. /\ buffer[c] \in Seq(Cell) /\ toServer[c] \in Seq(Cell) /\ Cells(p) \in Seq(Cell)
      /\ toServer \in [Conn -> Seq(Cell)]
  BY ReqsType, CellsOf, ClientPacketFacts DEF IInv, ServerTypeOK, NetTypeOK
<1>2. toServer'[c] = toServer[c] \/ toServer'[c] = toServer[c] \o Cells(p)
  BY <1>1 DEF ClientSend
<1>3. (buffer[c] \o toServer[c]) \o Cells(p) = buffer[c] \o (toServer[c] \o Cells(p))
  BY <1>1, StreamsJoined
<1> QED BY <1>2, <1>3 DEF Reqs

LEMMA ClientAdds ==
  ASSUME IInv, NEW c \in Conn, NEW p \in ClientPackets, ClientSend(c, p), buffer' = buffer
  PROVE  /\ ReqPackets(c)' \subseteq ReqPackets(c) \cup {p}
         /\ p.command # "LOGIN" => Logins(c)' = Logins(c)
         /\ Logins(c) = {} => \A i, j \in Logins(c)' : i = j
<1>1. Reqs(c) \in Seq(Cell) /\ p \in Packet
  BY ReqsType, ClientPacketFacts
<1> DEFINE s == Reqs(c)
           r == s \o Cells(p)
<1>2. /\ PacketsIn(r) = PacketsIn(s) \cup {p}
      /\ LoginsIn(r) = LoginsIn(s) \cup (IF p.command = "LOGIN" THEN {Len(s) + 1} ELSE {})
  BY <1>1, PacketsAppend
<1>3. \/ Reqs(c)' = s
      \/ Reqs(c)' = r
  BY ClientSends
<1>4. /\ ReqPackets(c)' = PacketsIn(Reqs(c)') /\ ReqPackets(c) = PacketsIn(s)
      /\ Logins(c)' = LoginsIn(Reqs(c)') /\ Logins(c) = LoginsIn(s)
  BY DEF ReqPackets, Logins, PacketsIn, LoginsIn
<1> HIDE DEF s, r
<1>5. CASE Reqs(c)' = s
  BY <1>4, <1>5
<1>6. CASE Reqs(c)' = r
  <2>1. ReqPackets(c)' = ReqPackets(c) \cup {p}
        /\ Logins(c)' = Logins(c) \cup (IF p.command = "LOGIN" THEN {Len(s) + 1} ELSE {})
    BY <1>2, <1>4, <1>6
  <2> QED BY <2>1
<1> QED BY <1>3, <1>5, <1>6

(* The socket thread adds no packet to the stream, misplaced or not. *)
LEMMA ClearedPackets ==
  ASSUME NEW cells \in Seq(Cell), Complete(cells)
  PROVE  PacketsIn(Cleared(cells)) \subseteq PacketsIn(cells)
<1> DEFINE s == Size(cells[1].pkt)
           n == Len(cells) - s
<1>1. s \in Nat \ {0} /\ n \in Nat /\ Len(cells) \in Nat
  BY FrontPacket, PacketCells DEF Complete
<1>2. Cleared(cells) = [j \in 1 .. n |-> IF j <= s THEN cells[j + s] ELSE cells[j]]
  BY DEF Cleared
<1>3. DOMAIN cells = 1 .. Len(cells)
  OBVIOUS
<1>4. n = Len(cells) - s
  OBVIOUS
<1> HIDE DEF n, s
<1>5. \A j \in 1 .. n : \E i \in DOMAIN cells : Cleared(cells)[j] = cells[i]
  <2> SUFFICES ASSUME NEW j \in 1 .. n
               PROVE  \E i \in DOMAIN cells : Cleared(cells)[j] = cells[i]
    OBVIOUS
  <2>1. j \in DOMAIN cells /\ j + s \in DOMAIN cells
    BY <1>1, <1>3, <1>4
  <2>2. Cleared(cells)[j] = cells[j + s] \/ Cleared(cells)[j] = cells[j]
    BY <1>2
  <2> QED BY <2>1, <2>2
<1>6. DOMAIN Cleared(cells) = 1 .. n
  BY <1>2
<1> QED BY <1>5, <1>6 DEF PacketsIn

LEMMA ClientStreamPackets ==
  ASSUME SystemInv, NEW c \in Conn, StartClient(c) \/ ClientStep(c)
  PROVE  StreamPackets(c)' \subseteq StreamPackets(c)
<1>1. /\ ClientTypeOK /\ PacketsComplete
      /\ readBuffer[c] \in Seq(Cell) /\ toClient[c] \in Seq(Cell)
  BY ClientFacts
<1>2. StreamPackets(c) = PacketsIn(readBuffer[c]) \cup PacketsIn(toClient[c])
  BY <1>1, PacketsConcat DEF StreamPackets, Stream
<1>3. ASSUME Stream(c)' = Stream(c) PROVE StreamPackets(c)' = StreamPackets(c)
  BY <1>3 DEF StreamPackets, PacketsIn
<1>4. ASSUME End(c) PROVE StreamPackets(c)' = {}
  <2>1. Stream(c)' = <<>>
    BY <1>4, EndedStream
  <2>2. DOMAIN <<>> = {}
    OBVIOUS
  <2> QED BY <2>1, <2>2 DEF StreamPackets, PacketsIn
<1>5. ASSUME NEW cells \in Seq(Cell), PacketsIn(cells) \subseteq PacketsIn(readBuffer[c]),
             readBuffer'[c] = cells, toClient'[c] = toClient[c]
      PROVE  StreamPackets(c)' \subseteq StreamPackets(c)
  <2>1. PacketsIn(cells \o toClient[c]) = PacketsIn(cells) \cup PacketsIn(toClient[c])
    BY <1>1, <1>5, PacketsConcat
  <2>2. StreamPackets(c)' = PacketsIn(cells \o toClient[c])
    BY <1>5 DEF StreamPackets, Stream, PacketsIn
  <2> QED BY <1>2, <1>5, <2>1, <2>2
<1>6. ASSUME HandleDelivery(c) \/ HandleRespond(c)
      PROVE  StreamPackets(c)' \subseteq StreamPackets(c)
  <2>1. Complete(readBuffer[c])
    BY <1>1, <1>6 DEF PacketsComplete, HandleDelivery, HandleRespond
  <2>2. readBuffer'[c] = Cleared(readBuffer[c]) /\ toClient' = toClient
    BY <1>1, <1>6 DEF HandleDelivery, HandleRespond, ClientSend, netVars, ClientTypeOK
  <2> QED BY <1>1, <1>5, <2>1, <2>2, ClearedBuffer, ClearedPackets
<1>7. ASSUME DropRespond(c)
      PROVE  StreamPackets(c)' \subseteq StreamPackets(c)
  <2> DEFINE a == readBuffer[c]
             n == Len(a) - Size(front(c))
             r == SubSeq(a, 1, n)
  <2>1. Complete(a) /\ front(c) = a[1].pkt
    BY <1>1, <1>7 DEF PacketsComplete, DropRespond, front
  <2>2. n \in Nat /\ n <= Len(a) /\ Len(a) \in Nat
    BY <1>1, <2>1, FrontPacket, PacketCells DEF Complete
  <2>3. readBuffer'[c] = r /\ toClient' = toClient
    BY <1>1, <1>7 DEF DropRespond, netVars, ClientTypeOK
  <2>4. a \in Seq(Cell)
    BY <1>1
  <2> HIDE DEF n, a
  <2>5. r \in Seq(Cell) /\ DOMAIN r = 1 .. n /\ \A j \in 1 .. n : r[j] = a[j]
    <3>1. \A i \in 1 .. n : a[i] \in Cell
      BY <2>2, <2>4
    <3>2. r \in Seq(Cell) /\ Len(r) = (IF 1 <= n + 1 THEN n + 1 - 1 ELSE 0)
          /\ \A j \in 1 .. n - 1 + 1 : r[j] = a[1 + j - 1]
      BY <2>2, <3>1, SubSeqProperties
    <3> QED BY <2>2, <3>2
  <2>6. PacketsIn(r) \subseteq PacketsIn(a)
    <3>1. 1 .. n \subseteq DOMAIN a
      BY <2>2, <2>4
    <3> QED BY <2>5, <3>1 DEF PacketsIn
  <2> QED BY <1>5, <2>3, <2>5, <2>6 DEF a
<1>8. CASE \E k \in 1 .. MemSize : Receive(c, k)
  BY <1>3, <1>8, ReceiveStream
<1>9. CASE ReceiveNothing(c)
  <2>1. UNCHANGED <<readBuffer, toClient>>
    BY <1>9 DEF ReceiveNothing, netVars
  <2> QED BY <1>3, <2>1 DEF Stream
<1>10. CASE UNCHANGED <<readBuffer, toClient, rx, misplaced>>
  BY <1>3, <1>10 DEF Stream
<1>11. CASE StartClient(c) \/ MainStep(c) \/ ThreadStep(c) \/ UserStep(c)
  BY <1>4, <1>10, <1>11, QuietSocket DEF MainStep, UserStep, Quit
<1> QED BY <1>4, <1>6, <1>7, <1>8, <1>9, <1>11
        DEF ClientStep, SocketStep, Crash, SendFails

(* The server adds a delivery or a respond to the stream of one client *)
LEMMA ServerStreamPackets ==
  ASSUME SystemInv, ServerStep
  PROVE  \/ \A c \in Conn : StreamPackets(c)' = StreamPackets(c)
         \/ \E d \in Conn, p \in Packet :
              /\ (SendDelivery /\ p = delivery) \/ (SendRespond /\ p = out /\ d = cursor)
              /\ StreamPackets(d)' = StreamPackets(d) \cup {p}
              /\ \A c \in Conn \ {d} : StreamPackets(c)' = StreamPackets(c)
<1>1. ASSUME NEW c \in Conn, Stream(c)' = Stream(c)
      PROVE  StreamPackets(c)' = StreamPackets(c)
  BY <1>1 DEF StreamPackets, PacketsIn
<1>2. ASSUME NEW c \in Conn, NEW p \in Packet, Stream(c)' = Stream(c) \o Cells(p)
      PROVE  StreamPackets(c)' = StreamPackets(c) \cup {p}
  <2>1. Stream(c) \in Seq(Cell)
    BY StreamType
  <2>2. PacketsIn(Stream(c) \o Cells(p)) = PacketsIn(Stream(c)) \cup {p}
    BY <2>1, PacketsAppend
  <2> QED BY <1>2, <2>2 DEF StreamPackets, PacketsIn
<1> QED BY <1>1, <1>2, ServerStream

-----------------------------------------------------------------------------
(* A client logs in once *)

(* Client c has not asked to log in yet, or its request is still on its    *)
(* way or being handled.                                                   *)
Waiting(c) == ui[c] \in {"off", "nickname"} \/ Logins(c) # {}

(* Nothing that could be taken for a granted login has been sent to c.     *)
Unanswered(c) ==
  /\ typed[c] = {} /\ ui[c] \notin {"menu", "creating"}
  /\ \A p \in ReqPackets(c) : p.fields # <<>> => p.command = "LOGIN"
  /\ \A p \in StreamPackets(c) : p.type # "DELIVERY" => p.status # "OK"
  /\ \A i \in Id :
       LET r == pendingRequests[c][i]
       IN  r # NULL => /\ r.event => r.data # NULL
                       /\ r.data # NULL => r.data.status # "OK"
  /\ rxRequest[c] # FREED

LoginOK(c) ==
  /\ peer[c] = "idle" => ui[c] = "off"
  /\ ReqPackets(c) \subseteq ClientPackets
  /\ \A i, j \in Logins(c) : i = j
  /\ ui[c] \in {"off", "nickname"} => \A p \in ReqPackets(c) : p.fields = <<>>
  /\ Waiting(c) => Unanswered(c)
  /\ \A p \in ReqPackets(c) :
       p.command = "MESSAGE" /\ p.fields # <<>> => typed[c] # {}
  /\ \A th \in threads[c] : At(contacts[c], th).text \in typed[c]

(* An OK, and a delivery, answer a request that has fields. *)
HandlerKnows ==
  pc = "respond" \/ (pc = "reply" /\ out.status = "OK") => request.fields # <<>>

LoginInv ==
  /\ \A c \in Conn : LoginOK(c)
  /\ HandlerKnows
  /\ \A x \in Node : nickname[x] \in Name

(* A login request has a nickname. *)
LEMMA NoLogins ==
  ASSUME IInv, NEW c \in Conn, ReqPackets(c) \subseteq ClientPackets,
         \A p \in ReqPackets(c) : p.fields = <<>>
  PROVE  Logins(c) = {}
<1> SUFFICES ASSUME NEW j \in Logins(c) PROVE FALSE
  OBVIOUS
<1>1. Reqs(c)[j].pkt \in ReqPackets(c) /\ Reqs(c)[j].pkt.command = "LOGIN"
  BY DEF Logins, LoginsIn, ReqPackets, PacketsIn
<1>2. PICK n \in Name : Reqs(c)[j].pkt.fields = <<n>>
  BY <1>1, ClientPacketFacts
<1> QED BY <1>1, <1>2

(* A client's own steps: it is Unanswered until the server has granted it  *)
(* the login.                                                              *)
LEMMA ClientKeepsLogin ==
  ASSUME SystemInv, LoginInv, NEW c \in Conn, StartClient(c) \/ ClientStep(c),
         UNCHANGED serverVars
  PROVE  LoginOK(c)'
<1>1. /\ ClientTypeOK /\ PacketsComplete /\ IInv /\ NetTypeOK
      /\ contacts[c] \in Seq(Contact) /\ readBuffer[c] \in Seq(Cell)
      /\ threads[c] \subseteq Places(contacts[c])
      /\ pendingRequests[c] \in [Id -> PendingRequest \cup {NULL}]
      /\ buffer' = buffer
  BY ClientFacts DEF SystemInv, IInv, ServerTypeOK, serverVars, nodeVars
<1>2. LoginOK(c)
  BY DEF LoginInv
<1>3. ASSUME toServer' = toServer
      PROVE  ReqPackets(c)' = ReqPackets(c) /\ Logins(c)' = Logins(c)
  BY <1>1, <1>3 DEF ReqPackets, Logins, PacketsIn, LoginsIn, Reqs
<1>4. StreamPackets(c)' \subseteq StreamPackets(c)
  BY ClientStreamPackets
<1>5. Waiting(c) => Unanswered(c) /\ threads[c] = {}
  BY <1>2 DEF LoginOK, Unanswered
<1>6. CASE StartClient(c)
  <2>1. /\ ui[c] = "off" /\ ui'[c] = "nickname" /\ peer'[c] = "up" /\ toServer' = toServer
        /\ UNCHANGED <<contacts, typed, threads, pendingRequests, rxRequest>>
    BY <1>1, <1>2, <1>6 DEF StartClient, Connect, LoginOK, ClientTypeOK, NetTypeOK
  <2> QED BY <1>2, <1>3, <1>4, <2>1 DEF LoginOK, Waiting, Unanswered
<1>7. ASSUME End(c)
      PROVE  LoginOK(c)'
  <2>1. /\ peer'[c] = "down" /\ ui'[c] = "ended" /\ threads'[c] = {}
        /\ \A i \in Id : pendingRequests'[c][i] = NULL
        /\ rxRequest'[c] = NULL /\ toServer' = toServer
        /\ UNCHANGED <<contacts, typed>>
    BY <1>1, <1>7 DEF End, ClientClose, ClientTypeOK, NetTypeOK
  <2>2. NULL # FREED
    BY ClientAssumption
  <2> QED BY <1>2, <1>3, <1>4, <2>1, <2>2 DEF LoginOK, Waiting, Unanswered
<1>8. ASSUME NEW n \in Name, logIn(c, n)
      PROVE  LoginOK(c)'
  <2> DEFINE p == LoginRequest(n, FreeRequest(c))
             r == [owner |-> MAIN, data |-> NULL, event |-> FALSE]
  <2>1. /\ ui[c] = "nickname" /\ ui'[c] = "login" /\ HasFreeRequest(c)
        /\ ClientSend(c, p) /\ createRequest(c, MAIN)
        /\ UNCHANGED <<contacts, typed, threads, rxRequest>>
    BY <1>1, <1>8 DEF logIn, ClientTypeOK
  <2>2. FreeRequest(c) \in Id
    BY <2>1, FreeSlot
  <2>3. p \in ClientPackets /\ p.command = "LOGIN"
    BY <2>2 DEF ClientPackets, LoginRequest, createPacket
  <2> HIDE DEF p
  <2>4. Logins(c) = {} /\ Waiting(c)
    BY <1>1, <1>2, <2>1, NoLogins DEF LoginOK, Waiting
  <2>5. /\ ReqPackets(c)' \subseteq ReqPackets(c) \cup {p}
        /\ \A i, j \in Logins(c)' : i = j
    BY <1>1, <2>1, <2>3, <2>4, ClientAdds
  <2>6. \A i \in Id : pendingRequests'[c][i] = (IF i = FreeRequest(c) THEN r
                                                 ELSE pendingRequests[c][i])
    BY <1>1, <2>1, <2>2 DEF createRequest, ClientTypeOK
  <2>7. peer' = peer
    BY <2>1 DEF ClientSend
  <2>8. Unanswered(c)'
    BY <1>4, <1>5, <2>1, <2>3, <2>4, <2>5, <2>6 DEF Unanswered
  <2> QED BY <1>2, <2>1, <2>3, <2>5, <2>7, <2>8 DEF LoginOK
<1>9. ASSUME NEW n \in Name, createChat(c, n)
      PROVE  LoginOK(c)'
  <2> DEFINE p == ChatRequest(n, FreeRequest(c))
  <2>1. /\ ui[c] = "menu" /\ ui'[c] = "creating" /\ HasFreeRequest(c)
        /\ ClientSend(c, p)
        /\ UNCHANGED <<contacts, typed, threads, rxRequest>>
    BY <1>1, <1>9 DEF createChat, ClientTypeOK
  <2>2. FreeRequest(c) \in Id
    BY <2>1, FreeSlot
  <2>3. p \in ClientPackets /\ p.command = "CREATE_CHAT"
    BY <2>2 DEF ClientPackets, ChatRequest, createPacket
  <2> HIDE DEF p
  <2>4. ~Waiting(c)
    BY <1>5, <2>1 DEF Unanswered
  <2>5. ReqPackets(c)' \subseteq ReqPackets(c) \cup {p} /\ Logins(c)' = Logins(c)
    BY <1>1, <2>1, <2>3, ClientAdds
  <2>6. peer' = peer /\ ~Waiting(c)'
    BY <2>1, <2>4, <2>5 DEF ClientSend, Waiting
  <2> QED BY <1>2, <2>1, <2>3, <2>5, <2>6 DEF LoginOK
<1>10. ASSUME NEW k \in DOMAIN contacts[c], NEW t \in Text, sendMessage(c, k, t)
       PROVE  LoginOK(c)'
  <2> DEFINE km == <<k, Len(contacts[c][k].messages) + 1>>
  <2>1. /\ ui[c] = "menu" /\ ui' = ui /\ typed'[c] = typed[c] \cup {t}
        /\ UNCHANGED netVars
    BY <1>1, <1>10 DEF sendMessage, ClientTypeOK
  <2>2. /\ Extends(contacts[c], contacts'[c])
        /\ At(contacts'[c], km) = [text |-> t, sender |-> TRUE, state |-> "PENDING"]
        /\ threads' = [threads EXCEPT ![c] = @ \cup {km}]
    BY <1>10, UserMessage
  <2> HIDE DEF km
  <2>3. ReqPackets(c)' = ReqPackets(c) /\ Logins(c)' = Logins(c) /\ peer' = peer
    BY <1>3, <2>1 DEF netVars
  <2>4. ~Waiting(c)'
    BY <1>5, <2>1, <2>3 DEF Waiting, Unanswered
  <2>5. At(contacts'[c], km).text = t /\ threads'[c] = threads[c] \cup {km}
    BY <1>1, <2>2 DEF ClientTypeOK
  <2>6. \A th \in threads'[c] : At(contacts'[c], th).text \in typed'[c]
    BY <1>1, <1>2, <2>1, <2>2, <2>5 DEF LoginOK, Extends
  <2> QED BY <1>2, <2>1, <2>3, <2>4, <2>6 DEF LoginOK
<1>11. ASSUME NEW i \in Id, LogInAnswered(c, i), ~End(c)
       PROVE  LoginOK(c)'
  <2>1. /\ ui[c] = "login" /\ Answered(c, i, MAIN) /\ "OK" \in Statuses(c, i)
        /\ ui'[c] = "menu" /\ UNCHANGED <<netVars, contacts, typed, threads>>
    BY <1>1, <1>11 DEF LogInAnswered, ClientTypeOK
  <2>2. ReqPackets(c)' = ReqPackets(c) /\ Logins(c)' = Logins(c) /\ peer' = peer
    BY <1>3, <2>1 DEF netVars
  <2>3. ~Waiting(c)
    <3> SUFFICES ASSUME Unanswered(c) PROVE FALSE
      BY <1>5
    <3> QED BY <2>1 DEF Unanswered, Answered, Statuses
  <2>4. ~Waiting(c)'
    BY <2>1, <2>2, <2>3 DEF Waiting
  <2>5. peer[c] # "idle"
    BY <1>2, <2>1 DEF LoginOK
  <2> QED BY <1>2, <2>1, <2>2, <2>4, <2>5 DEF LoginOK
<1>12. ASSUME NEW i \in Id, CreateChatAnswered(c, i)
       PROVE  LoginOK(c)'
  <2>1. /\ ui[c] = "creating" /\ ui'[c] = "menu" /\ UNCHANGED <<netVars, typed, threads>>
        /\ \/ contacts' = [contacts EXCEPT ![c] = createContact(@, wanted[c])]
           \/ contacts' = contacts
    BY <1>1, <1>12 DEF CreateChatAnswered, ClientTypeOK
  <2>2. ReqPackets(c)' = ReqPackets(c) /\ Logins(c)' = Logins(c) /\ peer' = peer
    BY <1>3, <2>1 DEF netVars
  <2>3. ~Waiting(c)'
    BY <1>5, <2>1, <2>2 DEF Waiting, Unanswered
  <2>4. wanted[c] \in String
    BY <1>1 DEF ClientTypeOK, String
  <2>5. Extends(contacts[c], contacts'[c])
    <3>1. Extends(contacts[c], createContact(contacts[c], wanted[c]))
      BY <1>1, <2>4, ContactExtends
    <3>2. \/ contacts'[c] = createContact(contacts[c], wanted[c])
          \/ contacts'[c] = contacts[c]
      BY <1>1, <2>1 DEF ClientTypeOK
    <3>3. Extends(contacts[c], contacts[c])
      BY DEF Extends
    <3> QED BY <3>1, <3>2, <3>3
  <2>6. \A th \in threads'[c] : At(contacts'[c], th).text \in typed'[c]
    BY <1>1, <1>2, <2>1, <2>5 DEF LoginOK, Extends
  <2>7. peer[c] # "idle"
    BY <1>2, <2>1 DEF LoginOK
  <2> QED BY <1>2, <2>1, <2>2, <2>3, <2>6, <2>7 DEF LoginOK
<1>13. ASSUME NEW th \in threads[c], SendRequest(c, th)
       PROVE  LoginOK(c)'
  <2> DEFINE contact == contacts[c][th[1]]
             p == MessageRequest(contact.nickname, contact.messages[th[2]].text,
                                 FreeRequest(c))
  <2>1. UNCHANGED <<ui, contacts, typed>> /\ threads'[c] \subseteq threads[c]
    BY <1>1, <1>13 DEF SendRequest, ClientTypeOK
  <2>2. ~Waiting(c) /\ typed[c] # {} /\ ui[c] \notin {"off", "nickname"}
    BY <1>2, <1>5 DEF LoginOK, Waiting
  <2>3. peer[c] # "idle"
    BY <1>2, <2>2 DEF LoginOK
  <2>4. \/ /\ HasFreeRequest(c) /\ ClientSend(c, p)
        \/ UNCHANGED netVars
    BY <1>13 DEF SendRequest
  <2>5. CASE UNCHANGED netVars
    <3>1. ReqPackets(c)' = ReqPackets(c) /\ Logins(c)' = Logins(c) /\ peer' = peer
      BY <1>3, <2>5 DEF netVars
    <3>2. ~Waiting(c)'
      BY <2>1, <2>2, <3>1 DEF Waiting
    <3> QED BY <1>2, <2>1, <2>2, <2>3, <3>1, <3>2 DEF LoginOK
  <2>6. CASE HasFreeRequest(c) /\ ClientSend(c, p)
    <3>1. th \in Thread /\ contact \in Contact /\ contact.messages[th[2]] \in Message
      <4>1. th \in Places(contacts[c])
        BY <1>1
      <4>2. th \in Thread /\ th[1] \in DOMAIN contacts[c] /\ th[2] \in DOMAIN contact.messages
        BY <4>1 DEF Places
      <4>3. contact \in Contact
        BY <1>1, <4>2
      <4>4. contact.messages \in Seq(Message)
        BY <4>3 DEF Contact
      <4> QED BY <4>2, <4>3, <4>4
    <3>2. FreeRequest(c) \in Id
      BY <2>6, FreeSlot
    <3>3. contact.nickname \in String /\ contact.messages[th[2]].text \in String
      BY <3>1 DEF Contact, Message
    <3>4. p \in ClientPackets /\ p.command = "MESSAGE"
      BY <3>2, <3>3 DEF ClientPackets, MessageRequest, createPacket
    <3>5. ClientSend(c, p)
      BY <2>6
    <3> HIDE DEF p
    <3>6. ReqPackets(c)' \subseteq ReqPackets(c) \cup {p} /\ Logins(c)' = Logins(c)
      BY <1>1, <3>4, <3>5, ClientAdds
    <3>7. peer' = peer /\ ~Waiting(c)'
      BY <2>1, <2>2, <3>5, <3>6 DEF ClientSend, Waiting
    <3> QED BY <1>2, <2>1, <2>2, <3>4, <3>6, <3>7 DEF LoginOK
  <2> QED BY <2>4, <2>5, <2>6
<1>14. ASSUME NEW i \in Id, MessageAnswered(c, i)
       PROVE  LoginOK(c)'
  <2>1. UNCHANGED <<netVars, ui, typed>> /\ threads[c] # {}
    BY <1>14 DEF MessageAnswered
  <2>2. ~Waiting(c)
    BY <1>5, <2>1
  <2>3. ReqPackets(c)' = ReqPackets(c) /\ Logins(c)' = Logins(c) /\ peer' = peer
    BY <1>3, <2>1 DEF netVars
  <2>4. Extends(contacts[c], contacts'[c]) /\ threads'[c] \subseteq threads[c]
    BY <1>1, <1>14, AnsweredMessage DEF ClientTypeOK
  <2>5. \A th \in threads'[c] : At(contacts'[c], th).text \in typed'[c]
    BY <1>1, <1>2, <2>1, <2>4 DEF LoginOK, Extends
  <2>6. ~Waiting(c)'
    BY <2>1, <2>2, <2>3 DEF Waiting
  <2> QED BY <1>2, <2>1, <2>3, <2>5, <2>6 DEF LoginOK
<1>15. ASSUME \/ \E k \in 1 .. MemSize : Receive(c, k)
              \/ ReceiveNothing(c)
       PROVE  LoginOK(c)'
  <2>1. /\ UNCHANGED <<ui, contacts, typed, threads, pendingRequests, rxRequest>>
        /\ peer' = peer /\ toServer' = toServer
    BY <1>15 DEF Receive, ReceiveNothing, ClientRecv, netVars
  <2> QED BY <1>2, <1>3, <1>4, <2>1 DEF LoginOK, Waiting, Unanswered
<1>16. ASSUME HandleDelivery(c)
       PROVE  LoginOK(c)'
  <2> DEFINE p == DeliveryRespond(newMessageStatus(c))
  <2>1. /\ UNCHANGED <<ui, typed, threads, rxRequest>> /\ ClientSend(c, p)
        /\ contacts'[c] = handleNewMessage(c)
        /\ UNCHANGED pendingRequests \/ rxRequest[c] = FREED
    BY <1>1, <1>16 DEF HandleDelivery, StaleSetEvent, ClientTypeOK
  <2>2. p \in ClientPackets /\ p.command = "MESSAGE" /\ p.fields = <<>>
    BY DEF newMessageStatus, ClientPackets, DeliveryRespond, createPacket
  <2>3. Extends(contacts[c], contacts'[c])
    BY <1>1, <2>1, NewMessage
  <2> HIDE DEF p
  <2>4. ReqPackets(c)' \subseteq ReqPackets(c) \cup {p} /\ Logins(c)' = Logins(c)
    BY <1>1, <2>1, <2>2, ClientAdds
  <2>5. peer' = peer /\ (Waiting(c)' => Waiting(c))
    BY <2>1, <2>4 DEF ClientSend, Waiting
  <2>6. \A th \in threads'[c] : At(contacts'[c], th).text \in typed'[c]
    BY <1>1, <1>2, <2>1, <2>3 DEF LoginOK, Extends
  <2>7. Waiting(c) => Unanswered(c)'
    BY <1>4, <1>5, <2>1, <2>2, <2>4 DEF Unanswered
  <2> QED BY <1>2, <2>1, <2>2, <2>4, <2>5, <2>6, <2>7 DEF LoginOK
<1>17. ASSUME HandleRespond(c)
       PROVE  LoginOK(c)'
  <2> DEFINE p == front(c)
  <2>1. /\ UNCHANGED <<netVars, ui, contacts, typed, threads>>
        /\ rx[c] = "packet" /\ p.type # "DELIVERY"
        /\ pendingRequests[c][p.id] # NULL /\ writeToRequest(c, p)
        /\ rxRequest'[c] = p.id
    BY <1>1, <1>17 DEF HandleRespond, ClientTypeOK
  <2>2. Complete(readBuffer[c])
    BY <1>1, <2>1 DEF PacketsComplete
  <2>3. p \in Packet /\ p \in PacketsIn(readBuffer[c])
    <3>1. 1 \in DOMAIN readBuffer[c]
      BY <1>1, <2>2 DEF Complete, Aligned
    <3>2. readBuffer[c][1] \in Cell
      BY <1>1, <3>1
    <3> QED BY <3>1, <3>2, CellFacts DEF front, PacketsIn
  <2>4. p \in StreamPackets(c)
    <3>1. toClient[c] \in Seq(Cell)
      BY ClientFacts
    <3> QED BY <1>1, <2>3, <3>1, PacketsConcat DEF StreamPackets, Stream
  <2>5. p.id \in Id /\ FREED \notin Id
    BY <2>3, ClientAssumption DEF Packet
  <2>6. /\ pendingRequests'[c][p.id].data = p
        /\ pendingRequests'[c][p.id].event
        /\ \A i \in Id \ {p.id} : pendingRequests'[c][i] = pendingRequests[c][i]
    <3>1. pendingRequests[c][p.id] \in PendingRequest
      BY <1>1, <2>1, <2>5
    <3> QED BY <1>1, <2>1, <2>5, <3>1 DEF writeToRequest, ClientTypeOK, PendingRequest
  <2>7. p # NULL
    BY <2>3, SystemAssumption
  <2> HIDE DEF p
  <2>8. Unanswered(c) => Unanswered(c)'
    BY <1>3, <1>4, <2>1, <2>4, <2>5, <2>6, <2>7 DEF Unanswered, netVars
  <2>9. ReqPackets(c)' = ReqPackets(c) /\ Logins(c)' = Logins(c) /\ peer' = peer
    BY <1>3, <2>1 DEF netVars
  <2>10. Waiting(c)' = Waiting(c)
    BY <2>1, <2>9 DEF Waiting
  <2> QED BY <1>2, <2>1, <2>8, <2>9, <2>10 DEF LoginOK
<1>18. ASSUME DropRespond(c)
       PROVE  LoginOK(c)'
  <2>1. /\ UNCHANGED <<netVars, ui, contacts, typed, threads, pendingRequests>>
        /\ rxRequest'[c] = NULL
    BY <1>1, <1>18 DEF DropRespond, ClientTypeOK
  <2>2. NULL # FREED
    BY ClientAssumption
  <2>3. peer' = peer /\ toServer' = toServer
    BY <2>1 DEF netVars
  <2> QED BY <1>2, <1>3, <1>4, <2>1, <2>2, <2>3 DEF LoginOK, Waiting, Unanswered
<1>19. CASE UserStep(c)
  BY <1>7, <1>8, <1>9, <1>10, <1>19 DEF UserStep, Quit
<1>20. CASE MainStep(c)
  BY <1>7, <1>11, <1>12, <1>20 DEF MainStep
<1>21. CASE ThreadStep(c)
  BY <1>13, <1>14, <1>21 DEF ThreadStep
<1>22. CASE SocketStep(c)
  BY <1>7, <1>15, <1>16, <1>17, <1>18, <1>22 DEF SocketStep, Crash
<1>23. CASE SendFails(c)
  BY <1>7, <1>23 DEF SendFails
<1> QED BY <1>6, <1>19, <1>20, <1>21, <1>22, <1>23 DEF ClientStep

(* A client's step is not seen in what is known of the others. *)
LEMMA OthersKeepLogin ==
  ASSUME SystemInv, LoginInv, NEW c \in Conn, StartClient(c) \/ ClientStep(c),
         UNCHANGED serverVars, NEW d \in Conn \ {c}
  PROVE  LoginOK(d)'
<1>1. SameClient(d) /\ SameSocket(d)
  BY ClientFrame
<1>2. buffer' = buffer
  BY DEF serverVars, nodeVars
<1>3. /\ ReqPackets(d)' = ReqPackets(d) /\ Logins(d)' = Logins(d)
      /\ StreamPackets(d)' = StreamPackets(d)
  BY <1>1, <1>2 DEF ReqPackets, Logins, StreamPackets, PacketsIn, LoginsIn, Reqs, Stream,
                    SameClient, SameSocket
<1>4. Unanswered(d) => Unanswered(d)'
  BY <1>1, <1>3 DEF Unanswered, SameClient
<1>5. Waiting(d)' = Waiting(d)
  BY <1>1, <1>3 DEF Waiting, SameClient
<1>6. LoginOK(d)
  BY DEF LoginInv
<1> QED BY <1>1, <1>3, <1>4, <1>5, <1>6 DEF LoginOK, SameClient, SameSocket

(* What a login request is granted is the nickname in it: nothing else     *)
(* that has a field is in the stream of a client that waits.               *)
LEMMA GrantedName ==
  ASSUME IInv, LoginInv, Processing("LOGIN"), field(1) # NULL
  PROVE  field(1) \in Name
<1> DEFINE x == buffer[cursor][2]
<1>1. /\ cursor \in Conn /\ Complete(buffer[cursor]) /\ 1 \in Logins(cursor)
      /\ Size(request) \in Nat /\ Size(request) <= Len(buffer[cursor])
  BY RequestAtFront DEF Processing
<1>2. 1 < Size(request) /\ x.part > 0 /\ field(1) = x.pkt.fields[x.part]
  BY DEF field, readPacketString, request
<1>3. /\ buffer[cursor] \in Seq(Cell)
      /\ \A j \in DOMAIN buffer[cursor] :
           j \in DOMAIN Reqs(cursor) /\ Reqs(cursor)[j] = buffer[cursor][j]
  BY <1>1, ReqsType
<1>4. 2 \in DOMAIN buffer[cursor]
  BY <1>1, <1>2, <1>3
<1>5. x \in Cell /\ x.pkt \in ReqPackets(cursor)
  BY <1>3, <1>4 DEF ReqPackets, PacketsIn
<1>6. x.part \in 1 .. Len(x.pkt.fields)
  BY <1>2, <1>5, CellFacts
<1>7. LoginOK(cursor) /\ Waiting(cursor)
  BY <1>1 DEF LoginInv, Waiting
<1>8. Len(<<>>) = 0
  OBVIOUS
<1>9. x.pkt.command = "LOGIN" /\ x.pkt \in ClientPackets
  BY <1>5, <1>6, <1>7, <1>8 DEF LoginOK, Unanswered
<1>10. PICK n \in Name : x.pkt.fields = <<n>>
  BY <1>9, ClientPacketFacts
<1> QED BY <1>2, <1>6, <1>10

LEMMA NamesStayNames ==
  ASSUME IInv, LoginInv, ServerNext
  PROVE  \A x \in Node : nickname'[x] \in Name
<1>1. nickname \in [Node -> String] /\ \A x \in Node : nickname[x] \in Name
  BY DEF IInv, ServerTypeOK, LoginInv
<1>2. CASE nickname' = nickname
  BY <1>1, <1>2
<1>3. ASSUME NEW c, deleteClient(c)
      PROVE  \A x \in Node : nickname'[x] \in Name
  BY <1>1, <1>3 DEF deleteClient, Name
<1>4. CASE processLoginPacket /\ loginStatus = "OK"
  <2>1. field(1) # NULL /\ Processing("LOGIN")
    BY <1>4 DEF loginStatus, processLoginPacket
  <2>2. field(1) \in Name
    BY <2>1, GrantedName
  <2> QED BY <1>1, <1>4, <2>2 DEF processLoginPacket
<1>5. CASE processLoginPacket /\ loginStatus # "OK"
  BY <1>2, <1>5 DEF processLoginPacket
<1> QED BY <1>2, <1>3, <1>4, <1>5
        DEF ServerNext, waitForClients, Accept, AcceptFails, Recv, RecvFails,
            processCreateChatPacket, RefuseMessage, SendDelivery, DeliveryFails, Exit,
            ReadRespond, ReadPartOfRespond, RespondFails, SendRespond, RespondNotSent,
            nodeVars

LEMMA HandlerStillKnows ==
  ASSUME IInv, IInv', LoginInv, ServerNext
  PROVE  HandlerKnows'
<1>1. HandlerKnows
  BY DEF LoginInv
<1>2. ASSUME field(1) # NULL, pc = "process" PROVE request.fields # <<>>
  <2>1. 1 < Size(request)
    BY <1>2 DEF field, readPacketString, request
  <2>2. Len(<<>>) = 0
    OBVIOUS
  <2> QED BY <2>1, <2>2 DEF Size
<1>3. ASSUME buffer'[cursor] = buffer[cursor], cursor' = cursor
      PROVE  request' = request
  BY <1>3 DEF request
<1>4. ASSUME NEW status, Respond(status), status = "OK" => request.fields # <<>>,
             buffer'[cursor] = buffer[cursor]
      PROVE  HandlerKnows'
  <2>1. pc' = "reply" /\ out'.status = status /\ request' = request
    BY <1>3, <1>4 DEF Respond, createPacket
  <2> QED BY <1>4, <2>1 DEF HandlerKnows
<1>5. CASE processLoginPacket
  <2>1. Respond(loginStatus) /\ buffer' = buffer /\ pc = "process"
    BY <1>5 DEF processLoginPacket, Processing
  <2>2. loginStatus = "OK" => field(1) # NULL
    BY DEF loginStatus
  <2> QED BY <1>2, <1>4, <2>1, <2>2
<1>6. CASE processCreateChatPacket
  <2>1. Respond(createChatStatus) /\ buffer' = buffer /\ pc = "process"
    BY <1>6 DEF processCreateChatPacket, Processing, nodeVars
  <2>2. createChatStatus = "OK" => field(1) # NULL
    BY DEF createChatStatus
  <2> QED BY <1>2, <1>4, <2>1, <2>2
<1>7. CASE RefuseMessage
  <2>1. (Respond("CANT_READ") \/ Respond("FAILURE")) /\ buffer' = buffer
    BY <1>7 DEF RefuseMessage, nodeVars
  <2> QED BY <1>4, <2>1
<1>8. CASE SendDelivery
  <2>1. /\ field(1) # NULL /\ pc = "process" /\ pc' = "respond"
        /\ buffer' = buffer /\ cursor' = cursor
    BY <1>8 DEF SendDelivery, Processing, unreadable, nodeVars
  <2>2. request' = request
    BY <1>3, <2>1
  <2> QED BY <1>2, <2>1, <2>2 DEF HandlerKnows
<1>9. ASSUME NEW delivered, Returns(delivered), pc = "respond",
             buffer'[cursor] = buffer[cursor]
      PROVE  HandlerKnows'
  <2>1. request.fields # <<>>
    BY <1>1, <1>9 DEF HandlerKnows
  <2>2. PICK status : Respond(status)
    BY <1>9 DEF Returns
  <2> QED BY <1>4, <1>9, <2>1, <2>2
<1>10. ASSUME NEW k \in 1 .. RespondSize, ReadRespond(k) PROVE HandlerKnows'
  BY <1>9, <1>10 DEF ReadRespond, nodeVars
<1>11. CASE ReadPartOfRespond
  <2>1. pc = "respond" /\ buffer' = buffer
    BY <1>11 DEF ReadPartOfRespond, nodeVars
  <2>2. \/ pc' = pc /\ cursor' = cursor
        \/ Returns(FALSE)
    BY <1>11 DEF ReadPartOfRespond
  <2>3. CASE pc' = pc /\ cursor' = cursor
    <3>1. request' = request
      BY <1>3, <2>1, <2>3
    <3> QED BY <1>1, <2>1, <2>3, <3>1 DEF HandlerKnows
  <2>4. CASE Returns(FALSE)
    <3>1. PICK no \in BOOLEAN : no = FALSE
      OBVIOUS
    <3>2. Returns(no)
      BY <2>4, <3>1
    <3> QED BY <1>9, <2>1, <3>2
  <2> QED BY <2>2, <2>3, <2>4
<1>12. CASE RespondFails
  <2>1. pc = "respond" /\ deleteClient(recipient)
    BY <1>12 DEF RespondFails
  <2>2. \/ pc' = "undefined"
        \/ recipient # cursor /\ Returns(FALSE)
    BY <1>12 DEF RespondFails
  <2>3. CASE recipient # cursor /\ Returns(FALSE)
    <3>1. cursor \in Node /\ buffer \in [Node -> Seq(Cell)]
      BY <2>1, HandlerFacts DEF IInv, ServerTypeOK
    <3>2. buffer'[cursor] = buffer[cursor]
      BY <2>1, <2>3, <3>1 DEF deleteClient
    <3>3. PICK no \in BOOLEAN : no = FALSE
      OBVIOUS
    <3>4. Returns(no)
      BY <2>3, <3>3
    <3> QED BY <1>9, <2>1, <3>2, <3>4
  <2> QED BY <2>2, <2>3 DEF HandlerKnows
<1>13. CASE pc' \in {"select", "accept", "recv", "process", "exited"}
  BY <1>13 DEF HandlerKnows
<1>14. ASSUME NEW list, NEW i, NEW bufs, GoProcess(list, i, bufs)
       PROVE  pc' \in {"select", "process"}
  BY <1>14 DEF GoProcess
<1>15. ASSUME NEW list, NEW i, NEW reads, NEW bufs, GoRecv(list, i, reads, bufs)
       PROVE  pc' \in {"select", "process", "recv"}
  BY <1>14, <1>15 DEF GoRecv
<1>16. CASE \/ waitForClients \/ Accept \/ AcceptFails
            \/ \E k \in 1 .. BufSize : Recv(k)
            \/ RecvFails \/ SendRespond \/ DeliveryFails \/ RespondNotSent
  <2>1. waitForClients => pc' \in {"select", "accept", "recv", "process"}
    BY <1>15 DEF waitForClients
  <2>2. Accept \/ AcceptFails => pc' \in {"select", "recv", "process"}
    BY <1>15 DEF Accept, AcceptFails
  <2>3. (\E k \in 1 .. BufSize : Recv(k)) => pc' \in {"select", "recv", "process"}
    BY <1>15 DEF Recv
  <2>4. RecvFails \/ SendRespond => pc' \in {"select", "process"}
    BY <1>14 DEF RecvFails, SendRespond
  <2>5. DeliveryFails \/ RespondNotSent => pc' = "exited"
    BY DEF DeliveryFails, RespondNotSent, Exit
  <2> QED BY <1>13, <1>16, <2>1, <2>2, <2>3, <2>4, <2>5
<1> QED BY <1>5, <1>6, <1>7, <1>8, <1>10, <1>11, <1>12, <1>16 DEF ServerNext

(* The server's steps: the first OK it sends to a client is the answer to  *)
(* the login request at the front of his stream of requests.               *)
LEMMA ServerKeepsLogin ==
  ASSUME SystemInv, SystemInv', LoginInv, ServerStep, NEW c \in Conn
  PROVE  LoginOK(c)'
<1>1. /\ IInv /\ IInv' /\ ServerNext /\ LoginOK(c)
      /\ UNCHANGED <<ui, typed, contacts, threads, pendingRequests, rxRequest>>
  BY DEF SystemInv, ServerStep, clientVars, LoginInv
<1>2. peer'[c] = "idle" => peer[c] = "idle"
  <2>1. peer \in [Conn -> {"idle", "up", "cut", "down"}]
    BY <1>1 DEF IInv, ServerTypeOK, NetTypeOK
  <2>2. \A S : Cut(S)[c] = "idle" => peer[c] = "idle"
    BY <2>1 DEF Cut
  <2> QED BY <1>1, <2>2
          DEF ServerNext, waitForClients, Accept, AcceptFails, Recv, RecvFails,
              processLoginPacket, processCreateChatPacket, RefuseMessage, SendDelivery,
              DeliveryFails, Exit, ReadRespond, ReadPartOfRespond, RespondFails,
              SendRespond, RespondNotSent, deleteClient, netVars
<1>3. /\ ReqPackets(c)' \subseteq ReqPackets(c)
      /\ Logins(c) = {} => Logins(c)' = {}
      /\ \A i, j \in Logins(c)' : i = j
      /\ SendRespond /\ c = cursor /\ 1 \in Logins(c) => Logins(c)' = {}
  BY <1>1, ServerTakes DEF LoginOK
<1>4. Waiting(c)' => Waiting(c)
  BY <1>1, <1>3 DEF Waiting
<1>5. ASSUME Waiting(c)', NEW p \in StreamPackets(c)', p.type # "DELIVERY", p.status = "OK"
      PROVE  FALSE
  <2>1. Waiting(c) /\ Unanswered(c)
    BY <1>1, <1>4, <1>5 DEF LoginOK
  <2>2. PICK d \in Conn, q \in Packet :
              /\ (SendDelivery /\ q = delivery) \/ (SendRespond /\ q = out /\ d = cursor)
              /\ StreamPackets(d)' = StreamPackets(d) \cup {q}
              /\ \A x \in Conn \ {d} : StreamPackets(x)' = StreamPackets(x)
    BY <1>5, <2>1, ServerStreamPackets DEF Unanswered
  <2>3. p = q /\ c = d
    BY <1>5, <2>1, <2>2 DEF Unanswered
  <2>4. SendRespond /\ p = out /\ c = cursor
    BY <1>5, <2>2, <2>3 DEF delivery, createPacket
  <2>5. request.fields # <<>> /\ request \in ReqPackets(c)
        /\ (request.command = "LOGIN" => 1 \in Logins(c))
    BY <1>1, <1>5, <2>4, RequestAtFront DEF LoginInv, HandlerKnows, SendRespond
  <2>6. request.command = "LOGIN"
    BY <2>1, <2>5 DEF Unanswered
  <2>7. ui[c] \notin {"off", "nickname"}
    BY <1>1, <2>5 DEF LoginOK
  <2>8. Logins(c)' = {}
    BY <1>3, <2>4, <2>5, <2>6
  <2> QED BY <1>1, <1>5, <2>7, <2>8 DEF Waiting
<1>6. Waiting(c)' => Unanswered(c)'
  BY <1>1, <1>3, <1>4, <1>5 DEF LoginOK, Unanswered
<1> QED BY <1>1, <1>2, <1>3, <1>6 DEF LoginOK

LEMMA LoginInit == SystemInit => LoginInv
<1> SUFFICES ASSUME SystemInit
             PROVE  LoginInv
  OBVIOUS
<1> USE DEF SystemInit, ServerInit, ClientInit, NetInit
<1>1. /\ <<>> \o <<>> = <<>> /\ DOMAIN <<>> = {}
  OBVIOUS
<1>2. ASSUME NEW c \in Conn
      PROVE  LoginOK(c)
  <2>1. buffer[c] = <<>> /\ toServer[c] = <<>> /\ readBuffer[c] = <<>> /\ toClient[c] = <<>>
    BY DEF Node
  <2>2. ReqPackets(c) = {} /\ Logins(c) = {} /\ StreamPackets(c) = {}
    BY <1>1, <2>1 DEF ReqPackets, Logins, StreamPackets, PacketsIn, LoginsIn, Reqs, Stream
  <2>3. NULL # FREED
    BY ClientAssumption
  <2> QED BY <2>2, <2>3 DEF LoginOK, Unanswered
<1>3. HandlerKnows
  BY DEF HandlerKnows
<1> QED BY <1>2, <1>3 DEF LoginInv, Name

LEMMA LoginNext ==
  ASSUME SystemInv, SystemInv', LoginInv, [SystemNext]_systemVars
  PROVE  LoginInv'
<1>1. CASE ServerStep
  <2>1. IInv /\ IInv' /\ ServerNext
    BY <1>1 DEF SystemInv, ServerStep
  <2> QED BY <1>1, <2>1, ServerKeepsLogin, HandlerStillKnows, NamesStayNames DEF LoginInv
<1>2. CASE ClientsStep
  <2>1. PICK c \in Conn : StartClient(c) \/ ClientStep(c)
    BY <1>2 DEF ClientsStep
  <2>2. UNCHANGED serverVars
    BY <1>2 DEF ClientsStep
  <2>3. \A d \in Conn : LoginOK(d)'
    BY <2>1, <2>2, ClientKeepsLogin, OthersKeepLogin
  <2>4. HandlerKnows' /\ nickname' = nickname
    BY <2>2 DEF LoginInv, HandlerKnows, request, serverVars, nodeVars, localVars
  <2> QED BY <2>3, <2>4 DEF LoginInv
<1>3. CASE UNCHANGED systemVars
  <2>1. UNCHANGED <<peer, toServer, toClient, buffer, nickname, pc, cursor, out>>
    BY <1>3 DEF systemVars, vars, netVars, serverVars, nodeVars, localVars
  <2>2. UNCHANGED <<ui, contacts, typed, threads, pendingRequests, readBuffer, rxRequest>>
    BY <1>3 DEF systemVars, clientVars
  <2>3. ASSUME NEW c \in Conn PROVE LoginOK(c)'
    <3>1. /\ ReqPackets(c)' = ReqPackets(c) /\ Logins(c)' = Logins(c)
          /\ StreamPackets(c)' = StreamPackets(c)
      BY <2>1, <2>2 DEF ReqPackets, Logins, StreamPackets, PacketsIn, LoginsIn, Reqs, Stream
    <3> QED BY <2>1, <2>2, <3>1 DEF LoginInv, LoginOK, Unanswered, Waiting
  <2>4. HandlerKnows'
    BY <2>1 DEF LoginInv, HandlerKnows, request
  <2> QED BY <2>1, <2>3, <2>4 DEF LoginInv
<1> QED BY <1>1, <1>2, <1>3 DEF SystemNext

(* What is known of a client that has not been let in: until the server    *)
(* grants his login he has sent no message, nothing in his streams could   *)
(* be taken for the grant, and no request of his has an answer; and the    *)
(* nicknames of the server's clients are nicknames (logIn,                 *)
(* processLoginPacket, sendMessage).                                       *)
THEOREM LoginInvariance == SystemSpec => []LoginInv
<1>1. SystemInit => LoginInv
  BY LoginInit
<1>2. SystemInv /\ SystemInv' /\ LoginInv /\ [SystemNext]_systemVars => LoginInv'
  BY LoginNext
<1>3. SystemSpec => []SystemInv
  BY SystemInvariance
<1> QED BY <1>1, <1>2, <1>3, PTL DEF SystemSpec
=============================================================================
