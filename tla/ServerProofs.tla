---------------------------- MODULE ServerProofs ----------------------------
(***************************************************************************)
(* Proofs about the server, for any number of connections, nicknames and   *)
(* texts, any buffer sizes and any clients.                                *)
(***************************************************************************)
EXTENDS Server, SequenceTheorems, FiniteSetTheorems, WellFoundedInduction,
        TLAPS

-----------------------------------------------------------------------------
(* Sequences and searching *)

(* A set of naturals that is not empty has a minimum. *)
LEMMA MinExists ==
  ASSUME NEW S \in SUBSET Nat, S # {}
  PROVE  /\ Min(S) \in S
         /\ \A y \in S : Min(S) =< y
<1> DEFINE R == {ss \in Nat \X Nat : ss[1] < ss[2]}
<1>0. IsWellFoundedOn(R, Nat)
  BY NatLessThanWellFounded DEF OpToRel
<1> HIDE DEF R
<1>1. PICK x \in S : \A y \in S : ~ (<<y, x>> \in R)
  BY <1>0, WFMin
<1>2. \A y \in S : ~ (y < x)
  BY <1>1 DEF R
<1>3. \A y \in S : x =< y
  BY <1>2
<1> QED BY <1>3 DEF Min

(* The bound of a number of cells that recv() returns *)
LEMMA MinOfTwo ==
  ASSUME NEW a \in Int, NEW b \in Int, NEW k \in 1 .. Min({a, b})
  PROVE  k \in Nat \ {0} /\ k <= a /\ k <= b
<1>1. \E x \in {a, b} : \A y \in {a, b} : x =< y
  OBVIOUS
<1>2. Min({a, b}) \in {a, b} /\ \A y \in {a, b} : Min({a, b}) =< y
  BY <1>1 DEF Min
<1> QED BY <1>2

(* FirstIn returns an element of the list that is in the set, or NULL when *)
(* there is none.                                                          *)
LEMMA FirstInList ==
  ASSUME NEW T, NULL \notin T, NEW list \in Seq(T), NEW i \in Nat \ {0}, NEW S
  PROVE  /\ FirstIn(list, i, S) # NULL =>
              FirstIn(list, i, S) \in S \cap ToSet(list)
         /\ FirstIn(list, i, S) = NULL =>
              \A j \in i .. Len(list) : list[j] \notin S
<1> DEFINE found == {j \in i .. Len(list) : list[j] \in S}
<1>1. CASE found = {}
  BY <1>1 DEF FirstIn
<1>2. CASE found # {}
  <2>1. Min(found) \in found
    <3>1. found \in SUBSET Nat
      OBVIOUS
    <3> QED BY <1>2, <3>1, MinExists
  <2>2. FirstIn(list, i, S) = list[Min(found)]
    BY <1>2 DEF FirstIn
  <2>3. Min(found) \in DOMAIN list /\ list[Min(found)] \in S \cap T
    BY <2>1
  <2> QED BY <2>2, <2>3 DEF ToSet
<1> QED BY <1>1, <1>2

(* The place Position finds *)
LEMMA PositionIn ==
  ASSUME NEW T, NEW s \in Seq(T), NEW x \in ToSet(s)
  PROVE  Position(s, x) \in 1 .. Len(s) /\ s[Position(s, x)] = x
BY DEF Position, ToSet

(* The cells of a list without the one at p *)
LEMMA UnlinkedCells ==
  ASSUME NEW T, NEW s \in Seq(T), NEW p \in 1 .. Len(s)
  PROVE  LET r == RemoveAt(s, p)
         IN  /\ r \in Seq(T) /\ Len(r) = Len(s) - 1
             /\ \A i \in 1 .. Len(s) - 1 : r[i] = IF i < p THEN s[i] ELSE s[i + 1]
<1> DEFINE a == SubSeq(s, 1, p - 1)
           b == SubSeq(s, p + 1, Len(s))
           r == RemoveAt(s, p)
<1>1. p \in 1 .. Len(s)
  OBVIOUS
<1>2. /\ a \in Seq(T) /\ Len(a) = p - 1
      /\ \A i \in 1 .. p - 1 : a[i] = s[i]
  <2>1. \A i \in 1 .. p - 1 : s[i] \in T
    BY <1>1
  <2> QED BY <1>1, <2>1, SubSeqProperties
<1>3. /\ b \in Seq(T) /\ Len(b) = Len(s) - p
      /\ \A i \in 1 .. Len(s) - p : b[i] = s[p + i]
  <2>1. \A i \in p + 1 .. Len(s) : s[i] \in T
    BY <1>1
  <2>2. /\ b \in Seq(T) /\ Len(b) = IF p + 1 <= Len(s) THEN Len(s) - (p + 1) + 1 ELSE 0
        /\ \A i \in 1 .. Len(s) - (p + 1) + 1 : b[i] = s[p + 1 + i - 1]
    BY <1>1, <2>1, SubSeqProperties
  <2> QED BY <1>1, <2>2
<1>4. r = a \o b
  BY DEF RemoveAt
<1> HIDE DEF a, b, r
<1>5. /\ r \in Seq(T) /\ Len(r) = Len(s) - 1
      /\ \A i \in 1 .. Len(s) - 1 : r[i] = IF i < p THEN s[i] ELSE s[i + 1]
  <2>1. /\ r \in Seq(T) /\ Len(r) = Len(a) + Len(b)
        /\ \A i \in 1 .. Len(a) + Len(b) :
             r[i] = IF i <= Len(a) THEN a[i] ELSE b[i - Len(a)]
    BY <1>2, <1>3, <1>4, ConcatProperties
  <2>2. Len(s) \in Nat /\ Len(a) + Len(b) = Len(s) - 1
    BY <1>1, <1>2, <1>3
  <2>3. ASSUME NEW i \in 1 .. Len(s) - 1
        PROVE  r[i] = IF i < p THEN s[i] ELSE s[i + 1]
    <3>1. CASE i < p
      BY <1>1, <1>2, <2>1, <2>2, <3>1
    <3>2. CASE ~(i < p)
      <4>1. i - (p - 1) \in 1 .. Len(s) - p /\ p + (i - (p - 1)) = i + 1
        BY <1>1, <2>2, <3>2
      <4>2. r[i] = b[i - (p - 1)]
        BY <1>1, <1>2, <2>1, <2>2, <3>2
      <4>3. b[i - (p - 1)] = s[p + (i - (p - 1))]
        BY <1>3, <4>1
      <4> QED BY <3>2, <4>1, <4>2, <4>3
    <3> QED BY <3>1, <3>2
  <2> QED BY <2>1, <2>2, <2>3
<1> QED BY <1>5 DEF r

(* Unlinking a node: the list without it *)
LEMMA UnlinkList ==
  ASSUME NEW T, NEW s \in Seq(T), IsInjective(s), NEW x \in ToSet(s)
  PROVE  LET r == RemoveAt(s, Position(s, x))
         IN  /\ r \in Seq(T)
             /\ IsInjective(r)
             /\ ToSet(r) = ToSet(s) \ {x}
<1> DEFINE p == Position(s, x)
           r == RemoveAt(s, p)
<1>1. p \in 1 .. Len(s) /\ s[p] = x
  BY PositionIn
<1> HIDE DEF p
<1>2. /\ r \in Seq(T) /\ Len(r) = Len(s) - 1
      /\ \A i \in 1 .. Len(s) - 1 : r[i] = IF i < p THEN s[i] ELSE s[i + 1]
  BY <1>1, UnlinkedCells
<1> HIDE DEF r
<1>3. DOMAIN s = 1 .. Len(s) /\ DOMAIN r = 1 .. Len(s) - 1
  BY <1>2
<1>4. IsInjective(r)
  <2>1. \A i, j \in 1 .. Len(s) : s[i] = s[j] => i = j
    BY <1>3 DEF IsInjective
  <2>2. ASSUME NEW i \in 1 .. Len(s) - 1, NEW j \in 1 .. Len(s) - 1, r[i] = r[j]
        PROVE  i = j
    <3>1. s[IF i < p THEN i ELSE i + 1] = s[IF j < p THEN j ELSE j + 1]
      BY <1>2, <2>2
    <3>2. (IF i < p THEN i ELSE i + 1) = (IF j < p THEN j ELSE j + 1)
      BY <1>1, <2>1, <3>1
    <3> QED BY <1>1, <3>2
  <2> QED BY <1>3, <2>2 DEF IsInjective
<1>5. ToSet(r) = ToSet(s) \ {x}
  <2>1. ASSUME NEW y \in ToSet(r)
        PROVE  y \in ToSet(s) \ {x}
    <3>1. PICK i \in 1 .. Len(s) - 1 : r[i] = y
      BY <1>3 DEF ToSet
    <3>2. PICK j \in 1 .. Len(s) : j # p /\ s[j] = y
      BY <1>1, <1>2, <3>1
    <3> QED BY <1>1, <1>3, <3>2 DEF ToSet, IsInjective
  <2>2. ASSUME NEW y \in ToSet(s), y # x
        PROVE  y \in ToSet(r)
    <3>1. PICK i \in 1 .. Len(s) : s[i] = y
      BY <1>3 DEF ToSet
    <3>2. CASE i < p
      BY <1>1, <1>2, <1>3, <3>1, <3>2 DEF ToSet
    <3>3. CASE i > p
      <4>1. i - 1 \in 1 .. Len(s) - 1 /\ r[i - 1] = y
        BY <1>1, <1>2, <3>1, <3>3
      <4> QED BY <1>3, <4>1 DEF ToSet
    <3> QED BY <1>1, <2>2, <3>1, <3>2, <3>3
  <2> QED BY <2>1, <2>2
<1> QED BY <1>2, <1>4, <1>5 DEF r, p

(* Linking a node at the head of the list *)
LEMMA LinkList ==
  ASSUME NEW T, NEW s \in Seq(T), IsInjective(s), NEW x \in T, x \notin ToSet(s)
  PROVE  LET r == <<x>> \o s
         IN  /\ r \in Seq(T)
             /\ IsInjective(r)
             /\ ToSet(r) = ToSet(s) \cup {x}
<1> DEFINE r == <<x>> \o s
<1>1. <<x>> \in Seq(T) /\ Len(<<x>>) = 1 /\ <<x>>[1] = x
  OBVIOUS
<1>2. /\ r \in Seq(T) /\ Len(r) = Len(s) + 1
      /\ \A i \in 1 .. Len(s) + 1 : r[i] = IF i = 1 THEN x ELSE s[i - 1]
  <2>1. /\ r \in Seq(T) /\ Len(r) = 1 + Len(s)
        /\ \A i \in 1 .. 1 + Len(s) : r[i] = IF i <= 1 THEN <<x>>[i] ELSE s[i - 1]
    BY <1>1, ConcatProperties
  <2> QED BY <1>1, <2>1
<1> HIDE DEF r
<1>3. DOMAIN s = 1 .. Len(s) /\ DOMAIN r = 1 .. Len(s) + 1 /\ Len(s) \in Nat
  BY <1>2
<1>4. IsInjective(r)
  <2>1. ASSUME NEW i \in 1 .. Len(s) + 1, NEW j \in 1 .. Len(s) + 1, r[i] = r[j]
        PROVE  i = j
    <3>1. \A k \in 1 .. Len(s) + 1 : k # 1 => k - 1 \in 1 .. Len(s) /\ r[k] = s[k - 1]
      BY <1>2, <1>3
    <3>2. \A k \in 1 .. Len(s) : s[k] # x
      BY <1>3 DEF ToSet
    <3>3. CASE i = 1
      BY <1>2, <1>3, <2>1, <3>1, <3>2, <3>3
    <3>4. CASE j = 1
      BY <1>2, <1>3, <2>1, <3>1, <3>2, <3>4
    <3>5. CASE i # 1 /\ j # 1
      <4>1. s[i - 1] = s[j - 1] /\ i - 1 \in DOMAIN s /\ j - 1 \in DOMAIN s
        BY <1>3, <2>1, <3>1, <3>5
      <4>2. i - 1 = j - 1
        BY <4>1 DEF IsInjective
      <4> QED BY <1>3, <4>2
    <3> QED BY <3>3, <3>4, <3>5
  <2> QED BY <1>3, <2>1 DEF IsInjective
<1>5. ToSet(r) = ToSet(s) \cup {x}
  <2>1. ToSet(r) \subseteq ToSet(s) \cup {x}
    BY <1>2, <1>3 DEF ToSet
  <2>2. x \in ToSet(r)
    <3>1. 1 \in DOMAIN r /\ r[1] = x
      BY <1>2, <1>3
    <3> QED BY <3>1 DEF ToSet
  <2>3. ASSUME NEW y \in ToSet(s)
        PROVE  y \in ToSet(r)
    <3>1. PICK i \in 1 .. Len(s) : s[i] = y
      BY <1>3 DEF ToSet
    <3>2. i + 1 \in DOMAIN r /\ r[i + 1] = y
      BY <1>2, <1>3, <3>1
    <3> QED BY <3>2 DEF ToSet
  <2> QED BY <2>1, <2>2, <2>3
<1> QED BY <1>2, <1>4, <1>5 DEF r

(* The node `old' of the list gets the socket `new' *)
LEMMA RenameInList ==
  ASSUME NEW T, NEW s \in Seq(T), IsInjective(s), NEW old \in ToSet(s),
         NEW new \in T, new \notin ToSet(s)
  PROVE  LET r == ReplaceAll(s, old, new)
         IN  /\ r \in Seq(T)
             /\ IsInjective(r)
             /\ ToSet(r) = (ToSet(s) \ {old}) \cup {new}
<1> DEFINE r == ReplaceAll(s, old, new)
<1> USE DEF ReplaceAll
<1>1. DOMAIN s = 1 .. Len(s) /\ Len(s) \in Nat /\ \A i \in DOMAIN s : s[i] \in T
  OBVIOUS
<1>2. r \in [1 .. Len(s) -> T]
  BY <1>1
<1>3. r \in Seq(T)
  BY <1>1, <1>2, SeqDef
<1>4. \A i \in DOMAIN s : s[i] # new
  BY DEF ToSet
<1>5. IsInjective(r)
  BY <1>1, <1>4 DEF IsInjective
<1>6. ToSet(r) = (ToSet(s) \ {old}) \cup {new}
  <2>1. ToSet(r) \subseteq (ToSet(s) \ {old}) \cup {new}
    BY DEF ToSet
  <2>2. new \in ToSet(r)
    BY DEF ToSet
  <2>3. ToSet(s) \ {old} \subseteq ToSet(r)
    BY DEF ToSet
  <2> QED BY <2>1, <2>2, <2>3
<1> QED BY <1>3, <1>5, <1>6

(* A queue without its head, and with one more element *)
LEMMA QueueTail ==
  ASSUME NEW T, NEW s \in Seq(T), IsInjective(s), s # <<>>
  PROVE  /\ Head(s) \in ToSet(s) \cap T
         /\ Tail(s) \in Seq(T)
         /\ IsInjective(Tail(s))
         /\ ToSet(Tail(s)) = ToSet(s) \ {Head(s)}
<1>1. /\ Tail(s) \in Seq(T) /\ Len(Tail(s)) = Len(s) - 1
      /\ \A i \in 1 .. Len(s) - 1 : Tail(s)[i] = s[i + 1]
  BY HeadTailProperties
<1>2. /\ Len(s) \in Nat \ {0} /\ DOMAIN s = 1 .. Len(s)
      /\ DOMAIN Tail(s) = 1 .. Len(s) - 1 /\ Head(s) = s[1] /\ s[1] \in T
  BY <1>1
<1>3. \A i, j \in 1 .. Len(s) : s[i] = s[j] => i = j
  BY <1>2 DEF IsInjective
<1>4. IsInjective(Tail(s))
  <2>1. ASSUME NEW i \in 1 .. Len(s) - 1, NEW j \in 1 .. Len(s) - 1,
               Tail(s)[i] = Tail(s)[j]
        PROVE  i = j
    <3>1. i + 1 \in 1 .. Len(s) /\ j + 1 \in 1 .. Len(s) /\ s[i + 1] = s[j + 1]
      BY <1>1, <1>2, <2>1
    <3>2. i + 1 = j + 1
      BY <1>3, <3>1
    <3> QED BY <1>2, <3>2
  <2> QED BY <1>2, <2>1 DEF IsInjective
<1>5. ToSet(Tail(s)) = ToSet(s) \ {Head(s)}
  <2>1. ASSUME NEW y \in ToSet(Tail(s))
        PROVE  y \in ToSet(s) \ {Head(s)}
    <3>1. PICK i \in 1 .. Len(s) - 1 : Tail(s)[i] = y
      BY <1>2 DEF ToSet
    <3>2. i + 1 \in 1 .. Len(s) /\ s[i + 1] = y /\ i + 1 # 1
      BY <1>1, <1>2, <3>1
    <3>3. s[i + 1] # s[1]
      BY <1>2, <1>3, <3>2
    <3> QED BY <1>2, <3>2, <3>3 DEF ToSet
  <2>2. ASSUME NEW y \in ToSet(s) \ {Head(s)}
        PROVE  y \in ToSet(Tail(s))
    <3>1. PICK i \in 1 .. Len(s) : s[i] = y
      BY <1>2 DEF ToSet
    <3>2. i - 1 \in 1 .. Len(s) - 1 /\ Tail(s)[i - 1] = y
      BY <1>1, <1>2, <2>2, <3>1
    <3> QED BY <1>2, <3>2 DEF ToSet
  <2> QED BY <2>1, <2>2
<1> QED
  <2>1. Head(s) \in ToSet(s) \cap T
    BY <1>2 DEF ToSet
  <2> QED BY <1>1, <1>4, <1>5, <2>1

(* A queue with one more element at its end *)
LEMMA QueueAppend ==
  ASSUME NEW T, NEW s \in Seq(T), IsInjective(s), NEW x \in T, x \notin ToSet(s)
  PROVE  /\ Append(s, x) \in Seq(T)
         /\ IsInjective(Append(s, x))
         /\ ToSet(Append(s, x)) = ToSet(s) \cup {x}
<1> DEFINE r == Append(s, x)
<1>1. /\ r \in Seq(T) /\ Len(r) = Len(s) + 1
      /\ \A i \in 1 .. Len(s) : r[i] = s[i]
      /\ r[Len(s) + 1] = x
  BY AppendProperties
<1> HIDE DEF r
<1>2. /\ Len(s) \in Nat /\ DOMAIN s = 1 .. Len(s)
      /\ DOMAIN r = 1 .. Len(s) + 1
  BY <1>1
<1>3. \A i \in 1 .. Len(s) : s[i] # x
  BY <1>2 DEF ToSet
<1>4. IsInjective(r)
  <2>1. \A i, j \in 1 .. Len(s) : s[i] = s[j] => i = j
    BY <1>2 DEF IsInjective
  <2>2. \A i, j \in 1 .. Len(s) + 1 : r[i] = r[j] => i = j
    BY <1>1, <1>2, <1>3, <2>1
  <2> QED BY <1>2, <2>2 DEF IsInjective
<1>5. ToSet(r) = ToSet(s) \cup {x}
  <2>1. ToSet(r) \subseteq ToSet(s) \cup {x}
    BY <1>1, <1>2 DEF ToSet
  <2>2. ToSet(s) \subseteq ToSet(r)
    BY <1>1, <1>2 DEF ToSet
  <2>3. x \in ToSet(r)
    BY <1>1, <1>2 DEF ToSet
  <2> QED BY <2>1, <2>2, <2>3
<1> QED BY <1>1, <1>4, <1>5 DEF r

-----------------------------------------------------------------------------
(* Packets and buffers *)

(* A stream stays a stream when its first cells are taken *)
LEMMA StreamDrop ==
  ASSUME NEW cells \in Seq(Cell), NEW n \in Nat
  PROVE  Drop(cells, n) \in Seq(Cell)
<1>1. \A i \in n + 1 .. Len(cells) : cells[i] \in Cell
  OBVIOUS
<1> QED BY <1>1, SubSeqProperties DEF Drop

(* What recv() takes from a stream is a stream *)
LEMMA StreamStart ==
  ASSUME NEW cells \in Seq(Cell), NEW n \in 0 .. Len(cells)
  PROVE  SubSeq(cells, 1, n) \in Seq(Cell)
<1>1. \A i \in 1 .. n : cells[i] \in Cell
  OBVIOUS
<1> QED BY <1>1, SubSeqProperties

(* What sendPacket writes of a packet is a stream of cells, not empty *)
LEMMA PacketCells ==
  ASSUME NEW p \in Packet
  PROVE  Size(p) \in Nat \ {0} /\ Cells(p) \in Seq(Cell)
<1>1. Len(p.fields) \in Nat
  BY DEF Packet
<1>2. \A k \in 1 .. Size(p) : [pkt |-> p, part |-> k - 1] \in Cell
  BY <1>1 DEF Size, Cell
<1>3. Cells(p) \in [1 .. Size(p) -> Cell] /\ Size(p) \in Nat
  BY <1>1, <1>2 DEF Cells, Size
<1> QED BY <1>1, <1>3, SeqDef DEF Size

(* A whole packet in a buffer begins with the header of a packet *)
LEMMA FrontPacket ==
  ASSUME NEW cells \in Seq(Cell), Complete(cells)
  PROVE  /\ cells # <<>>
         /\ cells[1].pkt \in Packet
BY DEF Complete, Aligned, Cell

(* A string that readPacketString finds is a string somebody has written *)
LEMMA FieldString ==
  ASSUME NEW cells \in Seq(Cell), NEW k \in Nat \ {0}
  PROVE  readPacketString(cells, k) \in String \cup {NULL}
<1> SUFFICES ASSUME k < Len(cells), cells[k + 1].part > 0
             PROVE  cells[k + 1].pkt.fields[cells[k + 1].part] \in String
  BY DEF readPacketString
<1>1. cells[k + 1] \in Cell
  OBVIOUS
<1>2. /\ cells[k + 1].pkt \in Packet /\ cells[k + 1].part \in Int
      /\ cells[k + 1].part \in -1 .. Len(cells[k + 1].pkt.fields)
  BY <1>1 DEF Cell
<1>3. /\ cells[k + 1].pkt.fields \in Seq(String)
      /\ Len(cells[k + 1].pkt.fields) \in Nat
  BY <1>2 DEF Packet
<1>4. cells[k + 1].part \in 1 .. Len(cells[k + 1].pkt.fields)
  BY <1>2, <1>3
<1> QED BY <1>3, <1>4

(* createPacket makes packets *)
LEMMA MadePacket ==
  ASSUME NEW type \in PacketType, NEW command \in PacketCommand,
         NEW status \in PacketStatus, NEW id \in Id, NEW fields \in Seq(String)
  PROVE  createPacket(type, command, status, id, fields) \in Packet
BY DEF createPacket, Packet

(* What clients send are packets *)
LEMMA ClientPacketsArePackets == ClientPackets \subseteq Packet
<1>1. NoName \in String /\ Name \subseteq String /\ Text \subseteq String
  BY DEF String, Name
<1>2. 0 \in Id
  BY PacketsAssumption DEF Id
<1>3. ASSUME NEW n \in Name, NEW id \in Id
      PROVE  LoginRequest(n, id) \in Packet /\ ChatRequest(n, id) \in Packet
  <2>1. <<n>> \in Seq(String)
    BY <1>1
  <2> QED BY <2>1, MadePacket
          DEF LoginRequest, ChatRequest, PacketType, PacketCommand, PacketStatus
<1>4. ASSUME NEW n \in String, NEW t \in String, NEW id \in Id
      PROVE  MessageRequest(n, t, id) \in Packet
  <2>1. <<n, t>> \in Seq(String)
    BY <1>1
  <2> QED BY <2>1, MadePacket
          DEF MessageRequest, PacketType, PacketCommand, PacketStatus
<1>5. ASSUME NEW s \in {"OK", "CANT_READ"}
      PROVE  DeliveryRespond(s) \in Packet
  <2>1. <<>> \in Seq(String)
    OBVIOUS
  <2> QED BY <1>2, <2>1, MadePacket
          DEF DeliveryRespond, PacketType, PacketCommand, PacketStatus
<1> QED BY <1>3, <1>4, <1>5 DEF ClientPackets

-----------------------------------------------------------------------------
(* Where the loops of main() go *)

(* A node of the list is neither NULL nor the listening socket *)
LEMMA NodesNotNull == NULL \notin Node /\ LISTEN \notin Node
BY ServerAssumption, NetworkAssumption DEF Node

(* A nickname that the search does not find is no listed client's *)
LEMMA NobodyFound ==
  ASSUME clients \in Seq(Node), NEW n, Lookup(n) = NULL
  PROVE  \A x \in Listed : nickname[x] # n
<1> DEFINE S == {x \in Node : nickname[x] = n}
<1>1. FirstIn(clients, 1, S) = NULL
  BY DEF Lookup
<1> HIDE DEF S
<1>2. \A j \in 1 .. Len(clients) : clients[j] \notin S
  BY <1>1, FirstInList, NodesNotNull
<1>3. \A j \in 1 .. Len(clients) : clients[j] \in Node
  OBVIOUS
<1> QED BY <1>2, <1>3 DEF S, Listed, ToSet

(* The processing loop ends at select(), or stops at a client of the list  *)
(* whose buffer holds a whole packet.                                      *)
LEMMA ProcessLands ==
  ASSUME NEW list \in Seq(Node), NEW i \in Nat \ {0}, NEW bufs,
         GoProcess(list, i, bufs)
  PROVE  \/ pc' = "select" /\ cursor' = NULL
         \/ /\ pc' = "process" /\ cursor' \in Conn \cap ToSet(list)
            /\ Complete(bufs[cursor'])
<1> DEFINE S == {c \in Conn : Complete(bufs[c])}
           next == FirstIn(list, i, S)
<1>1. next # NULL => next \in S \cap ToSet(list)
  BY FirstInList, NodesNotNull
<1>2. cursor' = next /\ pc' = IF next = NULL THEN "select" ELSE "process"
  BY DEF GoProcess
<1> QED BY <1>1, <1>2

(* The receive loop stops at a reported client of the list, or goes on to  *)
(* the processing loop.                                                    *)
LEMMA RecvLands ==
  ASSUME NEW list \in Seq(Node), NEW i \in Nat \ {0}, NEW bufs,
         NEW reads \in SUBSET (Conn \cup {LISTEN}), GoRecv(list, i, reads, bufs)
  PROVE  \/ pc' = "select" /\ cursor' = NULL
         \/ pc' = "recv" /\ cursor' \in Conn \cap ToSet(list)
         \/ /\ pc' = "process" /\ cursor' \in Conn \cap ToSet(list)
            /\ Complete(bufs[cursor'])
<1> DEFINE next == FirstIn(list, i, reads)
<1>1. next # NULL => next \in reads \cap ToSet(list)
  BY FirstInList, NodesNotNull
<1>2. ToSet(list) \subseteq Node
  BY DEF ToSet
<1>3. CASE next = NULL
  BY <1>3, ProcessLands DEF GoRecv
<1>4. CASE next # NULL
  BY <1>1, <1>2, <1>4, NodesNotNull DEF GoRecv
<1> QED BY <1>3, <1>4

-----------------------------------------------------------------------------
(* The inductive invariant *)

(* What the place where the thread stands says about its variables *)
ThreadControl ==
  /\ pc = "accept" => backlog # <<>>
  /\ pc \in {"recv", "process", "respond", "reply"} => cursor \in Conn \cap Listed
  /\ pc \in {"process", "respond", "reply"} => Complete(buffer[cursor])
  /\ pc = "respond" => recipient \in Conn \cap Listed /\ request.command = "MESSAGE"
  /\ pc = "reply" => out \in Packet

(* A nickname belongs to a node of the list that has a socket *)
NamesListed ==
  /\ nickname[INVALID_SOCKET] = NoName
  /\ \A x \in Node \ Listed : nickname[x] = NoName

(* A connection waits in the backlog once, before it is in the list *)
Connections ==
  /\ IsInjective(backlog)
  /\ ToSet(backlog) \cap Listed = {}
  /\ \A c \in Conn : peer[c] = "idle" => c \notin Listed \cup ToSet(backlog)
  /\ pc # "exited" => \A c \in ToSet(backlog) : peer[c] \in {"up", "down"}

IInv ==
  /\ ServerTypeOK
  /\ ThreadControl
  /\ NamesListed
  /\ Connections
  /\ UniqueNicknames
  /\ ListIntegrity
  /\ AnswersMatchRequests

(* The inductive invariant holds when the server starts *)
LEMMA InitIInv == ServerInit => IInv
<1> SUFFICES ASSUME ServerInit PROVE IInv
  OBVIOUS
<1> USE DEF ServerInit, NetInit
<1>1. ServerTypeOK
  <2>1. NetTypeOK
    BY DEF NetTypeOK
  <2>2. NoName \in String /\ MaxCycles \in Nat
    BY ServerAssumption DEF String, Name
  <2> QED BY <2>1, <2>2 DEF ServerTypeOK
<1>2. Listed = {} /\ ToSet(backlog) = {}
  BY DEF Listed, ToSet
<1>3. ThreadControl /\ AnswersMatchRequests
  BY DEF ThreadControl, AnswersMatchRequests
<1>4. NamesListed /\ UniqueNicknames
  BY <1>2 DEF NamesListed, UniqueNicknames, Node
<1>5. Connections
  BY <1>2 DEF Connections, IsInjective
<1>6. ListIntegrity
  BY <1>2 DEF ListIntegrity, IsInjective
<1> QED BY <1>1, <1>3, <1>4, <1>5, <1>6 DEF IInv

(* Steps that leave the list, the nicknames and the connections alone *)
LEMMA QuietStep ==
  ASSUME IInv, pc # "exited",
         UNCHANGED <<peer, backlog, clients, nickname, fdMaster>>
  PROVE  (NamesListed /\ Connections /\ UniqueNicknames /\ ListIntegrity)'
<1>1. Listed' = Listed
  BY DEF Listed
<1> QED BY <1>1
        DEF IInv, NamesListed, Connections, UniqueNicknames, ListIntegrity

(* The respond a handler makes answers the request *)
LEMMA RespondStep ==
  ASSUME IInv, pc \in {"process", "respond"}, NEW status \in PacketStatus,
         Respond(status), buffer'[cursor] = buffer[cursor],
         status = "OK" /\ request.command = "LOGIN" =>
           isLogined'[cursor] /\ nickname'[cursor] = field(1)
  PROVE  /\ pc' = "reply" /\ cursor' = cursor
         /\ out' \in Packet
         /\ AnswersMatchRequests'
<1>1. /\ cursor \in Conn /\ buffer[cursor] \in Seq(Cell)
      /\ Complete(buffer[cursor])
  BY DEF IInv, ThreadControl, ServerTypeOK, Node
<1>2. request \in Packet
  BY <1>1, FrontPacket DEF request
<1>3. request' = request /\ field(1)' = field(1)
  BY DEF Respond, request, field
<1>4. out' \in Packet
  <2>1. <<>> \in Seq(String) /\ "RESPOND" \in PacketType
    BY DEF PacketType
  <2>2. request.command \in PacketCommand /\ request.id \in Id
    BY <1>2 DEF Packet
  <2> QED BY <2>1, <2>2, MadePacket DEF Respond
<1>5. /\ out'.type = "RESPOND" /\ out'.command = request.command
      /\ out'.id = request.id /\ out'.status = status
  BY DEF Respond, createPacket
<1> QED BY <1>1, <1>3, <1>4, <1>5 DEF Respond, AnswersMatchRequests

(* deleteClient keeps the list and the descriptor set together *)
LEMMA DeleteStep ==
  ASSUME IInv, pc # "exited", NEW c \in Conn \cap Listed, deleteClient(c)
  PROVE  /\ clients' \in Seq(Node)
         /\ nickname' \in [Node -> String] /\ isLogined' \in [Node -> BOOLEAN]
         /\ buffer' \in [Node -> Seq(Cell)]
         /\ fdMaster' \subseteq Conn \cup {LISTEN}
         /\ NetTypeOK'
         /\ Listed' = Listed \ {c}
         /\ (NamesListed /\ Connections /\ UniqueNicknames /\ ListIntegrity)'
<1>1. ServerTypeOK /\ NetTypeOK /\ c \in Node /\ NoName \in String
  BY DEF IInv, ServerTypeOK, Node, String, Name
<1>2. clients \in Seq(Node) /\ IsInjective(clients) /\ c \in ToSet(clients)
  BY <1>1 DEF ServerTypeOK, IInv, ListIntegrity, Listed
<1>3. clients' \in Seq(Node) /\ IsInjective(clients') /\ Listed' = Listed \ {c}
  BY <1>2, UnlinkList DEF deleteClient, Listed
<1>4. /\ nickname' = [nickname EXCEPT ![c] = NoName]
      /\ isLogined' = [isLogined EXCEPT ![c] = FALSE]
      /\ buffer' = [buffer EXCEPT ![c] = <<>>]
      /\ fdMaster' = fdMaster \ {c}
      /\ toServer' = [toServer EXCEPT ![c] = <<>>]
      /\ backlog' = backlog /\ toClient' = toClient
  BY DEF deleteClient, FdClr
<1>5. /\ peer' \in [Conn -> {"idle", "up", "cut", "down"}]
      /\ \A d \in Conn : peer'[d] # peer[d] =>
           d = c /\ peer[d] = "up" /\ peer'[d] = "cut"
  BY <1>1 DEF deleteClient, Cut, NetTypeOK
<1>6. NetTypeOK'
  <2>1. toServer' \in [Conn -> Seq(Cell)]
    <3>1. <<>> \in Seq(Cell) /\ toServer \in [Conn -> Seq(Cell)]
      BY <1>1 DEF NetTypeOK
    <3> QED BY <1>4, <3>1
  <2> QED BY <1>1, <1>4, <1>5, <2>1 DEF NetTypeOK
<1>7. /\ nickname' \in [Node -> String] /\ isLogined' \in [Node -> BOOLEAN]
      /\ buffer' \in [Node -> Seq(Cell)] /\ fdMaster' \subseteq Conn \cup {LISTEN}
  BY <1>1, <1>4 DEF ServerTypeOK
<1>8. \A x \in Node : nickname'[x] = IF x = c THEN NoName ELSE nickname[x]
  BY <1>1, <1>4 DEF ServerTypeOK
<1>9. NamesListed'
  BY <1>3, <1>8 DEF IInv, NamesListed, Node
<1>10. UniqueNicknames'
  <2>1. Listed' \subseteq Node
    BY <1>3, <1>1 DEF Listed, ToSet, ServerTypeOK
  <2> QED BY <2>1, <1>3, <1>8 DEF IInv, UniqueNicknames
<1>11. Connections'
  <2>1. ToSet(backlog) \subseteq Conn
    BY <1>1 DEF NetTypeOK, ToSet
  <2> QED BY <2>1, <1>3, <1>4, <1>5 DEF IInv, Connections
<1>12. ListIntegrity'
  <2>1. fdMaster' \ {LISTEN} \subseteq Listed'
    BY <1>3, <1>4 DEF IInv, ListIntegrity
  <2>2. MaxFds > Cardinality(Conn) => Listed' \cap Conn \subseteq fdMaster'
    BY <1>3, <1>4 DEF IInv, ListIntegrity
  <2>3. \A d \in Listed' \cap Conn : peer'[d] \in {"up", "down"}
    BY <1>3, <1>5 DEF IInv, ListIntegrity
  <2> QED BY <1>3, <2>1, <2>2, <2>3 DEF ListIntegrity
<1> QED BY <1>3, <1>6, <1>7, <1>9, <1>10, <1>11, <1>12

-----------------------------------------------------------------------------
(* The steps of the server, one lemma each *)

(* FD_SET adds one socket or none *)
LEMMA FdSetKeeps ==
  ASSUME NEW S, NEW f
  PROVE  FdSet(S, f) = S \/ FdSet(S, f) = S \cup {f}
BY DEF FdSet

(* FD_SET finds room for a client as long as there may not be more of them *)
(* than FD_SETSIZE allows                                                  *)
LEMMA FdSetHasRoom ==
  ASSUME MaxFds > Cardinality(Conn), NEW c \in Conn,
         NEW S \in SUBSET (Conn \cup {LISTEN}), c \notin S
  PROVE  c \in FdSet(S, c)
<1> DEFINE M == (Conn \ {c}) \cup {LISTEN}
<1>1. IsFiniteSet(Conn) /\ LISTEN \notin Conn
  BY NetworkAssumption, ServerAssumption
<1>2. /\ IsFiniteSet(Conn \ {c}) /\ Cardinality(Conn \ {c}) = Cardinality(Conn) - 1
      /\ Cardinality(Conn) \in Nat
  BY <1>1, FS_RemoveElement, FS_CardinalityType
<1>3. IsFiniteSet(M) /\ Cardinality(M) = Cardinality(Conn \ {c}) + 1
  BY <1>1, <1>2, FS_AddElement
<1>4. S \in SUBSET M
  OBVIOUS
<1>5. Cardinality(S) <= Cardinality(M) /\ Cardinality(S) \in Nat
  BY <1>3, <1>4, FS_Subset, FS_CardinalityType
<1>6. Cardinality(S) < MaxFds
  BY <1>2, <1>3, <1>5, ServerAssumption
<1> QED BY <1>6 DEF FdSet

(* select() changes neither the list nor a buffer: the clients it reports  *)
(* are in fdMaster, so GoRecv stops at a client of the list.               *)
LEMMA WaitStep == IInv /\ waitForClients => IInv'
<1> SUFFICES ASSUME IInv, waitForClients
             PROVE  IInv'
  OBVIOUS
<1> DEFINE master == FdSet(fdMaster, LISTEN)
           ready == {c \in master \ {LISTEN} : Readable(c)}
                      \cup (IF backlog = <<>> THEN {} ELSE {LISTEN} \cap master)
<1>1. ServerTypeOK /\ NetTypeOK /\ clients \in Seq(Node) /\ pc = "select"
  BY DEF IInv, ServerTypeOK, waitForClients
<1>2. /\ fdMaster' = master /\ fdReads' = ready
      /\ IF LISTEN \in ready THEN pc' = "accept" /\ UNCHANGED cursor
                             ELSE GoRecv(clients, 1, ready, buffer)
      /\ UNCHANGED <<netVars, clients, nickname, isLogined, buffer, recipient,
                     cycle, out>>
  BY DEF waitForClients
<1>3. master = fdMaster \/ master = fdMaster \cup {LISTEN}
  BY FdSetKeeps
<1>4. master \subseteq Conn \cup {LISTEN} /\ ready \subseteq Conn \cup {LISTEN}
  BY <1>1, <1>3 DEF ServerTypeOK
<1>5. LISTEN \in ready => backlog # <<>>
  OBVIOUS
<1> HIDE DEF master, ready
<1>6. Listed' = Listed /\ Listed = ToSet(clients) /\ UNCHANGED <<peer, backlog>>
  BY <1>2 DEF Listed, netVars
<1>7. \/ pc' = "accept" /\ cursor' = cursor /\ backlog # <<>>
      \/ pc' = "select" /\ cursor' = NULL
      \/ pc' = "recv" /\ cursor' \in Conn \cap Listed
      \/ pc' = "process" /\ cursor' \in Conn \cap Listed /\ Complete(buffer[cursor'])
  BY <1>1, <1>2, <1>4, <1>5, <1>6, RecvLands
<1>8. ServerTypeOK'
  <2>1. NetTypeOK'
    BY <1>1, <1>2 DEF NetTypeOK, netVars
  <2>2. cursor' \in Node \cup {NULL}
    BY <1>1, <1>7 DEF ServerTypeOK, Node
  <2>3. pc' \in {"select", "accept", "recv", "process"}
    BY <1>7
  <2> QED BY <1>1, <1>2, <1>4, <2>1, <2>2, <2>3 DEF ServerTypeOK
<1>9. ThreadControl'
  BY <1>2, <1>6, <1>7 DEF ThreadControl
<1>10. (NamesListed /\ Connections /\ UniqueNicknames)'
  BY <1>1, <1>2, <1>6 DEF IInv, NamesListed, Connections, UniqueNicknames
<1>11. ListIntegrity'
  BY <1>1, <1>2, <1>3, <1>6 DEF IInv, ListIntegrity
<1>12. AnswersMatchRequests'
  BY <1>7 DEF AnswersMatchRequests
<1> QED BY <1>8, <1>9, <1>10, <1>11, <1>12 DEF IInv

(* The list that getClient(-1) makes *)
LEMMA GetClientList ==
  ASSUME IInv
  PROVE  /\ getClient \in Seq(Node)
         /\ IsInjective(getClient)
         /\ ToSet(getClient) = Listed \cup {INVALID_SOCKET}
<1>1. clients \in Seq(Node) /\ IsInjective(clients) /\ INVALID_SOCKET \in Node
  BY DEF IInv, ServerTypeOK, ListIntegrity, Node
<1>2. CASE INVALID_SOCKET \in Listed
  BY <1>1, <1>2 DEF getClient, Listed
<1>3. CASE INVALID_SOCKET \notin Listed
  BY <1>1, <1>3, LinkList DEF getClient, Listed
<1> QED BY <1>2, <1>3

(* The connection accepted next *)
LEMMA HeadOfBacklog ==
  ASSUME IInv, pc = "accept"
  PROVE  /\ Head(backlog) \in Conn \ Listed
         /\ peer[Head(backlog)] \in {"up", "down"}
         /\ Tail(backlog) \in Seq(Conn)
         /\ IsInjective(Tail(backlog))
         /\ ToSet(Tail(backlog)) = ToSet(backlog) \ {Head(backlog)}
         /\ Head(backlog) \in ToSet(backlog)
<1>1. backlog \in Seq(Conn) /\ backlog # <<>> /\ IsInjective(backlog)
  BY DEF IInv, ServerTypeOK, NetTypeOK, ThreadControl, Connections
<1>2. /\ Head(backlog) \in ToSet(backlog) \cap Conn /\ Tail(backlog) \in Seq(Conn)
      /\ IsInjective(Tail(backlog))
      /\ ToSet(Tail(backlog)) = ToSet(backlog) \ {Head(backlog)}
  BY <1>1, QueueTail
<1> QED BY <1>2 DEF IInv, Connections

(* The accepted socket comes from the backlog and so is not in the list    *)
(* yet: replacing the node without a socket keeps the list injective.      *)
LEMMA AcceptStep == IInv /\ Accept => IInv'
<1> SUFFICES ASSUME IInv, Accept
             PROVE  IInv'
  OBVIOUS
<1> DEFINE c == Head(backlog)
           list == ReplaceAll(getClient, INVALID_SOCKET, c)
<1>1. ServerTypeOK /\ NetTypeOK /\ pc = "accept"
  BY DEF IInv, ServerTypeOK, Accept
<1>2. /\ clients' = list /\ fdMaster' = FdSet(fdMaster, c)
      /\ GoRecv(list, 1, fdReads, buffer) /\ backlog' = Tail(backlog)
      /\ UNCHANGED <<peer, toServer, toClient, nickname, isLogined, buffer,
                     fdReads, recipient, cycle, out>>
  BY DEF Accept
<1>3. /\ c \in Conn \ Listed /\ peer[c] \in {"up", "down"}
      /\ backlog' \in Seq(Conn) /\ IsInjective(backlog')
      /\ ToSet(backlog') = ToSet(backlog) \ {c} /\ c \in ToSet(backlog)
  BY <1>1, <1>2, HeadOfBacklog
<1>4. /\ getClient \in Seq(Node) /\ IsInjective(getClient)
      /\ ToSet(getClient) = Listed \cup {INVALID_SOCKET}
  BY GetClientList
<1> HIDE DEF c
<1>5. c # INVALID_SOCKET /\ c \in Node
  BY <1>3, ServerAssumption DEF Node
<1>6. /\ list \in Seq(Node) /\ IsInjective(list)
      /\ ToSet(list) = ((Listed \cup {INVALID_SOCKET}) \ {INVALID_SOCKET}) \cup {c}
  <2>1. INVALID_SOCKET \in ToSet(getClient) /\ c \notin ToSet(getClient)
    BY <1>3, <1>4, <1>5
  <2>2. /\ list \in Seq(Node) /\ IsInjective(list)
        /\ ToSet(list) = (ToSet(getClient) \ {INVALID_SOCKET}) \cup {c}
    BY <1>4, <1>5, <2>1, RenameInList
  <2> QED BY <1>4, <2>2
<1> HIDE DEF list
<1>7. /\ IsInjective(clients') /\ clients' \in Seq(Node)
      /\ Listed' = (Listed \ {INVALID_SOCKET}) \cup {c}
  BY <1>2, <1>6 DEF Listed
<1>8. \/ pc' = "select" /\ cursor' = NULL
      \/ pc' = "recv" /\ cursor' \in Conn \cap Listed'
      \/ pc' = "process" /\ cursor' \in Conn \cap Listed' /\ Complete(buffer[cursor'])
  <2>1. fdReads \in SUBSET (Conn \cup {LISTEN})
    BY <1>1 DEF ServerTypeOK
  <2>2. Listed' = ToSet(list)
    BY <1>2 DEF Listed
  <2> QED BY <1>2, <1>6, <2>1, <2>2, RecvLands
<1>9. fdMaster' \subseteq Conn \cup {LISTEN} /\ fdMaster' \subseteq fdMaster \cup {c}
      /\ fdMaster \subseteq fdMaster'
  <2>1. fdMaster' = fdMaster \/ fdMaster' = fdMaster \cup {c}
    BY <1>2, FdSetKeeps
  <2> QED BY <1>1, <1>3, <2>1 DEF ServerTypeOK
<1>10. ServerTypeOK'
  <2>1. NetTypeOK'
    BY <1>1, <1>2, <1>3 DEF NetTypeOK
  <2>2. cursor' \in Node \cup {NULL} /\ pc' \in {"select", "recv", "process"}
    BY <1>8 DEF Node
  <2> QED BY <1>1, <1>2, <1>7, <1>9, <2>1, <2>2 DEF ServerTypeOK
<1>11. ThreadControl' /\ AnswersMatchRequests'
  BY <1>2, <1>8 DEF ThreadControl, AnswersMatchRequests
<1>12. NamesListed'
  <2>1. nickname[INVALID_SOCKET] = NoName /\ \A x \in Node \ Listed : nickname[x] = NoName
    BY DEF IInv, NamesListed
  <2> QED BY <1>2, <1>7, <2>1 DEF NamesListed
<1>13. UniqueNicknames'
  <2>1. nickname[c] = NoName
    BY <1>3, <1>5 DEF IInv, NamesListed
  <2> QED BY <1>2, <1>7, <2>1 DEF IInv, UniqueNicknames
<1>14. Connections'
  BY <1>1, <1>2, <1>3, <1>5, <1>7 DEF IInv, Connections
<1>15. ListIntegrity'
  <2>1. INVALID_SOCKET \notin Conn /\ INVALID_SOCKET # LISTEN
    BY ServerAssumption
  <2>2. fdMaster' \ {LISTEN} \subseteq Listed'
    BY <1>1, <1>7, <1>9, <2>1 DEF IInv, ListIntegrity, ServerTypeOK
  <2>3. ASSUME MaxFds > Cardinality(Conn)
        PROVE  Listed' \cap Conn \subseteq fdMaster'
    <3>1. c \notin fdMaster /\ fdMaster \in SUBSET (Conn \cup {LISTEN})
      BY <1>1, <1>3, ServerAssumption DEF IInv, ListIntegrity, ServerTypeOK
    <3>2. c \in fdMaster'
      BY <1>2, <1>3, <2>3, <3>1, FdSetHasRoom
    <3> QED BY <1>7, <1>9, <2>1, <2>3, <3>2 DEF IInv, ListIntegrity
  <2>4. \A d \in Listed' \cap Conn : peer'[d] \in {"up", "down"}
    BY <1>1, <1>2, <1>3, <1>7, <2>1 DEF IInv, ListIntegrity
  <2> QED BY <1>7, <2>2, <2>3, <2>4 DEF ListIntegrity
<1> QED BY <1>10, <1>11, <1>12, <1>13, <1>14, <1>15 DEF IInv

(* An accept() that fails adds the node without a socket at most once *)
LEMMA AcceptFailsStep == IInv /\ AcceptFails => IInv'
<1> SUFFICES ASSUME IInv, AcceptFails
             PROVE  IInv'
  OBVIOUS
<1>1. ServerTypeOK /\ NetTypeOK /\ pc = "accept"
  BY DEF IInv, ServerTypeOK, AcceptFails
<1>2. /\ clients' = getClient /\ GoRecv(getClient, 1, fdReads, buffer)
      /\ backlog' = Tail(backlog)
      /\ UNCHANGED <<peer, toServer, toClient, nickname, isLogined, buffer,
                     fdMaster, fdReads, recipient, cycle, out>>
  BY DEF AcceptFails
<1>3. /\ backlog' \in Seq(Conn) /\ IsInjective(backlog')
      /\ ToSet(backlog') \subseteq ToSet(backlog) /\ ToSet(backlog) \subseteq Conn
  <2>1. backlog \in Seq(Conn)
    BY <1>1 DEF NetTypeOK
  <2>2. ToSet(backlog) \subseteq Conn
    BY <2>1 DEF ToSet
  <2> QED BY <1>1, <1>2, <2>2, HeadOfBacklog
<1>4. /\ getClient \in Seq(Node) /\ IsInjective(getClient)
      /\ ToSet(getClient) = Listed \cup {INVALID_SOCKET}
  BY GetClientList
<1>5. Listed' = Listed \cup {INVALID_SOCKET} /\ INVALID_SOCKET \notin Conn
  BY <1>2, <1>4, ServerAssumption DEF Listed
<1>6. \/ pc' = "select" /\ cursor' = NULL
      \/ pc' = "recv" /\ cursor' \in Conn \cap Listed'
      \/ pc' = "process" /\ cursor' \in Conn \cap Listed' /\ Complete(buffer[cursor'])
  <2>1. fdReads \in SUBSET (Conn \cup {LISTEN})
    BY <1>1 DEF ServerTypeOK
  <2> QED BY <1>2, <1>4, <1>5, <2>1, RecvLands
<1>7. ServerTypeOK'
  <2>1. NetTypeOK'
    BY <1>1, <1>2, <1>3 DEF NetTypeOK
  <2>2. cursor' \in Node \cup {NULL} /\ pc' \in {"select", "recv", "process"}
    BY <1>6 DEF Node
  <2> QED BY <1>1, <1>2, <1>4, <2>1, <2>2 DEF ServerTypeOK
<1>8. ThreadControl' /\ AnswersMatchRequests'
  BY <1>2, <1>6 DEF ThreadControl, AnswersMatchRequests
<1>9. NamesListed' /\ UniqueNicknames'
  BY <1>2, <1>5 DEF IInv, NamesListed, UniqueNicknames
<1>10. Connections'
  BY <1>1, <1>2, <1>3, <1>5 DEF IInv, Connections
<1>11. ListIntegrity'
  BY <1>1, <1>2, <1>4, <1>5 DEF IInv, ListIntegrity
<1> QED BY <1>7, <1>8, <1>9, <1>10, <1>11 DEF IInv

(* recv() appends to one buffer, which then still holds cells *)
LEMMA RecvStep == IInv /\ (\E k \in 1 .. BufSize : Recv(k)) => IInv'
<1> SUFFICES ASSUME IInv, NEW k \in 1 .. BufSize, Recv(k)
             PROVE  IInv'
  OBVIOUS
<1> DEFINE bufs == [buffer EXCEPT ![cursor] = @ \o SubSeq(toServer[cursor], 1, k)]
<1>1. /\ ServerTypeOK /\ NetTypeOK /\ pc = "recv" /\ clients \in Seq(Node)
      /\ cursor \in Conn \cap Listed /\ cursor \in Node
  BY DEF IInv, ServerTypeOK, ThreadControl, Recv, Node
<1>2. /\ buffer' = bufs
      /\ GoRecv(clients, Position(clients, cursor) + 1, fdReads, bufs)
      /\ toServer' = [toServer EXCEPT ![cursor] = Drop(@, k)]
      /\ UNCHANGED <<peer, backlog, toClient, clients, nickname, isLogined,
                     fdMaster, fdReads, recipient, cycle, out>>
  BY DEF Recv
<1>3. k \in Nat /\ k <= Len(toServer[cursor])
  <2>1. Len(toServer[cursor]) \in Nat /\ Len(buffer[cursor]) \in Nat /\ BufSize \in Nat
    BY <1>1, ServerAssumption DEF ServerTypeOK, NetTypeOK
  <2> DEFINE a == Len(toServer[cursor])
             b == BufSize - Len(buffer[cursor])
  <2>2. a \in Int /\ b \in Int /\ k \in 1 .. Min({a, b})
    BY <2>1 DEF Recv
  <2> HIDE DEF a, b
  <2>3. k \in Nat /\ k <= a
    BY <2>2, MinOfTwo
  <2> QED BY <2>3 DEF a
<1>4. toServer[cursor] \in Seq(Cell) /\ buffer[cursor] \in Seq(Cell)
  BY <1>1 DEF ServerTypeOK, NetTypeOK
<1>5. bufs \in [Node -> Seq(Cell)]
  <2>1. SubSeq(toServer[cursor], 1, k) \in Seq(Cell)
    BY <1>3, <1>4, StreamStart
  <2>2. buffer[cursor] \o SubSeq(toServer[cursor], 1, k) \in Seq(Cell)
    BY <1>4, <2>1, ConcatProperties
  <2> QED BY <1>1, <2>2 DEF ServerTypeOK
<1> HIDE DEF bufs
<1>6. toServer' \in [Conn -> Seq(Cell)]
  <2>1. Drop(toServer[cursor], k) \in Seq(Cell)
    BY <1>3, <1>4, StreamDrop
  <2> QED BY <1>1, <1>2, <2>1 DEF NetTypeOK
<1>7. Listed' = Listed
  BY <1>2 DEF Listed
<1>8. \/ pc' = "select" /\ cursor' = NULL
      \/ pc' = "recv" /\ cursor' \in Conn \cap Listed
      \/ pc' = "process" /\ cursor' \in Conn \cap Listed /\ Complete(bufs[cursor'])
  <2>1. Position(clients, cursor) + 1 \in Nat \ {0}
    BY <1>1, PositionIn DEF Listed
  <2>2. fdReads \in SUBSET (Conn \cup {LISTEN})
    BY <1>1 DEF ServerTypeOK
  <2> QED BY <1>1, <1>2, <2>1, <2>2, RecvLands DEF Listed
<1>9. ServerTypeOK'
  <2>1. NetTypeOK'
    BY <1>1, <1>2, <1>6 DEF NetTypeOK
  <2>2. cursor' \in Node \cup {NULL} /\ pc' \in {"select", "recv", "process"}
    BY <1>8 DEF Node
  <2> QED BY <1>1, <1>2, <1>5, <2>1, <2>2 DEF ServerTypeOK
<1>10. ThreadControl' /\ AnswersMatchRequests'
  BY <1>2, <1>7, <1>8 DEF ThreadControl, AnswersMatchRequests
<1>11. (NamesListed /\ Connections /\ UniqueNicknames /\ ListIntegrity)'
  BY <1>1, <1>2, QuietStep
<1> QED BY <1>9, <1>10, <1>11 DEF IInv

(* deleteClient after a failed recv(): the processing loop starts with the *)
(* list, the nicknames and the descriptor set that are left.               *)
LEMMA RecvFailsStep == IInv /\ RecvFails => IInv'
<1> SUFFICES ASSUME IInv, RecvFails
             PROVE  IInv'
  OBVIOUS
<1>1. /\ ServerTypeOK /\ pc = "recv" /\ cursor \in Conn \cap Listed
      /\ deleteClient(cursor) /\ GoProcess(clients', 1, buffer')
      /\ UNCHANGED <<fdReads, recipient, cycle, out>>
  BY DEF IInv, ThreadControl, RecvFails
<1>2. /\ clients' \in Seq(Node)
      /\ nickname' \in [Node -> String] /\ isLogined' \in [Node -> BOOLEAN]
      /\ buffer' \in [Node -> Seq(Cell)] /\ fdMaster' \subseteq Conn \cup {LISTEN}
      /\ NetTypeOK'
      /\ (NamesListed /\ Connections /\ UniqueNicknames /\ ListIntegrity)'
  BY <1>1, DeleteStep
<1>3. \/ pc' = "select" /\ cursor' = NULL
      \/ /\ pc' = "process" /\ cursor' \in Conn \cap ToSet(clients')
         /\ Complete(buffer'[cursor'])
  BY <1>1, <1>2, ProcessLands
<1>4. ServerTypeOK'
  BY <1>1, <1>2, <1>3 DEF ServerTypeOK, Node
<1>5. ThreadControl' /\ AnswersMatchRequests'
  BY <1>3 DEF ThreadControl, AnswersMatchRequests, Listed
<1> QED BY <1>2, <1>4, <1>5 DEF IInv

(* What a handler knows of its packet *)
LEMMA HandlerFacts ==
  ASSUME IInv, pc \in {"process", "respond", "reply"}
  PROVE  /\ cursor \in Conn \cap Listed /\ cursor \in Node
         /\ buffer[cursor] \in Seq(Cell) /\ Complete(buffer[cursor])
         /\ request \in Packet
         /\ \A k \in Nat \ {0} : field(k) \in String \cup {NULL}
<1>1. /\ cursor \in Conn \cap Listed /\ cursor \in Node
      /\ buffer[cursor] \in Seq(Cell) /\ Complete(buffer[cursor])
  BY DEF IInv, ThreadControl, ServerTypeOK, Node
<1> QED BY <1>1, FrontPacket, FieldString DEF request, field

(* A login stores a nickname that no node of the list has, and its answer  *)
(* tells so.                                                               *)
LEMMA LoginStep == IInv /\ processLoginPacket => IInv'
<1> SUFFICES ASSUME IInv, processLoginPacket
             PROVE  IInv'
  OBVIOUS
<1>1. ServerTypeOK /\ pc = "process" /\ clients \in Seq(Node)
  BY DEF IInv, ServerTypeOK, processLoginPacket, Processing
<1>2. /\ Respond(loginStatus)
      /\ UNCHANGED <<netVars, clients, buffer, fdMaster, fdReads, recipient, cycle>>
  BY DEF processLoginPacket
<1>3. /\ cursor \in Conn \cap Listed /\ cursor \in Node
      /\ field(1) \in String \cup {NULL} /\ Complete(buffer[cursor])
  BY <1>1, HandlerFacts
<1>4. CASE loginStatus = "OK"
  <2>1. /\ nickname' = [nickname EXCEPT ![cursor] = field(1)]
        /\ isLogined' = [isLogined EXCEPT ![cursor] = TRUE]
    BY <1>4 DEF processLoginPacket
  <2>2. field(1) \in String /\ Lookup(field(1)) = NULL
    BY <1>3, <1>4 DEF loginStatus
  <2>3. \A x \in Listed : nickname[x] # field(1)
    BY <1>1, <2>2, NobodyFound
  <2>4. /\ nickname' \in [Node -> String] /\ isLogined' \in [Node -> BOOLEAN]
        /\ nickname'[cursor] = field(1) /\ isLogined'[cursor]
        /\ \A x \in Node : x # cursor => nickname'[x] = nickname[x]
    BY <1>1, <1>3, <2>1, <2>2 DEF ServerTypeOK
  <2>5. /\ pc' = "reply" /\ cursor' = cursor /\ out' \in Packet
        /\ AnswersMatchRequests'
    BY <1>1, <1>2, <1>4, <2>4, RespondStep DEF PacketStatus
  <2>6. Listed' = Listed /\ Listed \subseteq Node
    BY <1>1, <1>2 DEF Listed, ToSet
  <2>7. ServerTypeOK'
    BY <1>1, <1>2, <1>3, <2>4, <2>5 DEF ServerTypeOK, NetTypeOK, netVars
  <2>8. ThreadControl'
    BY <1>2, <1>3, <2>5, <2>6 DEF ThreadControl
  <2>9. NamesListed'
    <3>1. INVALID_SOCKET # cursor /\ INVALID_SOCKET \in Node
      BY <1>3, ServerAssumption DEF Node
    <3> QED BY <1>3, <2>4, <2>6, <3>1 DEF IInv, NamesListed
  <2>10. UniqueNicknames'
    BY <1>3, <2>3, <2>4, <2>6 DEF IInv, UniqueNicknames
  <2>11. Connections' /\ ListIntegrity'
    BY <1>1, <1>2, <2>6 DEF IInv, Connections, ListIntegrity, netVars
  <2> QED BY <2>5, <2>7, <2>8, <2>9, <2>10, <2>11 DEF IInv
<1>5. CASE loginStatus # "OK"
  <2>1. nickname' = nickname /\ isLogined' = isLogined
    BY <1>5 DEF processLoginPacket
  <2>2. loginStatus \in PacketStatus
    BY DEF loginStatus, PacketStatus
  <2>3. /\ pc' = "reply" /\ cursor' = cursor /\ out' \in Packet
        /\ AnswersMatchRequests'
    BY <1>1, <1>2, <1>5, <2>2, RespondStep
  <2>4. ServerTypeOK'
    BY <1>1, <1>2, <1>3, <2>1, <2>3 DEF ServerTypeOK, NetTypeOK, netVars
  <2>5. ThreadControl'
    BY <1>2, <1>3, <2>3 DEF ThreadControl, Listed
  <2>6. (NamesListed /\ Connections /\ UniqueNicknames /\ ListIntegrity)'
    BY <1>1, <1>2, <2>1, QuietStep DEF netVars
  <2> QED BY <2>3, <2>4, <2>5, <2>6 DEF IInv
<1> QED BY <1>4, <1>5

(* A handler that changes nothing but its answer *)
LEMMA AnswerStep ==
  ASSUME IInv, pc \in {"process", "respond"}, NEW status \in PacketStatus,
         Respond(status), request.command # "LOGIN",
         peer' = peer, backlog' = backlog, toClient' = toClient,
         toServer' \in [Conn -> Seq(Cell)],
         UNCHANGED <<nodeVars, fdReads>>,
         recipient' \in {recipient, NULL}, cycle' \in {cycle, 0}
  PROVE  IInv'
<1>1. ServerTypeOK /\ NetTypeOK /\ MaxCycles \in Nat \ {0}
  BY ServerAssumption DEF IInv, ServerTypeOK
<1>2. /\ cursor \in Conn \cap Listed /\ cursor \in Node /\ Complete(buffer[cursor])
  BY HandlerFacts
<1>3. UNCHANGED <<clients, nickname, isLogined, buffer, fdMaster>>
  BY DEF nodeVars
<1>4. pc' = "reply" /\ cursor' = cursor /\ out' \in Packet /\ AnswersMatchRequests'
  BY <1>3, RespondStep
<1>5. NetTypeOK'
  BY <1>1 DEF NetTypeOK
<1>6. cycle' \in 0 .. MaxCycles /\ recipient' \in Conn \cup {NULL}
  BY <1>1 DEF ServerTypeOK
<1>7. ServerTypeOK'
  BY <1>1, <1>2, <1>3, <1>4, <1>5, <1>6 DEF ServerTypeOK
<1>8. ThreadControl'
  BY <1>2, <1>3, <1>4 DEF ThreadControl, Listed
<1>9. (NamesListed /\ Connections /\ UniqueNicknames /\ ListIntegrity)'
  BY <1>3, QuietStep
<1> QED BY <1>4, <1>7, <1>8, <1>9 DEF IInv

(* A chat changes nothing but the answer *)
LEMMA CreateChatStep == IInv /\ processCreateChatPacket => IInv'
<1> SUFFICES ASSUME IInv, processCreateChatPacket
             PROVE  IInv'
  OBVIOUS
<1>1. toServer' \in [Conn -> Seq(Cell)] /\ UNCHANGED <<peer, backlog, toClient>>
  BY DEF IInv, ServerTypeOK, NetTypeOK, processCreateChatPacket, netVars
<1>2. createChatStatus \in PacketStatus
  BY DEF createChatStatus, PacketStatus
<1> QED BY <1>1, <1>2, AnswerStep DEF processCreateChatPacket, Processing

(* A message that is refused changes nothing but the answer *)
LEMMA RefuseStep == IInv /\ RefuseMessage => IInv'
<1> SUFFICES ASSUME IInv, RefuseMessage
             PROVE  IInv'
  OBVIOUS
<1>1. toServer' \in [Conn -> Seq(Cell)] /\ UNCHANGED <<peer, backlog, toClient>>
  BY DEF IInv, ServerTypeOK, NetTypeOK, RefuseMessage, netVars
<1>2. PICK status \in {"CANT_READ", "FAILURE"} : Respond(status)
  BY DEF RefuseMessage
<1>3. status \in PacketStatus
  BY DEF PacketStatus
<1> QED BY <1>1, <1>2, <1>3, AnswerStep DEF RefuseMessage, Processing

(* A packet put into a stream *)
LEMMA SentStreams ==
  ASSUME toClient \in [Conn -> Seq(Cell)], NEW c \in Conn, NEW p \in Packet
  PROVE  Sent(c, p) \in [Conn -> Seq(Cell)]
<1>1. toClient[c] \o Cells(p) \in Seq(Cell)
  BY PacketCells, ConcatProperties
<1> QED BY <1>1 DEF Sent

(* The recipient that the delivery goes to is a client of the list *)
LEMMA SendDeliveryStep == IInv /\ SendDelivery => IInv'
<1> SUFFICES ASSUME IInv, SendDelivery
             PROVE  IInv'
  OBVIOUS
<1> DEFINE to == Lookup(field(1))
<1>1. /\ ServerTypeOK /\ NetTypeOK /\ pc = "process" /\ clients \in Seq(Node)
      /\ request.command = "MESSAGE"
  BY DEF IInv, ServerTypeOK, SendDelivery, Processing
<1>2. /\ ~unreadable /\ to \in Conn /\ toClient' = Sent(to, delivery)
      /\ recipient' = to /\ pc' = "respond" /\ cycle' = 0
      /\ UNCHANGED <<peer, backlog, toServer, nodeVars, fdReads, cursor, out>>
  BY DEF SendDelivery
<1>3. /\ cursor \in Conn \cap Listed /\ cursor \in Node /\ Complete(buffer[cursor])
      /\ field(2) \in String \cup {NULL}
  BY <1>1, HandlerFacts
<1>4. to \in Listed
  BY <1>1, <1>2, FirstInList, NodesNotNull, NetworkAssumption DEF Lookup, Listed
<1> HIDE DEF to
<1>5. delivery \in Packet
  <2>1. nickname[cursor] \in String /\ field(2) \in String
    BY <1>1, <1>2, <1>3 DEF ServerTypeOK, unreadable
  <2>2. <<nickname[cursor], field(2)>> \in Seq(String)
    BY <2>1
  <2>3. 0 \in Id
    BY PacketsAssumption DEF Id
  <2> QED BY <2>2, <2>3, MadePacket
          DEF delivery, PacketType, PacketCommand, PacketStatus
<1>6. toClient' \in [Conn -> Seq(Cell)]
  BY <1>1, <1>2, <1>5, SentStreams DEF NetTypeOK
<1>7. UNCHANGED <<clients, nickname, isLogined, buffer, fdMaster>>
  BY <1>2 DEF nodeVars
<1>8. ServerTypeOK'
  <2>1. 0 \in 0 .. MaxCycles
    BY ServerAssumption
  <2>2. NetTypeOK'
    BY <1>1, <1>2, <1>6 DEF NetTypeOK
  <2> QED BY <1>1, <1>2, <1>7, <2>1, <2>2 DEF ServerTypeOK
<1>9. ThreadControl'
  BY <1>1, <1>2, <1>3, <1>4, <1>7 DEF ThreadControl, Listed, request
<1>10. AnswersMatchRequests'
  BY <1>2 DEF AnswersMatchRequests
<1>11. (NamesListed /\ Connections /\ UniqueNicknames /\ ListIntegrity)'
  BY <1>1, <1>2, <1>7, QuietStep
<1> QED BY <1>8, <1>9, <1>10, <1>11 DEF IInv

(* The exit of the server, after a send() that fails *)
LEMMA ExitStep == IInv /\ (DeliveryFails \/ RespondNotSent) => IInv'
<1> SUFFICES ASSUME IInv, Exit
             PROVE  IInv'
  BY DEF DeliveryFails, RespondNotSent
<1>1. /\ ServerTypeOK /\ NetTypeOK /\ pc' = "exited" /\ peer' = Cut(Conn)
      /\ UNCHANGED <<backlog, toServer, toClient, nodeVars, fdReads, cursor,
                     recipient, cycle, out>>
  BY DEF IInv, ServerTypeOK, Exit
<1>2. UNCHANGED <<clients, nickname, isLogined, buffer, fdMaster>>
  BY <1>1 DEF nodeVars
<1>3. /\ peer' \in [Conn -> {"idle", "up", "cut", "down"}]
      /\ \A c \in Conn : peer'[c] = "idle" => peer[c] = "idle"
  BY <1>1 DEF NetTypeOK, Cut
<1>4. ServerTypeOK'
  <2>1. NetTypeOK'
    BY <1>1, <1>3 DEF NetTypeOK
  <2> QED BY <1>1, <1>2, <2>1 DEF ServerTypeOK
<1>5. ThreadControl' /\ AnswersMatchRequests'
  BY <1>1 DEF ThreadControl, AnswersMatchRequests
<1>6. Listed' = Listed
  BY <1>2 DEF Listed
<1>7. (NamesListed /\ Connections /\ UniqueNicknames /\ ListIntegrity)'
  BY <1>1, <1>2, <1>3, <1>6
     DEF IInv, NamesListed, Connections, UniqueNicknames, ListIntegrity
<1> QED BY <1>4, <1>5, <1>7 DEF IInv

(* An answer of the recipient ends sendMessage: the respond is for the     *)
(* client whose request is still at the start of its buffer.               *)
LEMMA ReadRespondStep ==
  IInv /\ (\E k \in 1 .. RespondSize : ReadRespond(k)) => IInv'
<1> SUFFICES ASSUME IInv, NEW k \in 1 .. RespondSize, ReadRespond(k)
             PROVE  IInv'
  OBVIOUS
<1>1. /\ ServerTypeOK /\ NetTypeOK /\ pc = "respond"
      /\ recipient \in Conn /\ request.command = "MESSAGE"
  BY DEF IInv, ServerTypeOK, ThreadControl, ReadRespond
<1>2. /\ toServer' = [toServer EXCEPT ![recipient] = Drop(@, k)]
      /\ UNCHANGED <<peer, backlog, toClient, nodeVars, fdReads>>
  BY DEF ReadRespond
<1>3. PICK delivered \in Verdicts(toServer[recipient][1]) : Returns(delivered)
  BY DEF ReadRespond
<1>4. toServer' \in [Conn -> Seq(Cell)]
  <2>1. k \in Nat
    BY ServerAssumption
  <2>2. Drop(toServer[recipient], k) \in Seq(Cell)
    BY <1>1, <2>1, StreamDrop DEF NetTypeOK
  <2> QED BY <1>1, <1>2, <2>2 DEF NetTypeOK
<1>5. PICK status \in {"OK", "FAILURE"} : Respond(status)
  BY <1>3 DEF Returns
<1>6. status \in PacketStatus /\ recipient' = NULL /\ cycle' = 0
  BY <1>3 DEF PacketStatus, Returns
<1> QED BY <1>1, <1>2, <1>4, <1>5, <1>6, AnswerStep

(* A header read in part leaves the thread waiting, or ends sendMessage *)
LEMMA ReadPartStep == IInv /\ ReadPartOfRespond => IInv'
<1> SUFFICES ASSUME IInv, ReadPartOfRespond
             PROVE  IInv'
  OBVIOUS
<1> DEFINE head == toServer[recipient][1]
<1>1. /\ ServerTypeOK /\ NetTypeOK /\ pc = "respond"
      /\ recipient \in Conn \cap Listed /\ request.command = "MESSAGE"
      /\ cursor \in Conn \cap Listed /\ Complete(buffer[cursor])
  BY DEF IInv, ServerTypeOK, ThreadControl, ReadPartOfRespond
<1>2. /\ toServer[recipient] # <<>> /\ head.part = 0
      /\ UNCHANGED <<peer, backlog, toClient, nodeVars, fdReads>>
  BY DEF ReadPartOfRespond
<1>3. UNCHANGED <<clients, nickname, isLogined, buffer, fdMaster>>
  BY <1>2 DEF nodeVars
<1>4. CASE cycle + 1 < MaxCycles
  <2>1. cycle' = cycle + 1 /\ UNCHANGED <<toServer, pc, cursor, recipient, out>>
    BY <1>4 DEF ReadPartOfRespond
  <2>2. cycle' \in 0 .. MaxCycles
    BY <1>1, <1>4, <2>1, ServerAssumption DEF ServerTypeOK
  <2>3. ServerTypeOK'
    BY <1>1, <1>2, <1>3, <2>1, <2>2 DEF ServerTypeOK, NetTypeOK
  <2>4. ThreadControl' /\ AnswersMatchRequests'
    BY <1>1, <1>3, <2>1 DEF ThreadControl, AnswersMatchRequests, Listed, request
  <2>5. (NamesListed /\ Connections /\ UniqueNicknames /\ ListIntegrity)'
    BY <1>1, <1>2, <1>3, QuietStep
  <2> QED BY <2>3, <2>4, <2>5 DEF IInv
<1>5. CASE ~(cycle + 1 < MaxCycles)
  <2>1. /\ Returns(FALSE)
        /\ toServer' = [toServer EXCEPT ![recipient] = <<Rest(head.pkt)>> \o Tail(@)]
    BY <1>5 DEF ReadPartOfRespond
  <2>2. toServer' \in [Conn -> Seq(Cell)]
    <3>1. toServer[recipient] \in Seq(Cell) /\ head \in Cell
      BY <1>1, <1>2 DEF NetTypeOK
    <3>2. Rest(head.pkt) \in Cell
      <4>1. head.pkt \in Packet /\ Len(head.pkt.fields) \in Nat
        BY <3>1 DEF Cell, Packet
      <4> QED BY <4>1 DEF Rest, Cell
    <3>3. <<Rest(head.pkt)>> \o Tail(toServer[recipient]) \in Seq(Cell)
      BY <1>2, <3>1, <3>2, HeadTailProperties, ConcatProperties
    <3> HIDE DEF head
    <3> QED BY <1>1, <2>1, <3>3 DEF NetTypeOK
  <2>3. /\ Respond("FAILURE") /\ recipient' = NULL /\ cycle' = 0
        /\ "FAILURE" \in PacketStatus
    BY <2>1 DEF Returns, PacketStatus
  <2> QED BY <1>1, <1>2, <2>2, <2>3, AnswerStep
<1> QED BY <1>4, <1>5

(* deleteClient inside sendMessage leaves the asker's node, its buffer and *)
(* its request alone, unless he is the recipient.                          *)
LEMMA RespondFailsStep == IInv /\ RespondFails => IInv'
<1> SUFFICES ASSUME IInv, RespondFails
             PROVE  IInv'
  OBVIOUS
<1>1. /\ ServerTypeOK /\ pc = "respond" /\ recipient \in Conn \cap Listed
      /\ request.command = "MESSAGE"
      /\ cursor \in Conn \cap Listed /\ cursor \in Node /\ Complete(buffer[cursor])
      /\ deleteClient(recipient) /\ UNCHANGED fdReads
  BY DEF IInv, ThreadControl, RespondFails, Node
<1>2. /\ clients' \in Seq(Node)
      /\ nickname' \in [Node -> String] /\ isLogined' \in [Node -> BOOLEAN]
      /\ buffer' \in [Node -> Seq(Cell)] /\ fdMaster' \subseteq Conn \cup {LISTEN}
      /\ NetTypeOK' /\ Listed' = Listed \ {recipient}
      /\ (NamesListed /\ Connections /\ UniqueNicknames /\ ListIntegrity)'
  BY <1>1, DeleteStep
<1>3. CASE recipient = cursor
  <2>1. pc' = "undefined" /\ UNCHANGED <<cursor, recipient, cycle, out>>
    BY <1>3 DEF RespondFails
  <2>2. ServerTypeOK'
    BY <1>1, <1>2, <2>1 DEF ServerTypeOK
  <2>3. ThreadControl' /\ AnswersMatchRequests'
    BY <2>1 DEF ThreadControl, AnswersMatchRequests
  <2> QED BY <1>2, <2>2, <2>3 DEF IInv
<1>4. CASE recipient # cursor
  <2>1. Respond("FAILURE") /\ recipient' = NULL /\ cycle' = 0
    BY <1>4 DEF RespondFails, Returns
  <2>2. buffer'[cursor] = buffer[cursor]
    BY <1>1, <1>4 DEF deleteClient, ServerTypeOK
  <2>3. pc' = "reply" /\ cursor' = cursor /\ out' \in Packet /\ AnswersMatchRequests'
    BY <1>1, <2>1, <2>2, RespondStep DEF PacketStatus
  <2>4. ServerTypeOK'
    <3>1. 0 \in 0 .. MaxCycles
      BY ServerAssumption
    <3> QED BY <1>1, <1>2, <2>1, <2>3, <3>1 DEF ServerTypeOK
  <2>5. ThreadControl'
    BY <1>1, <1>2, <1>4, <2>2, <2>3 DEF ThreadControl
  <2> QED BY <1>2, <2>3, <2>4, <2>5 DEF IInv
<1> QED BY <1>3, <1>4

(* After the respond the packet is cleared and the loop goes on behind the *)
(* client, whose node is still in the list.                                *)
LEMMA SendRespondStep == IInv /\ SendRespond => IInv'
<1> SUFFICES ASSUME IInv, SendRespond
             PROVE  IInv'
  OBVIOUS
<1> DEFINE bufs == [buffer EXCEPT ![cursor] = clearedBuffer]
<1>1. /\ ServerTypeOK /\ NetTypeOK /\ pc = "reply" /\ clients \in Seq(Node)
      /\ out \in Packet
  BY DEF IInv, ServerTypeOK, ThreadControl, SendRespond
<1>2. /\ toClient' = Sent(cursor, out) /\ buffer' = bufs
      /\ GoProcess(clients, Position(clients, cursor) + 1, bufs)
      /\ out' = NULL
      /\ UNCHANGED <<peer, backlog, toServer, clients, nickname, isLogined,
                     fdMaster, fdReads, recipient, cycle>>
  BY DEF SendRespond
<1>3. /\ cursor \in Conn \cap Listed /\ cursor \in Node
      /\ buffer[cursor] \in Seq(Cell) /\ request \in Packet
  BY <1>1, HandlerFacts
<1>4. bufs \in [Node -> Seq(Cell)]
  <2>1. Size(request) \in Nat
    BY <1>3, PacketCells
  <2>2. clearedBuffer \in Seq(Cell)
    BY <1>3, <2>1, StreamDrop DEF clearedBuffer
  <2> QED BY <1>1, <2>2 DEF ServerTypeOK
<1> HIDE DEF bufs
<1>5. toClient' \in [Conn -> Seq(Cell)]
  BY <1>1, <1>2, <1>3, SentStreams DEF NetTypeOK
<1>6. \/ pc' = "select" /\ cursor' = NULL
      \/ pc' = "process" /\ cursor' \in Conn \cap Listed /\ Complete(bufs[cursor'])
  <2>1. Position(clients, cursor) + 1 \in Nat \ {0}
    BY <1>1, <1>3, PositionIn DEF Listed
  <2> QED BY <1>1, <1>2, <2>1, ProcessLands DEF Listed
<1>7. ServerTypeOK'
  <2>1. NetTypeOK'
    BY <1>1, <1>2, <1>5 DEF NetTypeOK
  <2>2. cursor' \in Node \cup {NULL} /\ pc' \in {"select", "process"}
    BY <1>6 DEF Node
  <2> QED BY <1>1, <1>2, <1>4, <2>1, <2>2 DEF ServerTypeOK
<1>8. ThreadControl' /\ AnswersMatchRequests'
  BY <1>2, <1>6 DEF ThreadControl, AnswersMatchRequests, Listed
<1>9. (NamesListed /\ Connections /\ UniqueNicknames /\ ListIntegrity)'
  BY <1>1, <1>2, QuietStep
<1> QED BY <1>7, <1>8, <1>9 DEF IInv

-----------------------------------------------------------------------------
(* What clients do *)

(* Whatever a client does touches his own connection only, and a new       *)
(* connection is not in the list.                                          *)
LEMMA AnyClientStep == IInv /\ AnyClient => IInv'
<1> SUFFICES ASSUME IInv, AnyClient
             PROVE  IInv'
  OBVIOUS
<1>1. /\ ServerTypeOK /\ NetTypeOK /\ UNCHANGED serverVars
      /\ clients \in Seq(Node) /\ backlog \in Seq(Conn)
  BY DEF IInv, ServerTypeOK, NetTypeOK, AnyClient
<1>2. /\ UNCHANGED <<clients, nickname, isLogined, buffer, fdMaster>>
      /\ UNCHANGED <<fdReads, pc, cursor, recipient, cycle, out>>
  BY <1>1 DEF serverVars, nodeVars, localVars
<1>3. Listed' = Listed
  BY <1>2 DEF Listed
<1>4. NamesListed' /\ UniqueNicknames' /\ AnswersMatchRequests'
  BY <1>2, <1>3 DEF IInv, NamesListed, UniqueNicknames, AnswersMatchRequests,
                    request, field
<1>5. ASSUME NetTypeOK', backlog' # <<>> \/ backlog' = backlog
      PROVE  ServerTypeOK' /\ ThreadControl'
  <2>1. ServerTypeOK'
    BY <1>1, <1>2, <1>5 DEF ServerTypeOK
  <2>2. ThreadControl'
    BY <1>2, <1>3, <1>5 DEF IInv, ThreadControl, request
  <2> QED BY <2>1, <2>2
<1>6. ASSUME NEW c \in Conn, pc # "exited", Connect(c)
      PROVE  IInv'
  <2>1. /\ peer[c] = "idle" /\ peer' = [peer EXCEPT ![c] = "up"]
        /\ backlog' = Append(backlog, c) /\ UNCHANGED <<toServer, toClient>>
    BY <1>6 DEF Connect
  <2>2. c \notin Listed \cup ToSet(backlog)
    BY <2>1 DEF IInv, Connections
  <2>3. /\ backlog' \in Seq(Conn) /\ IsInjective(backlog') /\ backlog' # <<>>
        /\ ToSet(backlog') = ToSet(backlog) \cup {c}
    BY <1>1, <2>1, <2>2, QueueAppend, AppendProperties DEF IInv, Connections
  <2>4. /\ peer' \in [Conn -> {"idle", "up", "cut", "down"}] /\ peer'[c] = "up"
        /\ \A d \in Conn : d # c => peer'[d] = peer[d]
    BY <1>1, <2>1 DEF NetTypeOK
  <2>5. NetTypeOK'
    BY <1>1, <2>1, <2>3, <2>4 DEF NetTypeOK
  <2>6. Connections'
    <3>1. ToSet(backlog) \subseteq Conn
      BY <1>1 DEF ToSet
    <3> QED BY <1>2, <1>3, <2>2, <2>3, <2>4, <3>1 DEF IInv, Connections
  <2>7. ListIntegrity'
    BY <1>2, <1>3, <2>2, <2>4 DEF IInv, ListIntegrity
  <2> QED BY <1>4, <1>5, <2>3, <2>5, <2>6, <2>7 DEF IInv
<1>7. ASSUME NEW c \in Conn, NEW p \in ClientPacket, ClientSend(c, p)
      PROVE  IInv'
  <2>1. p \in Packet
    BY ClientPacketsArePackets, ServerAssumption
  <2>2. toServer[c] \o Cells(p) \in Seq(Cell)
    BY <1>1, <2>1, PacketCells, ConcatProperties DEF NetTypeOK
  <2>3. NetTypeOK' /\ UNCHANGED <<peer, backlog>>
    BY <1>1, <1>7, <2>2 DEF ClientSend, NetTypeOK
  <2>4. Connections' /\ ListIntegrity'
    BY <1>2, <1>3, <2>3 DEF IInv, Connections, ListIntegrity
  <2> QED BY <1>4, <1>5, <2>3, <2>4 DEF IInv
<1>8. ASSUME NEW c \in Conn, NEW k \in 1 .. SockBuf, ClientRecv(c, k)
      PROVE  IInv'
  <2>1. k \in Nat
    BY NetworkAssumption
  <2>2. Drop(toClient[c], k) \in Seq(Cell)
    BY <1>1, <2>1, StreamDrop DEF NetTypeOK
  <2>3. NetTypeOK' /\ UNCHANGED <<peer, backlog>>
    BY <1>1, <1>8, <2>2 DEF ClientRecv, NetTypeOK
  <2>4. Connections' /\ ListIntegrity'
    BY <1>2, <1>3, <2>3 DEF IInv, Connections, ListIntegrity
  <2> QED BY <1>4, <1>5, <2>3, <2>4 DEF IInv
<1>9. ASSUME NEW c \in Conn, ClientClose(c)
      PROVE  IInv'
  <2>1. /\ peer[c] \in {"up", "cut"} /\ peer' = [peer EXCEPT ![c] = "down"]
        /\ toClient' = [toClient EXCEPT ![c] = <<>>] /\ UNCHANGED <<backlog, toServer>>
    BY <1>9 DEF ClientClose
  <2>2. /\ peer' \in [Conn -> {"idle", "up", "cut", "down"}] /\ peer'[c] = "down"
        /\ \A d \in Conn : d # c => peer'[d] = peer[d]
    BY <1>1, <2>1 DEF NetTypeOK
  <2>3. NetTypeOK'
    <3>1. <<>> \in Seq(Cell) /\ toClient \in [Conn -> Seq(Cell)]
      BY <1>1 DEF NetTypeOK
    <3> QED BY <1>1, <2>1, <2>2, <3>1 DEF NetTypeOK
  <2>4. Connections'
    BY <1>2, <1>3, <2>1, <2>2 DEF IInv, Connections
  <2>5. ListIntegrity'
    BY <1>2, <1>3, <2>2 DEF IInv, ListIntegrity
  <2> QED BY <1>4, <1>5, <2>1, <2>3, <2>4, <2>5 DEF IInv
<1> QED BY <1>6, <1>7, <1>8, <1>9 DEF AnyClient

-----------------------------------------------------------------------------
(* Every step, and so every behaviour *)

(* The inductive invariant holds after every step that starts in it *)
LEMMA NextIInv == IInv /\ [Next]_vars => IInv'
<1> SUFFICES ASSUME IInv, [Next]_vars
             PROVE  IInv'
  OBVIOUS
<1>1. CASE ServerNext
  <2>1. CASE waitForClients
    BY <2>1, WaitStep
  <2>2. CASE Accept
    BY <2>2, AcceptStep
  <2>3. CASE AcceptFails
    BY <2>3, AcceptFailsStep
  <2>4. CASE \E k \in 1 .. BufSize : Recv(k)
    BY <2>4, RecvStep
  <2>5. CASE RecvFails
    BY <2>5, RecvFailsStep
  <2>6. CASE processLoginPacket
    BY <2>6, LoginStep
  <2>7. CASE processCreateChatPacket
    BY <2>7, CreateChatStep
  <2>8. CASE RefuseMessage
    BY <2>8, RefuseStep
  <2>9. CASE SendDelivery
    BY <2>9, SendDeliveryStep
  <2>10. CASE DeliveryFails \/ RespondNotSent
    BY <2>10, ExitStep
  <2>11. CASE \E k \in 1 .. RespondSize : ReadRespond(k)
    BY <2>11, ReadRespondStep
  <2>12. CASE ReadPartOfRespond
    BY <2>12, ReadPartStep
  <2>13. CASE RespondFails
    BY <2>13, RespondFailsStep
  <2>14. CASE SendRespond
    BY <2>14, SendRespondStep
  <2> QED
    BY <1>1, <2>1, <2>2, <2>3, <2>4, <2>5, <2>6, <2>7, <2>8, <2>9, <2>10,
       <2>11, <2>12, <2>13, <2>14 DEF ServerNext
<1>2. CASE AnyClient
  BY <1>2, AnyClientStep
<1>3. CASE UNCHANGED vars
  <2>1. UNCHANGED <<peer, backlog, toServer, toClient, clients, nickname,
                    isLogined, buffer, fdMaster, fdReads, pc, cursor,
                    recipient, cycle, out>>
    BY <1>3 DEF vars, netVars, serverVars, nodeVars, localVars
  <2>2. ServerTypeOK'
    BY <2>1 DEF IInv, ServerTypeOK, NetTypeOK
  <2>3. ThreadControl' /\ AnswersMatchRequests'
    BY <2>1 DEF IInv, ThreadControl, AnswersMatchRequests, Listed, request, field
  <2>4. (NamesListed /\ Connections /\ UniqueNicknames /\ ListIntegrity)'
    BY <2>1 DEF IInv, NamesListed, Connections, UniqueNicknames, ListIntegrity,
                Listed
  <2> QED BY <2>2, <2>3, <2>4 DEF IInv
<1> QED BY <1>1, <1>2, <1>3 DEF Next

(* The inductive invariant holds in every reachable state *)
THEOREM Invariance == Spec => []IInv
<1>1. ServerInit => IInv
  BY InitIInv
<1>2. IInv /\ [Next]_vars => IInv'
  BY NextIInv
<1> QED BY <1>1, <1>2, PTL DEF Spec

(* Every variable of the server keeps its type, whatever packets clients   *)
(* send and whenever they leave: in particular a nickname is a string that *)
(* was read from a packet, never the NULL of readPacketString.             *)
THEOREM TypeCorrect == Spec => []ServerTypeOK
<1>1. IInv => ServerTypeOK
  BY DEF IInv
<1> QED BY <1>1, Invariance, PTL

(* No two clients of the list have the same nickname: the search of        *)
(* processLoginPacket and the copy that follows it cannot be separated by  *)
(* another login, and a nickname goes with the node that carries it.       *)
THEOREM NicknamesUnique == Spec => []UniqueNicknames
<1>1. IInv => UniqueNicknames
  BY DEF IInv
<1> QED BY <1>1, Invariance, PTL

(* The list has no duplicate, FD_SET holds open sockets of the list only,  *)
(* and every client of the list as long as they fit.                       *)
THEOREM ListCorrect == Spec => []ListIntegrity
<1>1. IInv => ListIntegrity
  BY DEF IInv
<1> QED BY <1>1, Invariance, PTL

(* main() and sendMessage hold pointers to nodes of the list, although     *)
(* sendMessage waits for another client and may delete him.                *)
THEOREM PointersCorrect == Spec => []PointersLive
<1>1. IInv => PointersLive
  BY DEF IInv, ThreadControl, PointersLive
<1> QED BY <1>1, Invariance, PTL

(* A respond answers the request at the start of the asker's buffer, and a *)
(* login is granted only with its nickname stored.                         *)
THEOREM AnswersCorrect == Spec => []AnswersMatchRequests
<1>1. IInv => AnswersMatchRequests
  BY DEF IInv
<1> QED BY <1>1, Invariance, PTL

-----------------------------------------------------------------------------
(* The server implements the registry of nicknames *)

(* A step that changes the nickname of at most one client of the list is a *)
(* step of the registry when the new nickname is free or empty.            *)
LEMMA OneNicknameStep ==
  ASSUME NEW c \in Conn, NEW n \in String, ServerTypeOK,
         nickname' = [nickname EXCEPT ![c] = n],
         n # NoName => \A o \in Conn : nickname[o] # n
  PROVE  [Registry!RegistryNext]_[x \in Conn |-> nickname[x]]
<1> DEFINE name == [x \in Conn |-> nickname[x]]
<1>1. /\ name' = [name EXCEPT ![c] = n]
      /\ \A o \in Conn : name[o] = nickname[o]
  BY DEF ServerTypeOK, Node
<1>2. CASE n # NoName
  <2>1. n \in String \ {NoName} /\ Registry!Free(n)
    BY <1>1, <1>2 DEF Registry!Free
  <2>2. Registry!Register(c, n)
    BY <1>1, <2>1 DEF Registry!Register
  <2> QED BY <2>1, <2>2 DEF Registry!RegistryNext
<1>3. CASE n = NoName /\ nickname[c] # NoName
  <2>1. Registry!Leave(c)
    BY <1>1, <1>3 DEF Registry!Leave
  <2> QED BY <2>1 DEF Registry!RegistryNext
<1>4. CASE n = NoName /\ nickname[c] = NoName
  <2>1. name' = name
    BY <1>1, <1>4
  <2> QED BY <2>1
<1> QED BY <1>2, <1>3, <1>4

(* What a granted login stores is in no other node, in the list or out *)
LEMMA LoginIsFree ==
  ASSUME IInv, Processing("LOGIN"), loginStatus = "OK"
  PROVE  /\ cursor \in Conn /\ field(1) \in String
         /\ field(1) # NoName => \A o \in Conn : nickname[o] # field(1)
<1>1. ServerTypeOK /\ clients \in Seq(Node) /\ pc = "process"
  BY DEF IInv, ServerTypeOK, Processing
<1>2. cursor \in Conn /\ field(1) \in String \cup {NULL}
  BY <1>1, HandlerFacts
<1>3. field(1) \in String /\ Lookup(field(1)) = NULL
  BY <1>2 DEF loginStatus
<1>4. \A x \in Listed : nickname[x] # field(1)
  BY <1>1, <1>3, NobodyFound
<1>5. \A o \in Conn : o \notin Listed => nickname[o] = NoName
  BY DEF IInv, NamesListed, Node
<1> QED BY <1>2, <1>3, <1>4, <1>5

(* Every step of the server is a step of the registry or changes no name:  *)
(* only login and deleteClient write nicknames.                            *)
LEMMA RegistryStep ==
  IInv /\ [Next]_vars => [Registry!RegistryNext]_[c \in Conn |-> nickname[c]]
<1> SUFFICES ASSUME IInv, [Next]_vars
             PROVE  [Registry!RegistryNext]_[c \in Conn |-> nickname[c]]
  OBVIOUS
<1>1. ServerTypeOK /\ NoName \in String
  BY DEF IInv, ServerTypeOK, String, Name
<1>2. CASE nickname' = nickname
  BY <1>2
<1>3. ASSUME NEW c \in Conn, deleteClient(c)
      PROVE  [Registry!RegistryNext]_[x \in Conn |-> nickname[x]]
  BY <1>1, <1>3, OneNicknameStep DEF deleteClient
<1>4. CASE processLoginPacket /\ loginStatus = "OK"
  <2>1. Processing("LOGIN") /\ nickname' = [nickname EXCEPT ![cursor] = field(1)]
    BY <1>4 DEF processLoginPacket
  <2> QED BY <1>1, <1>4, <2>1, LoginIsFree, OneNicknameStep
<1>5. CASE processLoginPacket /\ loginStatus # "OK"
  BY <1>2, <1>5 DEF processLoginPacket
<1>6. CASE RecvFails
  <2>1. deleteClient(cursor) /\ cursor \in Conn
    BY <1>6 DEF RecvFails, IInv, ThreadControl
  <2> QED BY <1>3, <2>1
<1>7. CASE RespondFails
  <2>1. deleteClient(recipient) /\ recipient \in Conn
    BY <1>7 DEF RespondFails, IInv, ThreadControl
  <2> QED BY <1>3, <2>1
<1>8. CASE \/ waitForClients \/ Accept \/ AcceptFails
           \/ \E k \in 1 .. BufSize : Recv(k)
  BY <1>2, <1>8 DEF waitForClients, Accept, AcceptFails, Recv
<1>9. CASE \/ processCreateChatPacket \/ RefuseMessage \/ SendDelivery
           \/ DeliveryFails \/ RespondNotSent
  BY <1>2, <1>9 DEF processCreateChatPacket, RefuseMessage, SendDelivery,
                    DeliveryFails, RespondNotSent, Exit, nodeVars
<1>10. CASE \/ \E k \in 1 .. RespondSize : ReadRespond(k)
            \/ ReadPartOfRespond \/ SendRespond
  BY <1>2, <1>10 DEF ReadRespond, ReadPartOfRespond, SendRespond, nodeVars
<1>11. CASE AnyClient \/ UNCHANGED vars
  BY <1>2, <1>11 DEF AnyClient, vars, serverVars, nodeVars
<1> QED
  BY <1>4, <1>5, <1>6, <1>7, <1>8, <1>9, <1>10, <1>11 DEF Next, ServerNext

(* Seen from outside, the server is the registry of NameRegistry: only a   *)
(* client's own login or end changes his nickname, to one nobody has.      *)
THEOREM RegistryRefined == Spec => NicknamesAreRegistry
<1>1. ServerInit => Registry!RegistryInit
  BY DEF ServerInit, Registry!RegistryInit, Node
<1>2. IInv /\ [Next]_vars
        => [Registry!RegistryNext]_[c \in Conn |-> nickname[c]]
  BY RegistryStep
<1> QED BY <1>1, <1>2, Invariance, PTL
        DEF Spec, NicknamesAreRegistry, Registry!RegistrySpec
-----------------------------------------------------------------------------
(* Who is dropped.  The receive loop gives recv() the rest of a client's   *)
(* buffer, and an empty rest ends the client.  A buffer can be full of     *)
(* intact packets, because one packet is processed per pass; but the       *)
(* processing loop comes to every such client before the receive loop      *)
(* comes to anybody again.                                                 *)

(* Cells of the packets that clients send: none exceeds a buffer *)
SmallCell == {cell \in Cell : Size(cell.pkt) <= 3}

BuffersHold ==
  /\ toServer \in [Conn -> Seq(SmallCell)]
  /\ buffer \in [Node -> Seq(SmallCell)]
  /\ \A x \in Node : Len(buffer[x]) <= BufSize

(* The clients with intact packets and no room for more *)
NoRoom(bufs) == {c \in Conn : Aligned(bufs[c]) /\ Len(bufs[c]) = BufSize}

Between(list, i, j) == {list[k] : k \in i .. j}

(* No client is without room at select(); in the receive loop only those   *)
(* that it has passed may be, in the processing loop only those that it    *)
(* has not passed.                                                         *)
RoomAhead ==
  /\ pc \in {"select", "accept"} => NoRoom(buffer) = {}
  /\ pc = "recv" =>
       NoRoom(buffer) \subseteq Between(clients, 1, Position(clients, cursor) - 1)
  /\ pc \in {"process", "respond", "reply"} =>
       NoRoom(buffer) \subseteq
         Between(clients, Position(clients, cursor), Len(clients))

RoomInv == BuffersHold /\ RoomAhead

(* What is left of a sequence without its first cells *)
LEMMA SeqDrop ==
  ASSUME NEW T, NEW s \in Seq(T), NEW n \in Nat
  PROVE  /\ Drop(s, n) \in Seq(T)
         /\ n > 0 => Len(Drop(s, n)) < Len(s) \/ Len(s) = 0
<1>1. \A i \in n + 1 .. Len(s) : s[i] \in T
  OBVIOUS
<1>2. /\ Drop(s, n) \in Seq(T)
      /\ Len(Drop(s, n)) = IF n + 1 <= Len(s) THEN Len(s) - (n + 1) + 1 ELSE 0
  BY <1>1, SubSeqProperties DEF Drop
<1> QED BY <1>2

(* What clients send fits into a buffer *)
LEMMA SmallPackets ==
  ASSUME NEW p \in ClientPackets
  PROVE  Cells(p) \in Seq(SmallCell)
<1>1. p \in Packet /\ Len(p.fields) \in Nat
  BY ClientPacketsArePackets DEF Packet
<1>2. Size(p) <= 3
  <2>1. \A n : Len(<<n>>) = 1 /\ \A t : Len(<<n, t>>) = 2
    OBVIOUS
  <2>2. \A type, command, status, id, fields :
          createPacket(type, command, status, id, fields).fields = fields
    BY DEF createPacket
  <2>3. \A n, id : Len(LoginRequest(n, id).fields) = 1
    BY <2>1, <2>2 DEF LoginRequest
  <2>4. \A n, id : Len(ChatRequest(n, id).fields) = 1
    BY <2>1, <2>2 DEF ChatRequest
  <2>5. \A n, t, id : Len(MessageRequest(n, t, id).fields) = 2
    BY <2>1, <2>2 DEF MessageRequest
  <2>6. \A status : Len(DeliveryRespond(status).fields) = 0
    BY <2>2 DEF DeliveryRespond
  <2>7. Len(p.fields) \in {0, 1, 2}
    BY <2>3, <2>4, <2>5, <2>6 DEF ClientPackets
  <2>8. \A n \in {0, 1, 2} : n + 1 <= 3
    OBVIOUS
  <2> QED BY <2>7, <2>8 DEF Size
<1>3. \A k \in 1 .. Size(p) : [pkt |-> p, part |-> k - 1] \in SmallCell
  BY <1>1, <1>2 DEF Size, SmallCell, Cell
<1>4. Cells(p) \in [1 .. Size(p) -> SmallCell] /\ Size(p) \in Nat
  BY <1>1, <1>3 DEF Cells, Size
<1> QED BY <1>4, SeqDef

(* A client without room has a whole packet *)
LEMMA NoRoomComplete ==
  ASSUME NEW bufs \in [Node -> Seq(SmallCell)]
  PROVE  NoRoom(bufs) \subseteq {c \in Conn : Complete(bufs[c])}
<1> SUFFICES ASSUME NEW c \in Conn, Aligned(bufs[c]), Len(bufs[c]) = BufSize
             PROVE  Size(bufs[c][1].pkt) <= BufSize
  BY DEF NoRoom, Complete
<1>1. bufs[c] \in Seq(SmallCell) /\ bufs[c] # <<>>
  BY DEF Node, Aligned
<1>2. bufs[c][1] \in SmallCell
  BY <1>1
<1>3. bufs[c][1].pkt \in Packet /\ Len(bufs[c][1].pkt.fields) \in Nat
  BY <1>2 DEF SmallCell, Cell, Packet
<1> QED BY <1>2, <1>3, ServerAssumption DEF SmallCell, Size

(* A member of a list without duplicates that FirstIn finds is the first   *)
(* of the set from i on.                                                   *)
LEMMA FirstInPlace ==
  ASSUME NEW T, NULL \notin T, NEW list \in Seq(T), IsInjective(list),
         NEW i \in Nat \ {0}, NEW S, FirstIn(list, i, S) # NULL
  PROVE  LET m == Position(list, FirstIn(list, i, S))
         IN  /\ m \in i .. Len(list)
             /\ \A j \in i .. Len(list) : list[j] \in S => m <= j
<1> DEFINE found == {j \in i .. Len(list) : list[j] \in S}
<1>1. found # {} /\ found \in SUBSET Nat
  BY DEF FirstIn
<1>2. Min(found) \in found /\ \A y \in found : Min(found) =< y
  BY <1>1, MinExists
<1>3. FirstIn(list, i, S) = list[Min(found)]
  BY <1>1 DEF FirstIn
<1> HIDE DEF found
<1>4. PICK m : m = Min(found)
  OBVIOUS
<1>5. m \in 1 .. Len(list) /\ m \in i .. Len(list)
  BY <1>2, <1>4 DEF found
<1>6. list[m] \in ToSet(list)
  BY <1>5 DEF ToSet
<1>7. Position(list, list[m]) = m
  BY <1>5, <1>6, PositionIn DEF IsInjective
<1>8. \A j \in i .. Len(list) : list[j] \in S => m <= j
  BY <1>2, <1>4 DEF found
<1> QED BY <1>3, <1>4, <1>5, <1>7, <1>8

(* Where the processing loop stops, nobody without room is behind it *)
LEMMA ProcessRoom ==
  ASSUME NEW list \in Seq(Node), IsInjective(list), NEW i \in Nat \ {0},
         NEW bufs \in [Node -> Seq(SmallCell)],
         NoRoom(bufs) \subseteq Between(list, i, Len(list)),
         GoProcess(list, i, bufs), clients' = list, buffer' = bufs
  PROVE  RoomAhead'
<1> DEFINE S == {c \in Conn : Complete(bufs[c])}
           next == FirstIn(list, i, S)
<1>1. NoRoom(bufs) \subseteq S
  BY NoRoomComplete
<1>2. cursor' = next /\ pc' = IF next = NULL THEN "select" ELSE "process"
  BY DEF GoProcess
<1> HIDE DEF S
<1>3. CASE next = NULL
  <2>1. \A j \in i .. Len(list) : list[j] \notin S
    BY <1>3, FirstInList, NodesNotNull
  <2>2. NoRoom(bufs) = {}
    BY <1>1, <2>1 DEF Between
  <2> QED BY <1>2, <1>3, <2>2 DEF RoomAhead
<1>4. CASE next # NULL
  <2>1. PICK m : m = Position(list, next)
    OBVIOUS
  <2>2. \A j \in i .. Len(list) : list[j] \in S => m <= j
    BY <1>4, <2>1, FirstInPlace, NodesNotNull
  <2>3. m \in Nat
    BY <1>4, <2>1, FirstInPlace, NodesNotNull
  <2>4. NoRoom(bufs) \subseteq Between(list, m, Len(list))
    BY <1>1, <2>2, <2>3 DEF Between
  <2> QED BY <1>2, <1>4, <2>1, <2>4 DEF RoomAhead
<1> QED BY <1>3, <1>4

(* Where the receive loop stops, nobody without room is ahead of it *)
LEMMA RecvRoom ==
  ASSUME NEW list \in Seq(Node), IsInjective(list), NEW i \in Nat \ {0},
         NEW bufs \in [Node -> Seq(SmallCell)], i <= Len(list) + 1,
         NoRoom(bufs) \subseteq Between(list, 1, i - 1),
         NEW reads, GoRecv(list, i, reads, bufs),
         clients' = list, buffer' = bufs
  PROVE  RoomAhead'
<1> DEFINE next == FirstIn(list, i, reads)
<1>1. CASE next = NULL
  <2>1. GoProcess(list, 1, bufs)
    BY <1>1 DEF GoRecv
  <2>2. NoRoom(bufs) \subseteq Between(list, 1, Len(list))
    BY DEF Between
  <2> QED BY <2>1, <2>2, ProcessRoom
<1>2. CASE next # NULL
  <2>1. cursor' = next /\ pc' = "recv"
    BY <1>2 DEF GoRecv
  <2>2. PICK m : m = Position(list, next)
    OBVIOUS
  <2>3. m \in i .. Len(list)
    BY <1>2, <2>2, FirstInPlace, NodesNotNull
  <2>4. 1 .. i - 1 \subseteq 1 .. m - 1
    BY <2>3
  <2>5. NoRoom(bufs) \subseteq Between(list, 1, m - 1)
    BY <2>4 DEF Between
  <2> QED BY <2>1, <2>2, <2>5 DEF RoomAhead
<1> QED BY <1>1, <1>2

(* Unlinking a node leaves the others in their order *)
LEMMA UnlinkOrder ==
  ASSUME NEW T, NEW s \in Seq(T), IsInjective(s),
         NEW x \in ToSet(s), NEW y \in ToSet(s), x # y
  PROVE  LET r == RemoveAt(s, Position(s, x))
         IN  Between(s, Position(s, y), Len(s)) \ {x}
               \subseteq Between(r, Position(r, y), Len(r))
<1> DEFINE r == RemoveAt(s, Position(s, x))
<1>1. PICK p \in 1 .. Len(s) : p = Position(s, x) /\ s[p] = x
  BY PositionIn
<1>2. PICK q \in 1 .. Len(s) : q = Position(s, y) /\ s[q] = y
  BY PositionIn
<1>3. /\ r \in Seq(T) /\ Len(r) = Len(s) - 1 /\ Len(s) \in Nat
      /\ \A i \in 1 .. Len(s) - 1 : r[i] = IF i < p THEN s[i] ELSE s[i + 1]
  <2>1. r = RemoveAt(s, p)
    BY <1>1
  <2> HIDE DEF r
  <2>2. /\ RemoveAt(s, p) \in Seq(T) /\ Len(RemoveAt(s, p)) = Len(s) - 1
        /\ \A i \in 1 .. Len(s) - 1 :
             RemoveAt(s, p)[i] = IF i < p THEN s[i] ELSE s[i + 1]
    BY UnlinkedCells
  <2> QED BY <2>1, <2>2
<1>4. IsInjective(r) /\ y \in ToSet(r)
  BY UnlinkList
<1> HIDE DEF r
<1>5. PICK m \in 1 .. Len(r) : m = Position(r, y) /\ r[m] = y
  BY <1>3, <1>4, PositionIn
<1>6. \A i, j \in 1 .. Len(s) : s[i] = s[j] => i = j
  BY DEF IsInjective
<1>7. q = IF m < p THEN m ELSE m + 1
  <2>1. m \in 1 .. Len(s) - 1
    BY <1>3, <1>5
  <2>2. CASE m < p
    BY <1>2, <1>3, <1>5, <1>6, <2>1, <2>2
  <2>3. CASE ~(m < p)
    <3>1. m + 1 \in 1 .. Len(s) /\ s[m + 1] = s[q]
      BY <1>1, <1>2, <1>3, <1>5, <2>1, <2>3
    <3> QED BY <1>6, <2>3, <3>1
  <2> QED BY <2>2, <2>3
<1>8. SUFFICES ASSUME NEW k \in q .. Len(s), s[k] # x
               PROVE  \E i \in m .. Len(r) : r[i] = s[k]
  BY <1>1, <1>2, <1>5 DEF Between, r
<1>9. CASE k < p
  BY <1>1, <1>2, <1>3, <1>5, <1>7, <1>9
<1>10. CASE k > p
  <2>1. k - 1 \in m .. Len(r)
    BY <1>1, <1>2, <1>3, <1>5, <1>7, <1>10
  <2>2. r[k - 1] = s[k]
    BY <1>1, <1>2, <1>3, <1>5, <1>10, <2>1
  <2> QED BY <2>1, <2>2
<1> QED BY <1>1, <1>2, <1>8, <1>9, <1>10

(* The rest of a header is as small as the packet it was of *)
LEMMA SmallRest ==
  ASSUME NEW s \in Seq(SmallCell), s # <<>>
  PROVE  <<Rest(s[1].pkt)>> \o Tail(s) \in Seq(SmallCell)
<1>1. s[1] \in SmallCell /\ Tail(s) \in Seq(SmallCell)
  BY HeadTailProperties
<1>2. s[1].pkt \in Packet /\ Len(s[1].pkt.fields) \in Nat
  BY <1>1 DEF SmallCell, Cell, Packet
<1>3. Rest(s[1].pkt) \in SmallCell
  BY <1>1, <1>2 DEF Rest, SmallCell, Cell
<1> QED BY <1>1, <1>3, ConcatProperties

(* A client that is deleted leaves no cells behind *)
LEMMA DeletedBuffers ==
  ASSUME BuffersHold, NEW c \in Conn, deleteClient(c)
  PROVE  /\ BuffersHold'
         /\ NoRoom(buffer') = NoRoom(buffer) \ {c}
<1>1. /\ buffer' = [buffer EXCEPT ![c] = <<>>]
      /\ toServer' = [toServer EXCEPT ![c] = <<>>] /\ c \in Node
  BY DEF deleteClient, Node
<1>2. <<>> \in Seq(SmallCell) /\ Len(<<>>) = 0 /\ 0 <= BufSize
  BY ServerAssumption
<1>3. \A x \in Node : buffer'[x] = IF x = c THEN <<>> ELSE buffer[x]
  BY <1>1 DEF BuffersHold
<1>4. BuffersHold'
  BY <1>1, <1>2, <1>3 DEF BuffersHold
<1>5. NoRoom(buffer') = NoRoom(buffer) \ {c}
  BY <1>3 DEF NoRoom, Aligned, Node
<1> QED BY <1>4, <1>5

(* What recv() takes fits into the buffer, and fills no other *)
LEMMA ReceivedBuffers ==
  ASSUME IInv, BuffersHold, NEW k \in 1 .. BufSize, Recv(k)
  PROVE  /\ BuffersHold'
         /\ NoRoom(buffer') \subseteq NoRoom(buffer) \cup {cursor}
<1>1. /\ cursor \in Conn /\ cursor \in Node
      /\ buffer' = [buffer EXCEPT ![cursor] = @ \o SubSeq(toServer[cursor], 1, k)]
      /\ toServer' = [toServer EXCEPT ![cursor] = Drop(@, k)]
  BY DEF IInv, ThreadControl, Recv, Node
<1>2. /\ toServer[cursor] \in Seq(SmallCell) /\ buffer[cursor] \in Seq(SmallCell)
      /\ Len(toServer[cursor]) \in Nat /\ Len(buffer[cursor]) \in Nat
      /\ BufSize \in Nat
  BY <1>1, ServerAssumption DEF BuffersHold
<1>3. k \in Nat /\ k <= Len(toServer[cursor]) /\ k <= BufSize - Len(buffer[cursor])
  <2> DEFINE a == Len(toServer[cursor])
             b == BufSize - Len(buffer[cursor])
  <2>1. a \in Int /\ b \in Int /\ k \in 1 .. Min({a, b})
    BY <1>2 DEF Recv
  <2> HIDE DEF a, b
  <2>2. k \in Nat /\ k <= a /\ k <= b
    BY <2>1, MinOfTwo
  <2> QED BY <2>2 DEF a, b
<1>4. /\ SubSeq(toServer[cursor], 1, k) \in Seq(SmallCell)
      /\ Len(SubSeq(toServer[cursor], 1, k)) = k
  <2>1. \A i \in 1 .. k : toServer[cursor][i] \in SmallCell
    BY <1>2, <1>3
  <2> QED BY <1>3, <2>1, SubSeqProperties
<1> DEFINE new == buffer[cursor] \o SubSeq(toServer[cursor], 1, k)
<1>5. new \in Seq(SmallCell) /\ Len(new) <= BufSize
  BY <1>2, <1>3, <1>4, ConcatProperties
<1>6. Drop(toServer[cursor], k) \in Seq(SmallCell)
  BY <1>2, <1>3, SeqDrop
<1>7. buffer' = [buffer EXCEPT ![cursor] = new]
  BY <1>1
<1> HIDE DEF new
<1>8. \A x \in Node : buffer'[x] = IF x = cursor THEN new ELSE buffer[x]
  BY <1>1, <1>7 DEF BuffersHold
<1>9. BuffersHold'
  BY <1>1, <1>5, <1>6, <1>7, <1>8 DEF BuffersHold
<1>10. NoRoom(buffer') \subseteq NoRoom(buffer) \cup {cursor}
  BY <1>8 DEF NoRoom, Node
<1> QED BY <1>9, <1>10

(* A packet that is cleared makes room in the buffer it was in *)
LEMMA ClearedBuffers ==
  ASSUME IInv, BuffersHold, SendRespond
  PROVE  /\ BuffersHold'
         /\ NoRoom(buffer') \subseteq NoRoom(buffer) \ {cursor}
<1>1. /\ pc = "reply" /\ buffer' = [buffer EXCEPT ![cursor] = clearedBuffer]
      /\ toServer' = toServer
  BY DEF SendRespond
<1>2. /\ cursor \in Conn /\ cursor \in Node /\ request \in Packet
      /\ buffer[cursor] # <<>>
  BY <1>1, HandlerFacts DEF Complete, Aligned
<1>3. /\ buffer[cursor] \in Seq(SmallCell) /\ Len(buffer[cursor]) <= BufSize
      /\ Len(buffer[cursor]) \in Nat \ {0} /\ BufSize \in Nat
  BY <1>2, ServerAssumption DEF BuffersHold
<1>4. Size(request) \in Nat /\ Size(request) > 0
  BY <1>2, PacketCells
<1>5. clearedBuffer \in Seq(SmallCell) /\ Len(clearedBuffer) < Len(buffer[cursor])
  BY <1>3, <1>4, SeqDrop DEF clearedBuffer
<1>6. Len(clearedBuffer) \in Nat
  BY <1>5
<1>7. Len(clearedBuffer) <= BufSize /\ Len(clearedBuffer) # BufSize
  BY <1>3, <1>5, <1>6
<1>8. \A x \in Node : buffer'[x] = IF x = cursor THEN clearedBuffer ELSE buffer[x]
  BY <1>1, <1>2 DEF BuffersHold
<1>9. BuffersHold'
  BY <1>1, <1>2, <1>5, <1>7, <1>8 DEF BuffersHold
<1>10. NoRoom(buffer') \subseteq NoRoom(buffer) \ {cursor}
  BY <1>7, <1>8 DEF NoRoom, Node
<1> QED BY <1>9, <1>10

(* No step puts more into a buffer than it holds, or anything but what     *)
(* clients send                                                            *)
LEMMA BuffersKeep == IInv /\ BuffersHold /\ [Next]_vars => BuffersHold'
<1> SUFFICES ASSUME IInv, BuffersHold, [Next]_vars
             PROVE  BuffersHold'
  OBVIOUS
<1>1. CASE UNCHANGED <<toServer, buffer>>
  BY <1>1 DEF BuffersHold
<1>2. ASSUME NEW c \in Conn, NEW cells \in Seq(SmallCell), buffer' = buffer,
             toServer' = [toServer EXCEPT ![c] = cells]
      PROVE  BuffersHold'
  BY <1>2 DEF BuffersHold
<1>3. CASE \E k \in 1 .. BufSize : Recv(k)
  BY <1>3, ReceivedBuffers
<1>4. CASE SendRespond
  BY <1>4, ClearedBuffers
<1>5. CASE RecvFails
  BY <1>5, DeletedBuffers DEF RecvFails, IInv, ThreadControl
<1>6. CASE RespondFails
  BY <1>6, DeletedBuffers DEF RespondFails, IInv, ThreadControl
<1>7. CASE \E k \in 1 .. RespondSize : ReadRespond(k)
  <2>1. PICK k \in 1 .. RespondSize : ReadRespond(k)
    BY <1>7
  <2>2. k \in Nat /\ recipient \in Conn /\ buffer' = buffer
        /\ toServer' = [toServer EXCEPT ![recipient] = Drop(@, k)]
    BY <2>1, ServerAssumption DEF ReadRespond, IInv, ThreadControl, nodeVars
  <2>3. Drop(toServer[recipient], k) \in Seq(SmallCell)
    BY <2>2, SeqDrop DEF BuffersHold
  <2> QED BY <1>2, <2>2, <2>3
<1>8. CASE ReadPartOfRespond
  <2>1. /\ recipient \in Conn /\ buffer' = buffer /\ toServer[recipient] # <<>>
        /\ \/ toServer' = toServer
           \/ toServer' = [toServer EXCEPT ![recipient] =
                             <<Rest(toServer[recipient][1].pkt)>> \o Tail(@)]
    BY <1>8 DEF ReadPartOfRespond, IInv, ThreadControl, nodeVars
  <2>2. <<Rest(toServer[recipient][1].pkt)>> \o Tail(toServer[recipient])
          \in Seq(SmallCell)
    BY <2>1, SmallRest DEF BuffersHold
  <2> QED BY <1>1, <1>2, <2>1, <2>2
<1>9. CASE \/ waitForClients \/ Accept \/ AcceptFails \/ processLoginPacket
           \/ processCreateChatPacket \/ RefuseMessage \/ SendDelivery
  BY <1>1, <1>9 DEF waitForClients, Accept, AcceptFails, processLoginPacket,
                    processCreateChatPacket, RefuseMessage, SendDelivery,
                    netVars, nodeVars
<1>10. CASE DeliveryFails \/ RespondNotSent
  BY <1>1, <1>10 DEF DeliveryFails, RespondNotSent, Exit, nodeVars
<1>11. CASE AnyClient
  <2>1. buffer' = buffer
    BY <1>11 DEF AnyClient, serverVars, nodeVars
  <2>2. ASSUME NEW c \in Conn, NEW p \in ClientPacket, ClientSend(c, p)
        PROVE  BuffersHold'
    <3>1. p \in ClientPackets
      BY ServerAssumption
    <3>2. Cells(p) \in Seq(SmallCell)
      BY <3>1, SmallPackets
    <3>3. toServer[c] \o Cells(p) \in Seq(SmallCell)
      BY <3>2, ConcatProperties DEF BuffersHold
    <3> QED BY <1>1, <1>2, <2>1, <2>2, <3>3 DEF ClientSend
  <2>3. ASSUME NEW c \in Conn,
               Connect(c) \/ (\E k \in 1 .. SockBuf : ClientRecv(c, k))
                 \/ ClientClose(c)
        PROVE  BuffersHold'
    BY <1>1, <2>1, <2>3 DEF Connect, ClientRecv, ClientClose
  <2> QED BY <1>11, <2>2, <2>3 DEF AnyClient
<1>12. CASE UNCHANGED vars
  BY <1>1, <1>12 DEF vars, netVars, serverVars, nodeVars
<1> QED
  BY <1>3, <1>4, <1>5, <1>6, <1>7, <1>8, <1>9, <1>10, <1>11, <1>12
     DEF Next, ServerNext

(* Inside a request nothing changes in the order of the list or in the     *)
(* buffers, unless the recipient of a message is deleted.                  *)
LEMMA QuietRoom ==
  ASSUME RoomAhead, pc \in {"process", "respond", "reply"},
         pc' \in {"process", "respond", "reply", "exited", "undefined"},
         UNCHANGED <<clients, buffer, cursor>>
  PROVE  RoomAhead'
BY DEF RoomAhead

(* accept() puts a node into the list while all buffers have room *)
LEMMA AcceptRoom == IInv /\ RoomInv /\ (Accept \/ AcceptFails) => RoomAhead'
<1> SUFFICES ASSUME IInv, RoomInv, Accept \/ AcceptFails
             PROVE  RoomAhead'
  OBVIOUS
<1>1. /\ buffer' = buffer /\ buffer \in [Node -> Seq(SmallCell)] /\ pc = "accept"
      /\ GoRecv(clients', 1, fdReads, buffer)
  BY DEF Accept, AcceptFails, RoomInv, BuffersHold
<1>2. IInv'
  BY AcceptStep, AcceptFailsStep
<1>3. clients' \in Seq(Node) /\ IsInjective(clients')
  BY <1>2 DEF IInv, ServerTypeOK, ListIntegrity
<1>4. NoRoom(buffer) \subseteq Between(clients', 1, 1 - 1)
  BY <1>1 DEF RoomInv, RoomAhead
<1>5. PICK list : list = clients'
  OBVIOUS
<1>6. 1 \in Nat \ {0} /\ 1 <= Len(list) + 1
  BY <1>3, <1>5
<1> QED BY <1>1, <1>3, <1>4, <1>5, <1>6, RecvRoom

(* select() is entered with room in every buffer *)
LEMMA WaitRoom == IInv /\ RoomInv /\ waitForClients => RoomAhead'
<1> SUFFICES ASSUME IInv, RoomInv, waitForClients
             PROVE  RoomAhead'
  OBVIOUS
<1>1. /\ clients' = clients /\ buffer' = buffer /\ NoRoom(buffer) = {}
      /\ clients \in Seq(Node) /\ IsInjective(clients)
      /\ buffer \in [Node -> Seq(SmallCell)]
  BY DEF waitForClients, RoomInv, RoomAhead, BuffersHold, IInv, ServerTypeOK,
         ListIntegrity
<1>2. pc' = "accept" \/ \E reads : GoRecv(clients, 1, reads, buffer)
  BY DEF waitForClients
<1>3. CASE pc' = "accept"
  BY <1>1, <1>3 DEF RoomAhead
<1>4. ASSUME NEW reads, GoRecv(clients, 1, reads, buffer)
      PROVE  RoomAhead'
  <2>1. 1 \in Nat \ {0} /\ 1 <= Len(clients) + 1
    BY <1>1
  <2> QED BY <1>1, <1>4, <2>1, RecvRoom
<1> QED BY <1>2, <1>3, <1>4

(* The receive loop fills the buffer it has read into, and leaves it behind *)
LEMMA ReceiveRoom ==
  IInv /\ RoomInv /\ (\E k \in 1 .. BufSize : Recv(k)) => RoomAhead'
<1> SUFFICES ASSUME IInv, RoomInv, NEW k \in 1 .. BufSize, Recv(k)
             PROVE  RoomAhead'
  OBVIOUS
<1>1. /\ clients \in Seq(Node) /\ IsInjective(clients) /\ pc = "recv"
      /\ clients' = clients /\ cursor \in ToSet(clients)
  BY DEF Recv, IInv, ServerTypeOK, ListIntegrity, ThreadControl, Listed
<1>2. BuffersHold' /\ NoRoom(buffer') \subseteq NoRoom(buffer) \cup {cursor}
  BY ReceivedBuffers DEF RoomInv
<1>3. PICK m \in 1 .. Len(clients) :
        m = Position(clients, cursor) /\ clients[m] = cursor
  BY <1>1, PositionIn
<1>4. NoRoom(buffer') \subseteq Between(clients, 1, m)
  BY <1>1, <1>2, <1>3 DEF RoomInv, RoomAhead, Between
<1>5. GoRecv(clients, m + 1, fdReads, buffer')
  BY <1>3 DEF Recv
<1>6. PICK bufs : bufs = buffer'
  OBVIOUS
<1>7. bufs \in [Node -> Seq(SmallCell)]
  BY <1>2, <1>6 DEF BuffersHold
<1>8. m + 1 \in Nat \ {0} /\ m + 1 <= Len(clients) + 1 /\ (m + 1) - 1 = m
  OBVIOUS
<1>9. NoRoom(bufs) \subseteq Between(clients, 1, (m + 1) - 1)
  BY <1>4, <1>6, <1>8
<1> QED BY <1>1, <1>5, <1>6, <1>7, <1>8, <1>9, RecvRoom

(* After a failed recv() the processing loop starts at the head *)
LEMMA BreakRoom == IInv /\ RoomInv /\ RecvFails => RoomAhead'
<1> SUFFICES ASSUME IInv, RoomInv, RecvFails
             PROVE  RoomAhead'
  OBVIOUS
<1>1. /\ clients \in Seq(Node) /\ IsInjective(clients) /\ pc = "recv"
      /\ cursor \in Conn /\ cursor \in ToSet(clients)
      /\ deleteClient(cursor) /\ GoProcess(clients', 1, buffer')
  BY DEF RecvFails, IInv, ServerTypeOK, ListIntegrity, ThreadControl, Listed
<1>2. BuffersHold' /\ NoRoom(buffer') = NoRoom(buffer) \ {cursor}
  BY <1>1, DeletedBuffers DEF RoomInv
<1>3. PICK list : list = clients'
  OBVIOUS
<1>4. /\ list \in Seq(Node) /\ IsInjective(list)
      /\ ToSet(list) = ToSet(clients) \ {cursor}
  BY <1>1, <1>3, UnlinkList DEF deleteClient
<1>5. NoRoom(buffer) \subseteq ToSet(clients)
  <2>1. NoRoom(buffer) \subseteq Between(clients, 1, Position(clients, cursor) - 1)
    BY <1>1 DEF RoomInv, RoomAhead
  <2>2. PICK m \in 1 .. Len(clients) : m = Position(clients, cursor)
    BY <1>1, PositionIn
  <2>3. Between(clients, 1, m - 1) \subseteq ToSet(clients)
    BY <1>1, <2>2 DEF Between, ToSet
  <2> QED BY <2>1, <2>2, <2>3
<1>6. NoRoom(buffer') \subseteq Between(list, 1, Len(list))
  BY <1>2, <1>4, <1>5 DEF Between, ToSet
<1>7. PICK bufs : bufs = buffer'
  OBVIOUS
<1>8. bufs \in [Node -> Seq(SmallCell)] /\ 1 \in Nat \ {0}
  BY <1>2, <1>7 DEF BuffersHold
<1> QED BY <1>1, <1>3, <1>4, <1>6, <1>7, <1>8, ProcessRoom

(* Deleting the recipient keeps the others in their order *)
LEMMA RespondFailsRoom == IInv /\ RoomInv /\ RespondFails => RoomAhead'
<1> SUFFICES ASSUME IInv, RoomInv, RespondFails
             PROVE  RoomAhead'
  OBVIOUS
<1>1. /\ clients \in Seq(Node) /\ IsInjective(clients) /\ pc = "respond"
      /\ cursor \in ToSet(clients) /\ recipient \in ToSet(clients)
      /\ recipient \in Conn /\ deleteClient(recipient)
  BY DEF RespondFails, IInv, ServerTypeOK, ListIntegrity, ThreadControl, Listed
<1>2. CASE recipient = cursor
  BY <1>2 DEF RespondFails, RoomAhead
<1>3. CASE recipient # cursor
  <2>1. pc' = "reply" /\ cursor' = cursor
    BY <1>3 DEF RespondFails, Returns, Respond
  <2>2. NoRoom(buffer') = NoRoom(buffer) \ {recipient}
    BY <1>1, DeletedBuffers DEF RoomInv
  <2>3. clients' = RemoveAt(clients, Position(clients, recipient))
    BY <1>1 DEF deleteClient
  <2>4. Between(clients, Position(clients, cursor), Len(clients)) \ {recipient}
          \subseteq Between(clients', Position(clients', cursor), Len(clients'))
    BY <1>1, <1>3, <2>3, UnlinkOrder
  <2>5. NoRoom(buffer)
          \subseteq Between(clients, Position(clients, cursor), Len(clients))
    BY <1>1 DEF RoomInv, RoomAhead
  <2>6. NoRoom(buffer')
          \subseteq Between(clients', Position(clients', cursor), Len(clients'))
    BY <2>2, <2>4, <2>5
  <2> QED BY <2>1, <2>6 DEF RoomAhead
<1> QED BY <1>2, <1>3

(* The packet that is cleared makes room, and the loop goes on behind it *)
LEMMA ReplyRoom == IInv /\ RoomInv /\ SendRespond => RoomAhead'
<1> SUFFICES ASSUME IInv, RoomInv, SendRespond
             PROVE  RoomAhead'
  OBVIOUS
<1>1. /\ clients \in Seq(Node) /\ IsInjective(clients) /\ pc = "reply"
      /\ cursor \in ToSet(clients) /\ clients' = clients
  BY DEF SendRespond, IInv, ServerTypeOK, ListIntegrity, ThreadControl, Listed
<1>2. BuffersHold' /\ NoRoom(buffer') \subseteq NoRoom(buffer) \ {cursor}
  BY ClearedBuffers DEF RoomInv
<1>3. PICK m \in 1 .. Len(clients) :
        m = Position(clients, cursor) /\ clients[m] = cursor
  BY <1>1, PositionIn
<1>4. NoRoom(buffer) \subseteq Between(clients, m, Len(clients))
  BY <1>1, <1>3 DEF RoomInv, RoomAhead
<1>5. Between(clients, m, Len(clients)) \ {cursor}
        \subseteq Between(clients, m + 1, Len(clients))
  BY <1>3 DEF Between
<1>6. GoProcess(clients, m + 1, buffer')
  BY <1>3 DEF SendRespond
<1>7. PICK bufs : bufs = buffer'
  OBVIOUS
<1>8. bufs \in [Node -> Seq(SmallCell)] /\ m + 1 \in Nat \ {0}
  BY <1>2, <1>7 DEF BuffersHold
<1>9. NoRoom(bufs) \subseteq Between(clients, m + 1, Len(clients))
  BY <1>2, <1>4, <1>5, <1>7
<1> QED BY <1>1, <1>6, <1>7, <1>8, <1>9, ProcessRoom

(* No loop leaves a client without room where it does not expect one *)
LEMMA RoomKeeps == IInv /\ RoomInv /\ [Next]_vars => RoomAhead'
<1> SUFFICES ASSUME IInv, RoomInv, [Next]_vars
             PROVE  RoomAhead'
  OBVIOUS
<1> USE DEF RoomInv
<1>1. CASE \/ processLoginPacket \/ processCreateChatPacket \/ RefuseMessage
           \/ SendDelivery
  <2>1. /\ pc = "process" /\ pc' \in {"reply", "respond"}
        /\ UNCHANGED <<clients, buffer, cursor>>
    BY <1>1 DEF processLoginPacket, processCreateChatPacket, RefuseMessage,
                SendDelivery, Processing, Respond, nodeVars
  <2> QED BY <2>1, QuietRoom
<1>2. CASE \/ (\E k \in 1 .. RespondSize : ReadRespond(k))
           \/ ReadPartOfRespond
  <2>1. /\ pc = "respond" /\ pc' \in {"reply", "respond"}
        /\ UNCHANGED <<clients, buffer, cursor>>
    BY <1>2 DEF ReadRespond, ReadPartOfRespond, Returns, Respond, nodeVars
  <2> QED BY <2>1, QuietRoom
<1>3. CASE DeliveryFails \/ RespondNotSent
  BY <1>3 DEF DeliveryFails, RespondNotSent, Exit, RoomAhead
<1>4. CASE AnyClient \/ UNCHANGED vars
  <2>1. UNCHANGED <<pc, clients, buffer, cursor>>
    BY <1>4 DEF AnyClient, vars, serverVars, nodeVars, localVars
  <2> QED BY <2>1 DEF RoomAhead
<1> QED
  BY <1>1, <1>2, <1>3, <1>4, WaitRoom, AcceptRoom, ReceiveRoom, BreakRoom,
     RespondFailsRoom, ReplyRoom DEF Next, ServerNext

(* In every reachable state a client without room is one whose packet the  *)
(* processing loop has still to come to before the receive loop starts     *)
(* again.                                                                  *)
THEOREM RoomInvariance == Spec => []RoomInv
<1>1. ServerInit => RoomInv
  <2>1. ASSUME ServerInit PROVE BuffersHold
    BY <2>1, ServerAssumption DEF ServerInit, NetInit, BuffersHold
  <2>2. ASSUME ServerInit PROVE RoomAhead
    BY <2>2 DEF ServerInit, RoomAhead, NoRoom, Aligned, Node
  <2> QED BY <2>1, <2>2 DEF RoomInv
<1>2. IInv /\ RoomInv /\ [Next]_vars => RoomInv'
  BY BuffersKeep, RoomKeeps DEF RoomInv
<1> QED BY <1>1, <1>2, Invariance, PTL DEF Spec

(* accept() takes no client out of the list *)
LEMMA AcceptKeeps ==
  ASSUME IInv, Accept
  PROVE  Listed \cap Conn \subseteq Listed'
<1> DEFINE new == Head(backlog)
           list == ReplaceAll(getClient, INVALID_SOCKET, new)
<1>1. /\ getClient \in Seq(Node) /\ IsInjective(getClient)
      /\ ToSet(getClient) = Listed \cup {INVALID_SOCKET}
  BY GetClientList
<1>2. new \in Conn \ Listed /\ clients' = list
  BY HeadOfBacklog DEF Accept
<1> HIDE DEF new
<1>3. new # INVALID_SOCKET /\ new \in Node /\ INVALID_SOCKET \notin Conn
  BY <1>2, ServerAssumption DEF Node
<1>4. INVALID_SOCKET \in ToSet(getClient) /\ new \notin ToSet(getClient)
  BY <1>1, <1>2, <1>3
<1>5. /\ list \in Seq(Node) /\ IsInjective(list)
      /\ ToSet(list) = (ToSet(getClient) \ {INVALID_SOCKET}) \cup {new}
  BY <1>1, <1>3, <1>4, RenameInList
<1>6. Listed' = ToSet(list)
  BY <1>2 DEF Listed
<1> QED BY <1>1, <1>3, <1>5, <1>6

(* Only a failed recv() ends a client that has not gone, and recv() is     *)
(* never given an empty rest of a buffer with intact packets.              *)
LEMMA DropStep ==
  IInv /\ RoomInv /\ [Next]_vars =>
    [\A c \in (Listed \ Listed') \cap Conn :
       peer[c] = "down" \/ ~Aligned(buffer[c])]_vars
<1> SUFFICES ASSUME IInv, RoomInv, [Next]_vars,
                    NEW c \in (Listed \ Listed') \cap Conn
             PROVE  peer[c] = "down" \/ ~Aligned(buffer[c])
  OBVIOUS
<1>1. clients' # clients
  BY DEF Listed
<1>2. CASE RecvFails
  <2>1. /\ clients \in Seq(Node) /\ IsInjective(clients) /\ pc = "recv"
        /\ cursor \in Conn \cap Listed /\ deleteClient(cursor) /\ pc # "exited"
        /\ peer[cursor] = "down" \/ Len(buffer[cursor]) = BufSize
    BY <1>2 DEF RecvFails, IInv, ServerTypeOK, ListIntegrity, ThreadControl
  <2>2. c = cursor
    BY <2>1, DeleteStep
  <2>3. PICK m \in 1 .. Len(clients) :
          m = Position(clients, cursor) /\ clients[m] = cursor
    BY <2>1, PositionIn DEF Listed
  <2>4. \A k \in 1 .. m - 1 : clients[k] # cursor
    BY <2>1, <2>3 DEF IsInjective
  <2>5. cursor \notin NoRoom(buffer)
    BY <2>1, <2>3, <2>4 DEF RoomInv, RoomAhead, Between
  <2> QED BY <2>1, <2>2, <2>5 DEF NoRoom
<1>3. CASE RespondFails
  <2>1. /\ recipient \in Conn \cap Listed /\ deleteClient(recipient)
        /\ pc # "exited" /\ peer[recipient] = "down"
    BY <1>3 DEF RespondFails, IInv, ThreadControl
  <2> QED BY <2>1, DeleteStep
<1>4. CASE Accept
  BY <1>4, AcceptKeeps
<1>5. CASE AcceptFails
  BY <1>5, GetClientList DEF AcceptFails, Listed
<1>6. CASE \/ waitForClients \/ (\E k \in 1 .. BufSize : Recv(k))
           \/ processLoginPacket \/ processCreateChatPacket \/ RefuseMessage
           \/ SendDelivery \/ DeliveryFails \/ RespondNotSent
  BY <1>1, <1>6 DEF waitForClients, Recv, processLoginPacket,
     processCreateChatPacket, RefuseMessage, SendDelivery, DeliveryFails,
     RespondNotSent, Exit, nodeVars
<1>7. CASE \/ (\E k \in 1 .. RespondSize : ReadRespond(k))
           \/ ReadPartOfRespond \/ SendRespond \/ AnyClient \/ UNCHANGED vars
  BY <1>1, <1>7 DEF ReadRespond, ReadPartOfRespond, SendRespond, AnyClient,
     vars, serverVars, nodeVars
<1> QED
  BY <1>2, <1>3, <1>4, <1>5, <1>6, <1>7 DEF Next, ServerNext

(* A client is dropped only when it has gone or its stream is torn,        *)
(* although a pass of main() processes one packet of each client at most,  *)
(* a `break' ends the receive loop early and messages from others are      *)
(* waited for in between: whoever is put off still has room for a recv().  *)
THEOREM DroppedCorrectly == Spec => DroppedOnlyWhenGone
<1>1. IInv /\ RoomInv /\ [Next]_vars =>
        [\A c \in (Listed \ Listed') \cap Conn :
           peer[c] = "down" \/ ~Aligned(buffer[c])]_vars
  BY DropStep
<1> QED BY <1>1, Invariance, RoomInvariance, PTL DEF Spec, DroppedOnlyWhenGone
=============================================================================
