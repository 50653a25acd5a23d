------------------------------ MODULE Packets ------------------------------
(***************************************************************************)
(* The wire format of RadikChat (lib/utils/network/packetManager): packet  *)
(* vocabulary, construction, and reading a packet back from a buffer.      *)
(*                                                                         *)
(* A byte stream is a sequence of cells.  The header of a packet is one    *)
(* cell and every string field of its payload is one cell, so a packet     *)
(* with n fields occupies n + 1 cells and may be split at any cell.  The   *)
(* cell Rest(p) stands for what is left of p's header in a stream after    *)
(* somebody has consumed a part of it.                                     *)
(***************************************************************************)
EXTENDS Integers, Sequences, FiniteSets

CONSTANTS
  Nickname,  (* the nicknames users type, the empty one excepted           *)
  NoName,    (* the empty nickname: ENTER typed at once, and what calloc   *)
             (* leaves in ClientInfo.nickname                              *)
  Text,      (* the texts of messages                                      *)
  MaxId,     (* the largest request id: MAX_PENDING_REQUESTS - 1           *)
  NULL

ASSUME PacketsAssumption ==
  /\ NoName \notin Nickname \cup Text
  /\ NULL \notin Nickname \cup Text \cup {NoName}
  /\ MaxId \in Nat

Name == Nickname \cup {NoName}
String == Name \cup Text
Id == 0 .. MaxId

PacketType == {"REQUEST", "RESPOND", "DELIVERY"}
PacketCommand == {"CREATE_CHAT", "MESSAGE", "LOGIN"}
PacketStatus == {"OK", "FAILURE", "CANT_READ", "NOT_FOUND", "ALREADY_EXISTS",
                 "ACTION_TO_HIMSELF"}

Packet == [type : PacketType, command : PacketCommand, status : PacketStatus,
           id : Id, fields : Seq(String)]

(* createPacket, and one addPacketString per element of fields *)
createPacket(type, command, status, id, fields) ==
  [type |-> type, command |-> command, status |-> status, id |-> id,
   fields |-> fields]

(* The packets a client program builds.  The nickname of a contact, and    *)
(* with it that of a message, is what has been received as one.            *)
LoginRequest(n, id) == createPacket("REQUEST", "LOGIN", "OK", id, <<n>>)
ChatRequest(n, id) == createPacket("REQUEST", "CREATE_CHAT", "OK", id, <<n>>)
MessageRequest(n, t, id) ==
  createPacket("REQUEST", "MESSAGE", "OK", id, <<n, t>>)
DeliveryRespond(status) == createPacket("RESPOND", "MESSAGE", status, 0, <<>>)

ClientPackets ==
  {LoginRequest(n, id) : n \in Name, id \in Id}
    \cup {ChatRequest(n, id) : n \in Name, id \in Id}
    \cup {MessageRequest(n, t, id) : n \in String, t \in String, id \in Id}
    \cup {DeliveryRespond(s) : s \in {"OK", "CANT_READ"}}

-----------------------------------------------------------------------------
(* Cells.  part 0 is the header, part k > 0 the k-th field, part -1 the    *)
(* rest of a header.                                                       *)

Cell == {cell \in [pkt : Packet, part : Int] :
           cell.part \in -1 .. Len(cell.pkt.fields)}

Header(p) == [pkt |-> p, part |-> 0]
Rest(p) == [pkt |-> p, part |-> -1]

(* PACKET_SIZE as sendPacket writes it into the header *)
Size(p) == Len(p.fields) + 1

(* sendPacket: the header, then the payload *)
Cells(p) == [k \in 1 .. Size(p) |-> [pkt |-> p, part |-> k - 1]]

(* The bytes at the start of the buffer are a header *)
Aligned(cells) == cells # <<>> /\ cells[1].part = 0

(* A whole packet is in the buffer.  Where the first bytes are not a       *)
(* header they are the start of a field or of the rest of a header: read   *)
(* as a size they exceed every buffer, or are zero, and never change.      *)
Complete(cells) == Aligned(cells) /\ Size(cells[1].pkt) <= Len(cells)

(* readPacketString: the k-th field of the packet at the start of the      *)
(* buffer, whatever cells now lie behind its header                        *)
readPacketString(cells, k) ==
  IF /\ k < Size(cells[1].pkt)
     /\ k < Len(cells)
     /\ cells[k + 1].part > 0
    THEN cells[k + 1].pkt.fields[cells[k + 1].part]
    ELSE NULL

(* memmove of what lies behind the first n cells to the front *)
Drop(cells, n) == SubSeq(cells, n + 1, Len(cells))
=============================================================================
