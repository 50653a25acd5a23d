------------------------------- MODULE Sending -------------------------------
(***************************************************************************)
(* How the threads of one client share the socket (sendPacket of           *)
(* packet.c): a packet leaves in several send(), under socketServerMutex.  *)
(* The mutex is created when logIn has returned; until then its handle is  *)
(* NULL, the wait for it fails, and nobody looks.                          *)
(*                                                                         *)
(* A packet is known by the number of its call of sendPacket, the stream   *)
(* is a sequence of bytes, each known by its packet.  That send() takes    *)
(* several bytes at once is that it takes them one after another.          *)
(***************************************************************************)
EXTENDS Integers, Sequences

CONSTANTS
  Thread,        (* the threads that send messages                         *)
  MAIN, SOCKET,  (* the main thread and the socket thread                  *)
  HeaderSize,    (* PACKET_HEADER_SIZE                                     *)
  PayloadSize,   (* the payload of a request; an answer has none           *)
  MaxCalls,      (* bound on the calls of sendPacket                       *)
  NOBODY

Sender == Thread \cup {MAIN, SOCKET}

ASSUME SendingAssumption ==
  /\ MAIN # SOCKET /\ {MAIN, SOCKET} \cap Thread = {}
  /\ NOBODY \notin Sender
  /\ HeaderSize \in Nat \ {0} /\ PayloadSize \in Nat /\ MaxCalls \in Nat

VARIABLES
  stream,             (* what has been sent: the packet of every byte      *)
  calls,              (* how often sendPacket has been called              *)
  pc,                 (* where a thread is in sendPacket                   *)
  packet, left,       (* its packet, and the bytes of it to be sent        *)
  main,               (* where main() is                                   *)
  created,            (* socketServerMutex is not NULL                     *)
  owner,              (* who owns it                                       *)
  closed, ended,      (* the connection, the process                       *)
  early               (* history: an answer was sent before the mutex      *)

sendVars == <<stream, calls, pc, packet, left, main, created, owner, closed,
              ended, early>>
mainVars == <<main, created, closed, ended>>

Call == 1 .. MaxCalls

SendingTypeOK ==
  /\ stream \in Seq(Call)
  /\ calls \in 0 .. MaxCalls
  /\ pc \in [Sender -> {"idle", "wait", "send"}]
  /\ packet \in [Sender -> 0 .. MaxCalls]
  /\ left \in [Sender -> 0 .. HeaderSize + PayloadSize]
  /\ main \in {"connected", "login", "granted", "menu", "quit"}
  /\ owner \in Sender \cup {NOBODY}
  /\ created \in BOOLEAN /\ closed \in BOOLEAN
  /\ ended \in BOOLEAN /\ early \in BOOLEAN

SendingInit ==
  /\ stream = <<>> /\ calls = 0
  /\ pc = [t \in Sender |-> "idle"]
  /\ packet = [t \in Sender |-> 0]
  /\ left = [t \in Sender |-> 0]
  /\ main = "connected"
  /\ created = FALSE /\ owner = NOBODY
  /\ closed = FALSE /\ ended = FALSE /\ early = FALSE

-----------------------------------------------------------------------------
(* sendPacket *)

sendPacket(t, size) ==
  /\ pc[t] = "idle"
  /\ calls < MaxCalls
  /\ calls' = calls + 1
  /\ pc' = [pc EXCEPT ![t] = "wait"]
  /\ packet' = [packet EXCEPT ![t] = calls + 1]
  /\ left' = [left EXCEPT ![t] = size]
  /\ UNCHANGED <<stream, owner, early>>

(* Fault: the mutex is not waited for *)
WaitForNothing(t) ==
  /\ pc[t] = "wait"
  /\ pc' = [pc EXCEPT ![t] = "send"]
  /\ early' = (early \/ (~created /\ t = SOCKET))
  /\ UNCHANGED <<stream, calls, packet, left, mainVars, owner>>

Wait(t) ==
  /\ pc[t] = "wait"
  /\ pc' = [pc EXCEPT ![t] = "send"]
  /\ \/ created /\ owner = NOBODY /\ owner' = t
     \/ ~created /\ UNCHANGED owner
  /\ early' = (early \/ (~created /\ t = SOCKET))
  /\ UNCHANGED <<stream, calls, packet, left, mainVars>>

(* Fault: the loop does not count what is left *)
SendOneMore(t) ==
  /\ pc[t] = "send" /\ ~closed
  /\ stream' = Append(stream, packet[t])
  /\ left' = [left EXCEPT ![t] = @ - 1]
  /\ UNCHANGED <<calls, pc, packet, mainVars, owner, early>>

(* Fault: the mutex is given back after the header *)
SendAndYield(t) ==
  /\ pc[t] = "send" /\ left[t] > 0 /\ ~closed
  /\ stream' = Append(stream, packet[t])
  /\ left' = [left EXCEPT ![t] = @ - 1]
  /\ owner' = IF left[t] = PayloadSize + 1 /\ owner = t THEN NOBODY ELSE owner
  /\ UNCHANGED <<calls, pc, packet, mainVars, early>>

Send(t) ==
  /\ pc[t] = "send" /\ left[t] > 0 /\ ~closed
  /\ stream' = Append(stream, packet[t])
  /\ left' = [left EXCEPT ![t] = @ - 1]
  /\ UNCHANGED <<calls, pc, packet, mainVars, owner, early>>

(* send() fails: exit(1) *)
SendFails(t) ==
  /\ pc[t] = "send" /\ left[t] > 0 /\ closed
  /\ ended' = TRUE
  /\ UNCHANGED <<stream, calls, pc, packet, left, main, created, owner, closed,
                 early>>

(* Fault: the mutex is kept *)
KeepMutex(t) ==
  /\ pc[t] = "send" /\ left[t] = 0
  /\ pc' = [pc EXCEPT ![t] = "idle"]
  /\ UNCHANGED <<stream, calls, packet, left, mainVars, owner, early>>

(* By now the handle may be that of a mutex the thread has not waited for: *)
(* ReleaseMutex fails when the caller is not the owner                     *)
Release(t) ==
  /\ pc[t] = "send" /\ left[t] = 0
  /\ pc' = [pc EXCEPT ![t] = "idle"]
  /\ owner' = IF owner = t THEN NOBODY ELSE owner
  /\ UNCHANGED <<stream, calls, packet, left, mainVars, early>>

Sending(t) == Wait(t) \/ Send(t) \/ SendFails(t) \/ Release(t)

-----------------------------------------------------------------------------
(* The threads that call it *)

Request == HeaderSize + PayloadSize

logIn ==
  /\ main = "connected"
  /\ sendPacket(MAIN, Request)
  /\ main' = "login"
  /\ UNCHANGED <<created, closed, ended>>

(* The server answers a packet it has whole *)
LoggedIn ==
  /\ main = "login" /\ pc[MAIN] = "idle"
  /\ main' = "granted"
  /\ UNCHANGED <<stream, calls, pc, packet, left, created, owner, closed, ended,
                 early>>

(* `q', or the login is refused: main() closes the socket and returns *)
NotLoggedIn ==
  /\ main \in {"connected", "login"} /\ pc[MAIN] = "idle"
  /\ closed' = TRUE /\ ended' = TRUE
  /\ UNCHANGED <<stream, calls, pc, packet, left, main, created, owner, early>>

CreateMutex ==
  /\ main = "granted"
  /\ created' = TRUE
  /\ main' = "menu"
  /\ UNCHANGED <<stream, calls, pc, packet, left, owner, closed, ended, early>>

createChat ==
  /\ main = "menu"
  /\ sendPacket(MAIN, Request)
  /\ UNCHANGED mainVars

(* A thread for a message; it may run when the user has already quit *)
sendMessageThread(t) ==
  /\ main \in {"menu", "quit"}
  /\ sendPacket(t, Request)
  /\ UNCHANGED mainVars

(* socketThread takes a delivery.  One may come before the login: a client *)
(* without a nickname is found under the empty one.                        *)
AnswerDelivery ==
  /\ sendPacket(SOCKET, HeaderSize)
  /\ UNCHANGED mainVars

(* `0' in the menu *)
Quit ==
  /\ main = "menu" /\ pc[MAIN] = "idle"
  /\ main' = "quit" /\ closed' = TRUE
  /\ UNCHANGED <<stream, calls, pc, packet, left, created, owner, ended, early>>

(* The other end has gone *)
ConnectionLost ==
  /\ ~closed /\ closed' = TRUE
  /\ UNCHANGED <<stream, calls, pc, packet, left, main, created, owner, ended, early>>

(* The socket thread stops, by its mutex or in select(), and main() returns *)
Exit ==
  /\ main = "quit" /\ pc[SOCKET] = "idle"
  /\ ended' = TRUE
  /\ UNCHANGED <<stream, calls, pc, packet, left, main, created, owner, closed,
                 early>>

SendingNext ==
  /\ ~ended
  /\ \/ logIn \/ LoggedIn \/ NotLoggedIn \/ CreateMutex \/ createChat
     \/ AnswerDelivery \/ Quit \/ ConnectionLost \/ Exit
     \/ \E t \in Thread : sendMessageThread(t)
     \/ \E t \in Sender : Sending(t)

SendingSpec == SendingInit /\ [][SendingNext]_sendVars

(* The threads are scheduled; Windows serves the waiters of a mutex in the *)
(* order they came, so that nobody is passed over for ever.                *)
FairSending ==
  /\ SendingSpec
  /\ \A t \in Sender :
       /\ SF_sendVars(~ended /\ Wait(t))
       /\ WF_sendVars(~ended /\ (Send(t) \/ SendFails(t) \/ Release(t)))

-----------------------------------------------------------------------------
(* Unless a delivery has been answered before the mutex existed, the bytes *)
(* of a packet follow each other in the stream, though the login goes out  *)
(* without the mutex and the threads send as they like: what the server    *)
(* takes for a header is one (packet.c:87, client.c:89).                   *)
Contiguous ==
  \A i, k \in DOMAIN stream : stream[i] = stream[k] =>
    \A j \in DOMAIN stream : i <= j /\ j <= k => stream[j] = stream[i]

PacketsWhole == ~early => Contiguous

(* Seen from outside, a packet is put into the stream in one step: from    *)
(* the moment its thread has the mutex the stream is taken to have all of  *)
(* it, and nothing else comes before the bytes that are left have gone,    *)
(* however many send() they take, as long as no delivery has been answered *)
(* before the mutex existed (packet.c:87, :97-119).                        *)
Sends(t) == pc[t] = "send"

completed ==
  LET t == CHOOSE t \in Sender : Sends(t)
  IN  IF \E u \in Sender : Sends(u)
        THEN stream \o [i \in 1 .. left[t] |-> packet[t]] ELSE stream

Appended == INSTANCE PacketStream WITH
  Packet <- Call, Length <- {HeaderSize, Request},
  stream <- completed, broken <- early

PacketsAppended == Appended!StreamSpec

(* Who waits for the mutex sends his packet, or the process ends, whatever *)
(* the others send, and also when the handle was NULL for the wait and is  *)
(* not for the release (packet.c:87, :122).                                *)
EveryoneSends ==
  \A t \in Sender : pc[t] = "wait" ~> pc[t] = "idle" \/ ended
=============================================================================
