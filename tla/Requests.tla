------------------------------ MODULE Requests ------------------------------
(***************************************************************************)
(* The table of pending requests of one client                             *)
(* (lib/utils/network/pendingOperation/request.c) at the grain at which    *)
(* its threads meet: a slot is looked for, taken, filled, waited for and   *)
(* given back in steps, and the socket thread looks the request up, takes  *)
(* its mutex, writes, sets the event and gives the mutex back in steps.    *)
(* Nothing but the event and the mutex of a request orders them.           *)
(*                                                                         *)
(* A thread makes one request: it is a sendMessageThread or, in Main, the  *)
(* main thread in createChat.  Its request has an event and a mutex, which *)
(* are named by the thread and are never closed.  The memory of a request  *)
(* is known by its address; what is freed keeps its contents, and malloc   *)
(* may return it again.  LOGIN is the request of logIn, which is over.     *)
(*                                                                         *)
(* The server answers the requests in their order.  It also sends          *)
(* deliveries and, with id 0, responds to answers of deliveries that came  *)
(* too late for it.                                                        *)
(***************************************************************************)
EXTENDS Integers, Sequences

CONSTANTS
  Thread,         (* the threads that make requests                        *)
  Main,           (* those of them that are the main thread                *)
  Address,        (* where malloc places requests                          *)
  MaxId,          (* MAX_PENDING_REQUESTS - 1                              *)
  MaxDeliveries,  (* bound on the deliveries                               *)
  LOGIN, LATE, NULL, NOBODY, SOCKET

ASSUME RequestsAssumption ==
  /\ Main \subseteq Thread
  /\ MaxId \in Nat /\ MaxDeliveries \in Nat
  /\ LOGIN \notin Thread
  /\ LATE \notin Thread \cup {LOGIN}
  /\ NULL \notin Thread \cup Address \cup {LOGIN, LATE}
  /\ SOCKET \notin Thread
  /\ NOBODY \notin Thread \cup {SOCKET}

VARIABLES
  pendingRequests, (* the table: addresses, or NULL                        *)
  allocated,       (* the addresses that malloc has given out              *)
  memory,          (* the fields of the request at every address           *)
  event,           (* the events that are set                              *)
  mutex,           (* the owner of every mutex                             *)
  pc,              (* where every thread is                                *)
  slot,            (* createRequest's i                                    *)
  request,         (* the thread's variable `request'                      *)
  handle,          (* the event or the mutex the thread waits for          *)
  respond,         (* what the thread has read: whose respond              *)
  sent,            (* the requests the server has not answered: who, id    *)
  deliveries, late, (* how many there have been                            *)
  rx,              (* where the socket thread is                           *)
  rxRequest,       (* its variable `request'                               *)
  rxHandle,        (* the mutex it waits for                               *)
  packet,          (* whose respond it holds, NULL for a delivery          *)
  raced            (* history: "slot": two threads have taken one slot;    *)
                   (* "stale": a delivery has set the event of a request   *)
                   (* that has no respond; "late": a late respond has been *)
                   (* written to a request                                 *)

requestVars == <<pendingRequests, allocated, memory, event, mutex, pc, slot,
                 request, handle, respond, sent, deliveries, late, rx,
                 rxRequest, rxHandle, packet, raced>>

Id == 0 .. MaxId
Handle == Thread \cup {LOGIN}
Respond == Handle \cup {LATE}

Place == {"idle", "scan", "take", "fill", "send", "wait", "lock", "read",
          "unlink", "free", "end", "done"}

(* The fields that matter; `handle' stands for event and mutex *)
Fields == [id : Id, data : Respond \cup {NULL}, handle : Handle \cup {NULL}]

RequestsTypeOK ==
  /\ pendingRequests \in [Id -> Address \cup {NULL}]
  /\ allocated \in SUBSET Address
  /\ memory \in [Address -> Fields]
  /\ event \in SUBSET Handle
  /\ mutex \in [Handle -> Thread \cup {NOBODY, SOCKET}]
  /\ pc \in [Thread -> Place]
  /\ slot \in [Thread -> Id]
  /\ request \in [Thread -> Address \cup {NULL}]
  /\ handle \in [Thread -> Handle \cup {NULL}]
  /\ respond \in [Thread -> Respond \cup {NULL}]
  /\ sent \in Seq([thread : Thread, id : Id])
  /\ deliveries \in 0 .. MaxDeliveries
  /\ late \in 0 .. MaxDeliveries
  /\ rx \in {"recv", "lock", "write", "set", "release", "crash"}
  /\ rxRequest \in Address \cup {NULL}
  /\ rxHandle \in Handle \cup {NULL}
  /\ packet \in Respond \cup {NULL}
  /\ raced \in SUBSET {"slot", "stale", "late"}

(* After logIn: the socket thread still points to its freed request *)
RequestsInit ==
  /\ pendingRequests = [i \in Id |-> NULL]
  /\ allocated = {}
  /\ rxRequest \in Address
  /\ memory = [a \in Address |->
                 IF a = rxRequest THEN [id |-> 0, data |-> LOGIN, handle |-> LOGIN]
                                  ELSE [id |-> 0, data |-> NULL, handle |-> NULL]]
  /\ event = {}
  /\ mutex = [h \in Handle |-> NOBODY]
  /\ pc = [t \in Thread |-> "idle"]
  /\ slot = [t \in Thread |-> 0]
  /\ request = [t \in Thread |-> NULL]
  /\ handle = [t \in Thread |-> NULL]
  /\ respond = [t \in Thread |-> NULL]
  /\ sent = <<>>
  /\ deliveries = 0 /\ late = 0
  /\ rx = "recv" /\ rxHandle = NULL /\ packet = NULL
  /\ raced = {}

rxVars == <<rx, rxRequest, rxHandle, packet>>
serverVars == <<sent, deliveries, late>>
heapVars == <<pendingRequests, allocated, memory>>

Goto(t, place) == pc' = [pc EXCEPT ![t] = place]

-----------------------------------------------------------------------------
(* createRequest *)

Start(t) ==
  /\ pc[t] = "idle"
  /\ t \in Main => \A u \in Main : pc[u] \in {"idle", "done"}
  /\ Goto(t, "scan")
  /\ UNCHANGED <<heapVars, event, mutex, slot, request, handle, respond, serverVars,
                 rxVars, raced>>

(* One turn of the loop.  With the table full the thread gives up. *)
Scan(t) ==
  /\ pc[t] = "scan"
  /\ IF pendingRequests[slot[t]] = NULL THEN Goto(t, "take") /\ UNCHANGED slot
     ELSE IF slot[t] < MaxId THEN slot' = [slot EXCEPT ![t] = @ + 1] /\ UNCHANGED pc
     ELSE Goto(t, "end") /\ UNCHANGED slot
  /\ UNCHANGED <<heapVars, event, mutex, request, handle, respond, serverVars, rxVars,
                 raced>>

(* pendingRequests[i] = malloc(...): the slot may have been taken since *)
Take(t) ==
  /\ pc[t] = "take"
  /\ \E a \in Address \ allocated :
       /\ allocated' = allocated \cup {a}
       /\ request' = [request EXCEPT ![t] = a]
       /\ pendingRequests' = [pendingRequests EXCEPT ![slot[t]] = a]
  /\ raced' = IF pendingRequests[slot[t]] = NULL THEN raced ELSE raced \cup {"slot"}
  /\ Goto(t, "fill")
  /\ UNCHANGED <<memory, event, mutex, slot, handle, respond, serverVars, rxVars>>

(* Fault: ids are counted from 1 *)
FillFromOne(t) ==
  /\ pc[t] = "fill"
  /\ Goto(t, "send")
  /\ memory' = [memory EXCEPT ![request[t]] =
                  [id |-> slot[t] + 1, data |-> NULL, handle |-> t]]
  /\ UNCHANGED <<pendingRequests, allocated, event, mutex, slot, request, handle,
                 respond, serverVars, rxVars, raced>>

(* The fields of the request: of the thread's own or, as the compiler may  *)
(* read the slot again, of the one the slot has by now                     *)
Fill(t) ==
  /\ pc[t] = "fill"
  /\ \E a \in {request[t], pendingRequests[slot[t]]} :
       /\ request' = [request EXCEPT ![t] = a]
       /\ IF a = NULL
            THEN Goto(t, "end") /\ UNCHANGED memory
            ELSE /\ Goto(t, "send")
                 /\ memory' = [memory EXCEPT ![a] =
                                 [id |-> slot[t], data |-> NULL, handle |-> t]]
  /\ UNCHANGED <<pendingRequests, allocated, event, mutex, slot, handle, respond,
                 serverVars, rxVars, raced>>

createRequest(t) == Scan(t) \/ Take(t) \/ Fill(t)

-----------------------------------------------------------------------------
(* The request is sent, its event and its mutex waited for, its data read *)

field(t) == memory[request[t]]

(* Fault: the packet carries id 0 *)
SendWithoutId(t) ==
  /\ pc[t] = "send"
  /\ sent' = Append(sent, [thread |-> t, id |-> 0])
  /\ handle' = [handle EXCEPT ![t] = field(t).handle]
  /\ Goto(t, "wait")
  /\ UNCHANGED <<heapVars, event, mutex, slot, request, respond, deliveries,
                 late, rxVars, raced>>

Send(t) ==
  /\ pc[t] = "send"
  /\ sent' = Append(sent, [thread |-> t, id |-> field(t).id])
  /\ handle' = [handle EXCEPT ![t] = field(t).handle]
  /\ Goto(t, "wait")
  /\ UNCHANGED <<heapVars, event, mutex, slot, request, respond, deliveries,
                 late, rxVars, raced>>

WaitForEvent(t) ==
  /\ pc[t] = "wait"
  /\ handle[t] \in event
  /\ event' = event \ {handle[t]}
  /\ handle' = [handle EXCEPT ![t] = field(t).handle]
  /\ Goto(t, "lock")
  /\ UNCHANGED <<heapVars, mutex, slot, request, respond, serverVars, rxVars,
                 raced>>

WaitForMutex(t) ==
  /\ pc[t] = "lock"
  /\ mutex[handle[t]] = NOBODY
  /\ mutex' = [mutex EXCEPT ![handle[t]] = t]
  /\ Goto(t, "read")
  /\ UNCHANGED <<heapVars, event, slot, request, handle, respond, serverVars,
                 rxVars, raced>>

Read(t) ==
  /\ pc[t] = "read"
  /\ respond' = [respond EXCEPT ![t] = field(t).data]
  /\ Goto(t, "unlink")
  /\ UNCHANGED <<heapVars, event, mutex, slot, request, handle, serverVars,
                 rxVars, raced>>

(* Fault: the slot is not given back *)
UnlinkNothing(t) ==
  /\ pc[t] = "unlink"
  /\ Goto(t, "free")
  /\ UNCHANGED <<heapVars, event, mutex, slot, request, handle, respond,
                 serverVars, rxVars, raced>>

(* deleteRequest: the slot, then the memory.  To free it twice ends the    *)
(* process.                                                                *)
Unlink(t) ==
  /\ pc[t] = "unlink"
  /\ pendingRequests' = [pendingRequests EXCEPT ![field(t).id] = NULL]
  /\ Goto(t, "free")
  /\ UNCHANGED <<allocated, memory, event, mutex, slot, request, handle, respond,
                 serverVars, rxVars, raced>>

Free(t) ==
  /\ pc[t] = "free"
  /\ IF request[t] \in allocated
       THEN allocated' = allocated \ {request[t]} /\ UNCHANGED rx
       ELSE rx' = "crash" /\ UNCHANGED allocated
  /\ Goto(t, "end")
  /\ UNCHANGED <<pendingRequests, memory, event, mutex, slot, request, handle,
                 respond, serverVars, rxRequest, rxHandle, packet, raced>>

deleteRequest(t) == Unlink(t) \/ Free(t)

(* The thread's variables are gone.  A thread that ends abandons its       *)
(* mutexes; the main thread only returns.                                  *)
End(t) ==
  /\ pc[t] = "end"
  /\ mutex' = [h \in Handle |-> IF mutex[h] = t /\ t \notin Main
                                  THEN NOBODY ELSE mutex[h]]
  /\ slot' = [slot EXCEPT ![t] = 0]
  /\ request' = [request EXCEPT ![t] = NULL]
  /\ handle' = [handle EXCEPT ![t] = NULL]
  /\ respond' = [respond EXCEPT ![t] = NULL]
  /\ Goto(t, "done")
  /\ UNCHANGED <<heapVars, event, serverVars, rxVars, raced>>

-----------------------------------------------------------------------------
(* The socket thread *)

(* A respond with an id.  Nobody's respond leaves NULL in `request'. *)
Look(whose, id) ==
  /\ rx = "recv"
  /\ packet' = whose
  /\ rxRequest' = pendingRequests[id]
  /\ IF rxRequest' = NULL
       THEN UNCHANGED <<rx, rxHandle>>
       ELSE rx' = "lock" /\ rxHandle' = memory[rxRequest'].handle
  /\ raced' = IF rxRequest' # NULL /\ whose = LATE THEN raced \cup {"late"}
                                                   ELSE raced
  /\ UNCHANGED <<heapVars, event, mutex, pc, slot, request, handle, respond>>

TakeRespond ==
  /\ sent # <<>>
  /\ Look(Head(sent).thread, Head(sent).id)
  /\ sent' = Tail(sent)
  /\ UNCHANGED <<deliveries, late>>

TakeLateRespond ==
  /\ late < deliveries
  /\ Look(LATE, 0)
  /\ late' = late + 1
  /\ UNCHANGED <<sent, deliveries>>

(* A delivery goes straight to the event of `request' *)
TakeDelivery ==
  /\ rx = "recv"
  /\ deliveries < MaxDeliveries
  /\ deliveries' = deliveries + 1
  /\ packet' = NULL
  /\ rx' = IF rxRequest = NULL THEN "crash" ELSE "set"
  /\ UNCHANGED <<heapVars, event, mutex, pc, slot, request, handle, respond,
                 sent, late, rxRequest, rxHandle, raced>>

(* Fault: the mutex is not waited for *)
LockRequestWithoutWaiting ==
  /\ rx = "lock"
  /\ rx' = "write" /\ rxHandle' = NULL
  /\ UNCHANGED <<heapVars, event, mutex, pc, slot, request, handle, respond,
                 serverVars, rxRequest, packet, raced>>

(* A mutex of memory that has never been filled is no mutex.  A thread may *)
(* take its own mutex again (the count this leaves is not modelled: only   *)
(* after a race has the socket thread not given a mutex back).             *)
LockRequest ==
  /\ rx = "lock"
  /\ \/ rxHandle = NULL /\ UNCHANGED mutex
     \/ /\ rxHandle # NULL
        /\ mutex[rxHandle] \in {NOBODY, SOCKET}
        /\ mutex' = [mutex EXCEPT ![rxHandle] = SOCKET]
  /\ rx' = "write" /\ rxHandle' = NULL
  /\ UNCHANGED <<heapVars, event, pc, slot, request, handle, respond, serverVars,
                 rxRequest, packet, raced>>

writeToRequest ==
  /\ rx = "write"
  /\ memory' = [memory EXCEPT ![rxRequest].data = packet]
  /\ rx' = "set"
  /\ UNCHANGED <<pendingRequests, allocated, event, mutex, pc, slot, request,
                 handle, respond, serverVars, rxRequest, rxHandle, packet, raced>>

SetEvent ==
  /\ rx = "set"
  /\ event' = event \cup ({memory[rxRequest].handle} \ {NULL})
  /\ raced' = IF /\ packet = NULL /\ rxRequest \in allocated
                 /\ memory[rxRequest].data = NULL
                THEN raced \cup {"stale"} ELSE raced
  /\ rx' = "release"
  /\ UNCHANGED <<heapVars, mutex, pc, slot, request, handle, respond, serverVars,
                 rxRequest, rxHandle, packet>>

(* Fault: the mutex is kept *)
KeepMutex ==
  /\ rx = "release"
  /\ rx' = "recv"
  /\ UNCHANGED <<heapVars, event, mutex, pc, slot, request, handle, respond,
                 serverVars, rxRequest, rxHandle, packet, raced>>

(* ReleaseMutex fails, and nobody looks, when the thread does not own it *)
ReleaseMutex ==
  /\ rx = "release"
  /\ mutex' = [h \in Handle |->
                 IF h = memory[rxRequest].handle /\ mutex[h] = SOCKET
                   THEN NOBODY ELSE mutex[h]]
  /\ rx' = "recv"
  /\ UNCHANGED <<heapVars, event, pc, slot, request, handle, respond, serverVars,
                 rxRequest, rxHandle, packet, raced>>

-----------------------------------------------------------------------------
ThreadStep(t) ==
  \/ createRequest(t) \/ Send(t) \/ WaitForEvent(t) \/ WaitForMutex(t) \/ Read(t)
  \/ deleteRequest(t) \/ End(t)

SocketStep ==
  TakeRespond \/ LockRequest \/ writeToRequest \/ SetEvent \/ ReleaseMutex

Disturbance == TakeDelivery \/ TakeLateRespond

Running == rx # "crash"

RequestsNext ==
  /\ Running
  /\ SocketStep \/ Disturbance \/ \E t \in Thread : Start(t) \/ ThreadStep(t)

RequestsSpec == RequestsInit /\ [][RequestsNext]_requestVars

(* The threads are scheduled, and the server answers.  Users and other     *)
(* clients do what they like.                                              *)
FairRequests ==
  /\ RequestsSpec
  /\ WF_requestVars(Running /\ SocketStep)
  /\ \A t \in Thread : WF_requestVars(Running /\ ThreadStep(t))

-----------------------------------------------------------------------------
(* A thread reads the respond to its own request, as long as none of the   *)
(* three races of `raced' has happened: deliveries, full tables, reused    *)
(* memory and reused slots alone do not disturb it (clientUtils.c:89-99).  *)
OwnRespond ==
  raced = {} => \A t \in Thread : pc[t] = "unlink" => respond[t] = t

(* Without those races the socket thread writes to requests that are not   *)
(* freed, and gives back the mutex it has taken (request.c:48,             *)
(* clientUtils.c:89, :99).                                                 *)
WritesToLive ==
  raced = {} /\ packet # NULL =>
    /\ rx \in {"lock", "write", "set", "release"} => rxRequest \in allocated
    /\ rx \in {"write", "set", "release"} =>
         \E h \in Handle : memory[rxRequest].handle = h /\ mutex[h] = SOCKET

(* Where a thread has a request, and where the table has it too *)
Holding(t) == pc[t] \in {"send", "wait", "lock", "read", "unlink", "free"}
InTable(t) == pc[t] \in {"fill", "send", "wait", "lock", "read", "unlink"}

(* As long as no two threads have taken one slot at a time, a request      *)
(* belongs to one thread from its slot to its end, and a slot that is      *)
(* taken to a thread that will give it back, whatever responds and         *)
(* deliveries do (request.c:15, :52).                                      *)
OneOwner ==
  "slot" \notin raced =>
    /\ \A i \in Id : pendingRequests[i] # NULL =>
                       \E t \in Thread : InTable(t) /\ slot[t] = i
    /\ \A t \in Thread :
         /\ InTable(t) => pendingRequests[slot[t]] = request[t]
         /\ Holding(t) => request[t] \in allocated /\ field(t).id = slot[t]
    /\ \A t, u \in Thread : Holding(t) /\ Holding(u) /\ request[t] = request[u]
                             => t = u

(* A request that is sent is answered and its thread goes on, unless one   *)
(* of the races has happened or a delivery has met a request that is NULL  *)
(* (clientUtils.c:139).                                                    *)
RequestsServed ==
  \A t \in Thread :
    pc[t] = "wait" ~> pc[t] = "done" \/ raced # {} \/ ~Running
=============================================================================
