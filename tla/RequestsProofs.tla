--------------------------- MODULE RequestsProofs ---------------------------
(***************************************************************************)
(* What holds of the table of pending requests for any threads, addresses  *)
(* and number of slots.                                                    *)
(***************************************************************************)
EXTENDS Requests, SequenceTheorems, TLAPS

(* The thread has a request: from malloc to free *)
Owning(t) == InTable(t) \/ pc[t] = "free"

(* Pointers that are followed point to requests *)
PointersSet ==
  /\ \A t \in Thread : Owning(t) => request[t] \in Address
  /\ rx \in {"lock", "write", "set", "release"} => rxRequest \in Address

TypeInv == RequestsTypeOK /\ PointersSet

USE DEF Handle, Respond, Id, Place

(* The first element of a queue and the others *)
LEMMA QueueHead ==
  ASSUME NEW T, NEW s \in Seq(T), s # <<>>
  PROVE  /\ Head(s) \in T /\ Head(s) = s[1] /\ 1 \in DOMAIN s
         /\ Tail(s) \in Seq(T)
         /\ \A i \in DOMAIN Tail(s) :
              i + 1 \in DOMAIN s /\ Tail(s)[i] = s[i + 1] /\ i \in Nat \ {0}
<1>1. /\ Tail(s) \in Seq(T) /\ Len(Tail(s)) = Len(s) - 1
      /\ \A i \in 1 .. Len(s) - 1 : Tail(s)[i] = s[i + 1]
  BY HeadTailProperties
<1>2. /\ Len(s) \in Nat \ {0} /\ DOMAIN s = 1 .. Len(s)
      /\ DOMAIN Tail(s) = 1 .. Len(s) - 1 /\ Head(s) = s[1] /\ s[1] \in T
  BY <1>1
<1> QED BY <1>1, <1>2

LEMMA QueueElement ==
  ASSUME NEW T, NEW s \in Seq(T), NEW j \in DOMAIN s
  PROVE  s[j] \in T
<1>1. DOMAIN s = 1 .. Len(s)
  OBVIOUS
<1> QED BY <1>1, ElementOfSeq

LEMMA WriteData ==
  ASSUME NEW f \in Fields, NEW p \in Respond \cup {NULL}
  PROVE  /\ [f EXCEPT !.data = p] \in Fields
         /\ [f EXCEPT !.data = p].data = p
         /\ [f EXCEPT !.data = p].id = f.id
         /\ [f EXCEPT !.data = p].handle = f.handle
BY DEF Fields

LEMMA InitType == RequestsInit => TypeInv
BY RequestsAssumption
DEF RequestsInit, TypeInv, RequestsTypeOK, PointersSet, Owning, InTable, Fields

LEMMA StepType ==
  ASSUME TypeInv, RequestsNext
  PROVE  TypeInv'
<1> USE RequestsAssumption
<1>1. CASE TakeRespond
  <2>1. /\ Head(sent) \in [thread : Thread, id : Id]
        /\ Tail(sent) \in Seq([thread : Thread, id : Id])
    BY <1>1, QueueHead DEF TakeRespond, TypeInv, RequestsTypeOK
  <2> QED
    BY <1>1, <2>1 DEF TakeRespond, Look, TypeInv, RequestsTypeOK, PointersSet,
                      Owning, InTable, Fields, heapVars
<1>2. CASE TakeLateRespond
  BY <1>2 DEF TakeLateRespond, Look, TypeInv, RequestsTypeOK, PointersSet, Owning,
              InTable, Fields, heapVars
<1>3. CASE TakeDelivery
  BY <1>3 DEF TakeDelivery, TypeInv, RequestsTypeOK, PointersSet, Owning, InTable,
              Fields, heapVars
<1>4. CASE LockRequest
  BY <1>4 DEF LockRequest, TypeInv, RequestsTypeOK, PointersSet, Owning, InTable,
              Fields, heapVars, serverVars
<1>5. CASE writeToRequest
  <2>1. memory' \in [Address -> Fields]
    <3>1. [memory[rxRequest] EXCEPT !.data = packet] \in Fields
      <4>1. memory[rxRequest] \in Fields /\ packet \in Respond \cup {NULL}
        BY <1>5 DEF writeToRequest, TypeInv, RequestsTypeOK, PointersSet
      <4> QED BY <4>1, WriteData
    <3> QED BY <1>5, <3>1 DEF writeToRequest, TypeInv, RequestsTypeOK
  <2> QED
    BY <1>5, <2>1 DEF writeToRequest, TypeInv, RequestsTypeOK, PointersSet, Owning,
                      InTable, serverVars
<1>6. CASE SetEvent
  BY <1>6 DEF SetEvent, TypeInv, RequestsTypeOK, PointersSet, Owning, InTable,
              Fields, heapVars, serverVars
<1>7. CASE ReleaseMutex
  BY <1>7 DEF ReleaseMutex, TypeInv, RequestsTypeOK, PointersSet, Owning, InTable,
              Fields, heapVars, serverVars
<1>8. ASSUME NEW t \in Thread, Start(t) \/ ThreadStep(t)
      PROVE  TypeInv'
  <2>1. CASE Start(t)
    BY <2>1 DEF Start, Goto, TypeInv, RequestsTypeOK, PointersSet, Owning, InTable,
                Fields, heapVars, serverVars, rxVars
  <2>2. CASE Scan(t)
    <3>1. slot' \in [Thread -> Id]
      <4>1. slot[t] \in Id /\ (slot[t] < MaxId => slot[t] + 1 \in Id)
        BY DEF TypeInv, RequestsTypeOK
      <4>2. slot \in [Thread -> Id]
        BY DEF TypeInv, RequestsTypeOK
      <4>3. slot' = slot \/ (slot[t] < MaxId /\ slot' = [slot EXCEPT ![t] = slot[t] + 1])
        BY <2>2 DEF Scan
      <4> QED BY <4>1, <4>2, <4>3
    <3>2. /\ pc[t] = "scan"
          /\ \/ pc' = pc
             \/ \E place \in {"take", "end"} : pc' = [pc EXCEPT ![t] = place]
          /\ UNCHANGED <<heapVars, event, mutex, request, handle, respond, serverVars,
                         rxVars, raced>>
      BY <2>2 DEF Scan, Goto
    <3>3. pc' \in [Thread -> Place]
      <4>1. pc \in [Thread -> Place]
        BY DEF TypeInv, RequestsTypeOK
      <4> QED BY <3>2, <4>1
    <3>4. PointersSet'
      BY <3>2 DEF TypeInv, RequestsTypeOK, PointersSet, Owning, InTable, rxVars
    <3> QED
      BY <3>1, <3>2, <3>3, <3>4 DEF TypeInv, RequestsTypeOK, heapVars, serverVars, rxVars
  <2>3. CASE Take(t)
    BY <2>3 DEF Take, Goto, TypeInv, RequestsTypeOK, PointersSet, Owning, InTable,
                Fields, serverVars, rxVars
  <2>4. CASE Fill(t)
    <3>1. PICK a \in {request[t], pendingRequests[slot[t]]} :
             /\ request' = [request EXCEPT ![t] = a]
             /\ \/ a = NULL /\ pc' = [pc EXCEPT ![t] = "end"] /\ memory' = memory
                \/ /\ a # NULL
                   /\ pc' = [pc EXCEPT ![t] = "send"]
                   /\ memory' = [memory EXCEPT ![a] =
                                   [id |-> slot[t], data |-> NULL, handle |-> t]]
      BY <2>4 DEF Fill, Goto
    <3>2. a \in Address \cup {NULL}
      BY DEF TypeInv, RequestsTypeOK
    <3>3. memory' \in [Address -> Fields]
      <4>1. memory \in [Address -> Fields]
            /\ [id |-> slot[t], data |-> NULL, handle |-> t] \in Fields
        BY DEF TypeInv, RequestsTypeOK, Fields
      <4> QED BY <3>1, <3>2, <4>1
    <3>4. UNCHANGED <<pendingRequests, allocated, event, mutex, slot, handle, respond,
                      serverVars, rxVars, raced>>
      BY <2>4 DEF Fill
    <3>5. PointersSet'
      BY <3>1, <3>2, <3>4 DEF TypeInv, RequestsTypeOK, PointersSet, Owning, InTable,
                              rxVars
    <3>6. request' \in [Thread -> Address \cup {NULL}] /\ pc' \in [Thread -> Place]
      <4>1. request \in [Thread -> Address \cup {NULL}] /\ pc \in [Thread -> Place]
        BY DEF TypeInv, RequestsTypeOK
      <4> QED BY <3>1, <3>2, <4>1
    <3> QED
      BY <3>3, <3>4, <3>5, <3>6 DEF TypeInv, RequestsTypeOK, serverVars, rxVars
  <2>5. CASE Send(t)
    BY <2>5 DEF Send, Goto, TypeInv, RequestsTypeOK, PointersSet, Owning, InTable,
                Fields, field, heapVars, rxVars
  <2>6. CASE WaitForEvent(t)
    BY <2>6 DEF WaitForEvent, Goto, TypeInv, RequestsTypeOK, PointersSet, Owning,
                InTable, Fields, field, heapVars, serverVars, rxVars
  <2>7. CASE WaitForMutex(t)
    BY <2>7 DEF WaitForMutex, Goto, TypeInv, RequestsTypeOK, PointersSet, Owning,
                InTable, Fields, heapVars, serverVars, rxVars
  <2>8. CASE Read(t)
    BY <2>8 DEF Read, Goto, TypeInv, RequestsTypeOK, PointersSet, Owning, InTable,
                Fields, field, heapVars, serverVars, rxVars
  <2>9. CASE Unlink(t)
    BY <2>9 DEF Unlink, Goto, TypeInv, RequestsTypeOK, PointersSet, Owning, InTable,
                Fields, field, serverVars, rxVars
  <2>10. CASE Free(t)
    BY <2>10 DEF Free, Goto, TypeInv, RequestsTypeOK, PointersSet, Owning, InTable,
                 Fields, serverVars
  <2>11. CASE End(t)
    BY <2>11 DEF End, Goto, TypeInv, RequestsTypeOK, PointersSet, Owning, InTable,
                 Fields, heapVars, serverVars, rxVars
  <2> QED BY <1>8, <2>1, <2>2, <2>3, <2>4, <2>5, <2>6, <2>7, <2>8, <2>9, <2>10,
             <2>11 DEF ThreadStep, createRequest, deleteRequest
<1> QED
  BY <1>1, <1>2, <1>3, <1>4, <1>5, <1>6, <1>7, <1>8
  DEF RequestsNext, SocketStep, Disturbance

LEMMA StutterType == TypeInv /\ UNCHANGED requestVars => TypeInv'
BY DEF TypeInv, RequestsTypeOK, PointersSet, Owning, InTable, requestVars, Fields

(* The variables keep their types, whatever races there are: the socket    *)
(* thread follows no pointer that is NULL (request.c, clientUtils.c:46).   *)
THEOREM RequestsTypes == RequestsSpec => []RequestsTypeOK
<1>1. TypeInv /\ [RequestsNext]_requestVars => TypeInv'
  BY StepType, StutterType
<1>2. RequestsSpec => []TypeInv
  BY <1>1, InitType, PTL DEF RequestsSpec
<1> QED BY <1>2, PTL DEF TypeInv

-----------------------------------------------------------------------------
(* Slots, memory and owners, as long as no two threads have taken a slot   *)
Linked == \A t \in Thread : InTable(t) => pendingRequests[slot[t]] = request[t]
Allocated == \A t \in Thread : Owning(t) => request[t] \in allocated
Numbered == \A t \in Thread : Holding(t) => memory[request[t]].id = slot[t]
Separate == \A t, u \in Thread :
              Owning(t) /\ Owning(u) /\ request[t] = request[u] => t = u
Owned == \A i \in Id : pendingRequests[i] # NULL =>
                          \E t \in Thread : InTable(t) /\ slot[t] = i

SlotInv ==
  "slot" \notin raced => Linked /\ Allocated /\ Numbered /\ Separate /\ Owned

LEMMA InitSlots == RequestsInit => SlotInv
BY DEF RequestsInit, SlotInv, Linked, Allocated, Numbered, Separate, Owned,
       Owning, InTable, Holding

(* A step that leaves the table alone and takes no thread out of it *)
LEMMA SlotsKept ==
  ASSUME TypeInv, SlotInv,
         UNCHANGED <<pendingRequests, allocated, slot, request>>,
         \A a \in Address : memory'[a].id = memory[a].id,
         \A t \in Thread : /\ InTable(t)' <=> InTable(t)
                           /\ Holding(t)' => Holding(t)
                           /\ Owning(t)' => Owning(t),
         raced \subseteq raced'
  PROVE  SlotInv'
<1> SUFFICES ASSUME "slot" \notin raced'
             PROVE  (Linked /\ Allocated /\ Numbered /\ Separate /\ Owned)'
  BY DEF SlotInv
<1>1. Linked /\ Allocated /\ Numbered /\ Separate /\ Owned
  BY DEF SlotInv
<1>2. Linked' /\ Allocated' /\ Separate' /\ Owned'
  BY <1>1 DEF Linked, Allocated, Separate, Owned
<1>3. Numbered'
  BY <1>1 DEF Numbered, TypeInv, PointersSet, Holding, Owning, InTable
<1> QED BY <1>2, <1>3

LEMMA StepSlots ==
  ASSUME TypeInv, SlotInv, RequestsNext
  PROVE  SlotInv'
<1> USE RequestsAssumption
<1>1. CASE TakeRespond
  BY <1>1, SlotsKept DEF TakeRespond, Look, heapVars, InTable, Holding, Owning
<1>2. CASE TakeLateRespond
  BY <1>2, SlotsKept DEF TakeLateRespond, Look, heapVars, InTable, Holding, Owning
<1>3. CASE TakeDelivery
  BY <1>3, SlotsKept DEF TakeDelivery, heapVars, InTable, Holding, Owning
<1>4. CASE LockRequest
  BY <1>4, SlotsKept DEF LockRequest, heapVars, InTable, Holding, Owning
<1>5. CASE writeToRequest
  <2>1. \A a \in Address : memory'[a].id = memory[a].id
    <3>1. memory[rxRequest] \in Fields /\ packet \in Respond \cup {NULL}
      BY <1>5 DEF writeToRequest, TypeInv, RequestsTypeOK, PointersSet
    <3>2. [memory[rxRequest] EXCEPT !.data = packet].id = memory[rxRequest].id
      BY <3>1, WriteData
    <3> QED BY <1>5, <3>2 DEF writeToRequest, TypeInv, RequestsTypeOK
  <2> QED BY <1>5, <2>1, SlotsKept DEF writeToRequest, InTable, Holding, Owning
<1>6. CASE SetEvent
  BY <1>6, SlotsKept DEF SetEvent, heapVars, InTable, Holding, Owning
<1>7. CASE ReleaseMutex
  BY <1>7, SlotsKept DEF ReleaseMutex, heapVars, InTable, Holding, Owning
<1>8. ASSUME NEW t \in Thread, Start(t) \/ ThreadStep(t)
      PROVE  SlotInv'
  <2>0. pc \in [Thread -> Place] /\ slot \in [Thread -> Id]
        /\ request \in [Thread -> Address \cup {NULL}]
        /\ pendingRequests \in [Id -> Address \cup {NULL}]
    BY DEF TypeInv, RequestsTypeOK
  <2>1. CASE Start(t)
    BY <2>0, <2>1, SlotsKept DEF Start, Goto, heapVars, InTable, Holding, Owning
  <2>2. CASE Scan(t)
    <3> SUFFICES ASSUME "slot" \notin raced'
                 PROVE  (Linked /\ Allocated /\ Numbered /\ Separate /\ Owned)'
      BY DEF SlotInv
    <3>1. /\ pc[t] = "scan" /\ pc'[t] \in {"scan", "take", "end"}
          /\ \A u \in Thread \ {t} : pc'[u] = pc[u] /\ slot'[u] = slot[u]
          /\ UNCHANGED <<pendingRequests, allocated, memory, request, raced>>
      BY <2>0, <2>2 DEF Scan, Goto, heapVars
    <3>2. \A u \in Thread : /\ InTable(u)' <=> InTable(u)
                            /\ Holding(u)' <=> Holding(u)
                            /\ Owning(u)' <=> Owning(u)
                            /\ Owning(u) => u # t
      BY <3>1 DEF InTable, Holding, Owning
    <3>3. Linked /\ Allocated /\ Numbered /\ Separate /\ Owned
      BY <3>1 DEF SlotInv
    <3>4. \A u \in Thread : InTable(u) \/ Holding(u) => Owning(u)
      BY DEF InTable, Holding, Owning
    <3> QED
      BY <3>1, <3>2, <3>3, <3>4 DEF Linked, Allocated, Numbered, Separate, Owned
  <2>3. CASE Take(t)
    <3> SUFFICES ASSUME "slot" \notin raced'
                 PROVE  (Linked /\ Allocated /\ Numbered /\ Separate /\ Owned)'
      BY DEF SlotInv
    <3>1. PICK a \in Address \ allocated :
            /\ allocated' = allocated \cup {a}
            /\ request' = [request EXCEPT ![t] = a]
            /\ pendingRequests' = [pendingRequests EXCEPT ![slot[t]] = a]
      BY <2>3 DEF Take
    <3>2. /\ pc[t] = "take" /\ pc' = [pc EXCEPT ![t] = "fill"]
          /\ UNCHANGED <<memory, slot>>
          /\ pendingRequests[slot[t]] = NULL /\ raced' = raced
      BY <2>3 DEF Take, Goto
    <3>3. Linked /\ Allocated /\ Numbered /\ Separate /\ Owned
      BY <3>2 DEF SlotInv
    <3>4. \A u \in Thread : /\ InTable(u)' <=> InTable(u) \/ u = t
                            /\ Holding(u)' <=> Holding(u)
                            /\ Owning(u)' <=> Owning(u) \/ u = t
                            /\ Owning(u) => u # t
      BY <2>0, <3>2 DEF InTable, Holding, Owning
    <3>5. \A u \in Thread : InTable(u) \/ Holding(u) => Owning(u)
      BY DEF InTable, Holding, Owning
    <3>6. /\ request'[t] = a /\ pendingRequests'[slot[t]] = a
          /\ \A u \in Thread \ {t} : request'[u] = request[u]
          /\ \A i \in Id \ {slot[t]} : pendingRequests'[i] = pendingRequests[i]
      BY <2>0, <3>1
    <3>7. \A u \in Thread : InTable(u) => slot[u] # slot[t]
      BY <2>0, <3>2, <3>3, <3>5 DEF Linked, TypeInv, PointersSet
    <3>8. Linked'
      BY <2>0, <3>2, <3>3, <3>4, <3>5, <3>6, <3>7 DEF Linked
    <3>9. Allocated' /\ Separate'
      BY <3>1, <3>3, <3>4, <3>6 DEF Allocated, Separate
    <3>10. Numbered'
      BY <3>2, <3>3, <3>4, <3>5, <3>6 DEF Numbered
    <3>11. Owned'
      BY <3>2, <3>3, <3>4, <3>5, <3>6 DEF Owned
    <3> QED BY <3>8, <3>9, <3>10, <3>11
  <2>4. CASE Fill(t)
    <3> SUFFICES ASSUME "slot" \notin raced'
                 PROVE  (Linked /\ Allocated /\ Numbered /\ Separate /\ Owned)'
      BY DEF SlotInv
    <3>1. Linked /\ Allocated /\ Numbered /\ Separate /\ Owned
      BY <2>4 DEF Fill, SlotInv
    <3>2. pc[t] = "fill" /\ pendingRequests[slot[t]] = request[t] /\ request[t] # NULL
      BY <2>4, <3>1 DEF Fill, Linked, InTable, TypeInv, PointersSet, Owning
    <3>3. /\ request' = request
          /\ pc' = [pc EXCEPT ![t] = "send"]
          /\ memory' = [memory EXCEPT ![request[t]] =
                           [id |-> slot[t], data |-> NULL, handle |-> t]]
          /\ UNCHANGED <<pendingRequests, allocated, slot>>
      BY <2>0, <2>4, <3>2 DEF Fill, Goto
    <3>4. \A u \in Thread : /\ InTable(u)' <=> InTable(u)
                            /\ Owning(u)' <=> Owning(u)
                            /\ u # t => (Holding(u)' <=> Holding(u))
                            /\ Holding(u) => Owning(u)
      BY <2>0, <3>2, <3>3 DEF InTable, Holding, Owning
    <3>5. Linked' /\ Allocated' /\ Separate' /\ Owned'
      BY <3>1, <3>3, <3>4 DEF Linked, Allocated, Separate, Owned
    <3>6. request[t] \in Address /\ memory \in [Address -> Fields] /\ Owning(t)
      BY <3>2 DEF TypeInv, RequestsTypeOK, PointersSet, Owning, InTable
    <3>7. /\ memory'[request[t]].id = slot[t]
          /\ \A u \in Thread \ {t} : Owning(u) =>
                memory'[request[u]].id = memory[request[u]].id
      BY <3>1, <3>3, <3>6 DEF Separate, TypeInv, PointersSet
    <3>8. Numbered'
      BY <3>1, <3>3, <3>4, <3>7 DEF Numbered
    <3> QED BY <3>5, <3>8
  <2>5. CASE Send(t)
    BY <2>0, <2>5, SlotsKept DEF Send, Goto, heapVars, InTable, Holding, Owning
  <2>6. CASE WaitForEvent(t)
    BY <2>0, <2>6, SlotsKept DEF WaitForEvent, Goto, heapVars, InTable, Holding, Owning
  <2>7. CASE WaitForMutex(t)
    BY <2>0, <2>7, SlotsKept DEF WaitForMutex, Goto, heapVars, InTable, Holding, Owning
  <2>8. CASE Read(t)
    BY <2>0, <2>8, SlotsKept DEF Read, Goto, heapVars, InTable, Holding, Owning
  <2>9. CASE Unlink(t)
    <3> SUFFICES ASSUME "slot" \notin raced'
                 PROVE  (Linked /\ Allocated /\ Numbered /\ Separate /\ Owned)'
      BY DEF SlotInv
    <3>1. Linked /\ Allocated /\ Numbered /\ Separate /\ Owned
      BY <2>9 DEF Unlink, SlotInv
    <3>2. /\ pc[t] = "unlink" /\ pc' = [pc EXCEPT ![t] = "free"]
          /\ pendingRequests' = [pendingRequests EXCEPT ![slot[t]] = NULL]
          /\ UNCHANGED <<allocated, memory, slot, request>>
      BY <2>9, <3>1 DEF Unlink, Goto, Numbered, Holding, field
    <3>3. /\ InTable(t) /\ Owning(t) /\ ~InTable(t)'
          /\ \A u \in Thread : /\ u # t => (InTable(u)' <=> InTable(u))
                               /\ Owning(u)' <=> Owning(u)
                               /\ Holding(u)' <=> Holding(u)
                               /\ InTable(u) => Owning(u)
      BY <2>0, <3>2 DEF InTable, Holding, Owning
    <3>4. \A u \in Thread \ {t} : InTable(u) => slot[u] # slot[t]
      BY <3>1, <3>3 DEF Linked, Separate
    <3>5. Linked'
      BY <2>0, <3>1, <3>2, <3>3, <3>4 DEF Linked
    <3>6. Allocated' /\ Separate' /\ Numbered'
      BY <3>1, <3>2, <3>3 DEF Allocated, Separate, Numbered
    <3>7. Owned'
      BY <2>0, <3>1, <3>2, <3>3 DEF Owned
    <3> QED BY <3>5, <3>6, <3>7
  <2>10. CASE Free(t)
    <3> SUFFICES ASSUME "slot" \notin raced'
                 PROVE  (Linked /\ Allocated /\ Numbered /\ Separate /\ Owned)'
      BY DEF SlotInv
    <3>1. Linked /\ Allocated /\ Numbered /\ Separate /\ Owned
      BY <2>10 DEF Free, SlotInv
    <3>2. /\ pc[t] = "free" /\ pc' = [pc EXCEPT ![t] = "end"]
          /\ allocated' = allocated \ {request[t]}
          /\ UNCHANGED <<pendingRequests, memory, slot, request>>
      BY <2>10, <3>1 DEF Free, Goto, Allocated, Owning
    <3>3. /\ Owning(t) /\ ~InTable(t) /\ ~Owning(t)' /\ ~Holding(t)'
          /\ \A u \in Thread : /\ InTable(u)' <=> InTable(u)
                               /\ u # t => /\ Owning(u)' <=> Owning(u)
                                           /\ Holding(u)' <=> Holding(u)
      BY <2>0, <3>2 DEF InTable, Holding, Owning
    <3>4. Linked' /\ Owned' /\ Numbered'
      BY <3>1, <3>2, <3>3 DEF Linked, Owned, Numbered
    <3>5. Allocated' /\ Separate'
      BY <3>1, <3>2, <3>3 DEF Allocated, Separate
    <3> QED BY <3>4, <3>5
  <2>11. CASE End(t)
    <3> SUFFICES ASSUME "slot" \notin raced'
                 PROVE  (Linked /\ Allocated /\ Numbered /\ Separate /\ Owned)'
      BY DEF SlotInv
    <3>1. Linked /\ Allocated /\ Numbered /\ Separate /\ Owned
      BY <2>11 DEF End, SlotInv
    <3>2. /\ pc[t] = "end" /\ pc' = [pc EXCEPT ![t] = "done"]
          /\ \A u \in Thread \ {t} : slot'[u] = slot[u] /\ request'[u] = request[u]
          /\ UNCHANGED <<pendingRequests, allocated, memory>>
      BY <2>0, <2>11 DEF End, Goto, heapVars
    <3>3. \A u \in Thread : /\ InTable(u)' <=> InTable(u)
                            /\ Holding(u)' <=> Holding(u)
                            /\ Owning(u)' <=> Owning(u)
                            /\ InTable(u) \/ Holding(u) \/ Owning(u) => u # t
      BY <2>0, <3>2 DEF InTable, Holding, Owning
    <3> QED
      BY <3>1, <3>2, <3>3 DEF Linked, Allocated, Numbered, Separate, Owned
  <2> QED BY <1>8, <2>1, <2>2, <2>3, <2>4, <2>5, <2>6, <2>7, <2>8, <2>9, <2>10,
             <2>11 DEF ThreadStep, createRequest, deleteRequest
<1> QED
  BY <1>1, <1>2, <1>3, <1>4, <1>5, <1>6, <1>7, <1>8
  DEF RequestsNext, SocketStep, Disturbance

LEMMA StutterSlots == SlotInv /\ UNCHANGED requestVars => SlotInv'
BY DEF SlotInv, Linked, Allocated, Numbered, Separate, Owned, Owning, InTable,
       Holding, requestVars

LEMMA SlotsCorrect == RequestsSpec => [](TypeInv /\ SlotInv)
<1>1. TypeInv /\ SlotInv /\ [RequestsNext]_requestVars => (TypeInv /\ SlotInv)'
  BY StepType, StepSlots, StutterType, StutterSlots
<1> QED BY <1>1, InitType, InitSlots, PTL DEF RequestsSpec

(* As long as no two threads have taken one slot at a time, a request      *)
(* belongs to one thread from its slot to its end, and every slot that is  *)
(* taken to a thread that will give it back (request.c:15, :52).           *)
THEOREM RequestsOwned == RequestsSpec => []OneOwner
<1>1. TypeInv /\ SlotInv => OneOwner
  <2> SUFFICES ASSUME TypeInv, SlotInv, "slot" \notin raced
               PROVE  OneOwner
    BY DEF OneOwner
  <2>1. Linked /\ Allocated /\ Numbered /\ Separate /\ Owned
    BY DEF SlotInv
  <2>2. \A t \in Thread : Holding(t) => Owning(t)
    BY DEF Holding, Owning, InTable
  <2> QED
    BY <2>1, <2>2 DEF OneOwner, Linked, Allocated, Numbered, Separate, Owned, field
<1> QED BY <1>1, SlotsCorrect, PTL

-----------------------------------------------------------------------------
(* The way of a respond, as long as there is no race                       *)
Early(t) == pc[t] \in {"idle", "scan", "take", "fill"}

(* Nobody has met the event of a request that is not filled yet *)
EarlyQuiet ==
  \A t \in Thread : Early(t) =>
    t \notin event /\ \A a \in Address : memory[a].handle # t

OwnHandle ==
  \A t \in Thread : Holding(t) =>
    /\ memory[request[t]].handle = t
    /\ \A a \in Address : memory[a].handle = t => a = request[t]

(* The event of a thread that waits is set when its respond is there, and  *)
(* who has been woken finds it                                             *)
Woken ==
  \A t \in Thread :
    /\ pc[t] = "send" => t \notin event /\ memory[request[t]].data = NULL
    /\ pc[t] = "wait" => /\ memory[request[t]].data \in {NULL, t}
                         /\ t \in event => memory[request[t]].data = t
    /\ pc[t] \in {"wait", "lock"} => handle[t] = t
    /\ pc[t] \in {"lock", "read"} => memory[request[t]].data = t
    /\ pc[t] = "unlink" => respond[t] = t

Serving == rx \in {"lock", "write", "set", "release"} /\ packet # NULL

(* A request the server has not answered *)
Unanswered(s) ==
  /\ pc[s.thread] = "wait" /\ s.id = slot[s.thread]
  /\ memory[request[s.thread]].data = NULL /\ s.thread \notin event
  /\ Serving => packet # s.thread

SentWaits ==
  /\ \A j \in DOMAIN sent : Unanswered(sent[j])
  /\ \A j, k \in DOMAIN sent : sent[j].thread = sent[k].thread => j = k

(* What the socket thread knows of the request it has looked up *)
Serves ==
  /\ rx \in {"lock", "write"} => packet # NULL
  /\ Serving =>
       /\ packet \in Thread
       /\ pc[packet] \in {"wait", "lock"} /\ rxRequest = request[packet]
       /\ rx = "lock" => rxHandle = packet
       /\ rx # "lock" => mutex[packet] = SOCKET
       /\ rx \in {"lock", "write"} => memory[rxRequest].data = NULL
       /\ rx \in {"set", "release"} => memory[rxRequest].data = packet
       /\ rx # "release" => pc[packet] = "wait" /\ packet \notin event

RespondInv ==
  raced = {} => EarlyQuiet /\ OwnHandle /\ Woken /\ SentWaits /\ Serves

LEMMA InitRespond == RequestsInit => RespondInv
BY RequestsAssumption
DEF RequestsInit, RespondInv, EarlyQuiet, OwnHandle, Woken, SentWaits, Serves,
    Early, Holding, Serving

(* The parts of the invariants a step may use *)
LEMMA Facts ==
  ASSUME TypeInv, SlotInv, RespondInv, raced = {}
  PROVE  /\ RequestsTypeOK
         /\ Linked /\ Allocated /\ Numbered /\ Separate
         /\ EarlyQuiet /\ OwnHandle /\ Woken /\ SentWaits /\ Serves
         /\ \A t \in Thread : Owning(t) => request[t] \in Address
         /\ rx \in {"lock", "write", "set", "release"} => rxRequest \in Address
BY DEF TypeInv, SlotInv, RespondInv, PointersSet

LEMMA RacesStay == RequestsNext /\ raced' = {} => raced = {}
BY DEF RequestsNext, SocketStep, Disturbance, TakeRespond, TakeLateRespond, Look,
       TakeDelivery, LockRequest, writeToRequest, SetEvent, ReleaseMutex, Start,
       ThreadStep, createRequest, deleteRequest, Scan, Take, Fill, Send,
       WaitForEvent, WaitForMutex, Read, Unlink, Free, End

(* The steps of the socket thread *)
LEMMA SocketRespond ==
  ASSUME TypeInv, SlotInv, RespondInv, raced = {}, raced' = {},
         SocketStep \/ Disturbance
  PROVE  (EarlyQuiet /\ OwnHandle /\ Woken /\ SentWaits /\ Serves)'
<1> USE RequestsAssumption
<1>0. /\ RequestsTypeOK
      /\ Linked /\ Allocated /\ Numbered /\ Separate
      /\ EarlyQuiet /\ OwnHandle /\ Woken /\ SentWaits /\ Serves
      /\ rx \in {"lock", "write", "set", "release"} => rxRequest \in Address
  BY Facts
<1>01. \A j \in DOMAIN sent : sent[j].thread \in Thread /\ sent[j].id \in Id
  <2>1. sent \in Seq([thread : Thread, id : Id])
    BY <1>0 DEF RequestsTypeOK
  <2>2. \A j \in DOMAIN sent : sent[j] \in [thread : Thread, id : Id]
    BY <2>1, QueueElement
  <2> QED BY <2>2
<1>1. CASE TakeRespond
  <2>1. /\ sent # <<>> /\ sent \in Seq([thread : Thread, id : Id])
        /\ sent' = Tail(sent)
        /\ UNCHANGED <<heapVars, event, mutex, pc, slot, request, handle, respond>>
    BY <1>0, <1>1 DEF TakeRespond, Look, RequestsTypeOK
  <2> DEFINE s == Head(sent)
             t == s.thread
  <2>2. /\ s \in [thread : Thread, id : Id] /\ s = sent[1] /\ 1 \in DOMAIN sent
        /\ \A i \in DOMAIN Tail(sent) :
             i + 1 \in DOMAIN sent /\ Tail(sent)[i] = sent[i + 1] /\ i \in Nat \ {0}
    BY <2>1, QueueHead
  <2>3. Unanswered(s) /\ t \in Thread
    BY <1>0, <2>2 DEF SentWaits
  <2>4. /\ pc[t] = "wait" /\ s.id = slot[t] /\ memory[request[t]].data = NULL
        /\ t \notin event /\ memory[request[t]].handle = t
    BY <1>0, <2>3 DEF Unanswered, OwnHandle, Holding
  <2>5. pendingRequests[s.id] = request[t] /\ request[t] \in Address
    BY <1>0, <2>3, <2>4, Facts DEF Linked, InTable, Owning
  <2>6. packet' = t /\ rxRequest' = request[t] /\ rx' = "lock" /\ rxHandle' = t
    BY <1>1, <2>4, <2>5 DEF TakeRespond, Look
  <2>7. EarlyQuiet' /\ OwnHandle' /\ Woken'
    BY <1>0, <2>1 DEF EarlyQuiet, OwnHandle, Woken, Early, Holding, heapVars
  <2>8. SentWaits'
    <3>1. \A i \in DOMAIN sent' : /\ i + 1 \in DOMAIN sent /\ i \in Nat \ {0}
                                  /\ sent'[i] = sent[i + 1]
                                  /\ sent[i + 1].thread # t
      BY <1>0, <2>1, <2>2 DEF SentWaits
    <3>2. \A i \in DOMAIN sent' :
            LET v == sent'[i] IN
            /\ pc'[v.thread] = "wait" /\ v.id = slot'[v.thread]
            /\ memory'[request'[v.thread]].data = NULL /\ v.thread \notin event'
            /\ packet' # v.thread
      BY <1>0, <2>1, <2>6, <3>1 DEF SentWaits, Unanswered, heapVars
    <3>3. \A j, k \in DOMAIN sent' : sent'[j].thread = sent'[k].thread => j = k
      BY <1>0, <3>1 DEF SentWaits
    <3> QED BY <3>2, <3>3 DEF SentWaits, Unanswered
  <2>9. Serves'
    BY <2>1, <2>3, <2>4, <2>6 DEF Serves, Serving, heapVars
  <2> QED BY <2>7, <2>8, <2>9
<1>2. CASE TakeLateRespond
  <2>1. /\ rx = "recv" /\ rx' = "recv"
        /\ UNCHANGED <<heapVars, event, mutex, pc, slot, request, handle, respond, sent>>
    BY <1>2 DEF TakeLateRespond, Look
  <2> QED
    BY <1>0, <2>1 DEF EarlyQuiet, OwnHandle, Woken, SentWaits, Serves, Early, Holding,
                      Unanswered, Serving, heapVars
<1>3. CASE TakeDelivery
  <2>1. /\ packet' = NULL /\ rx' \in {"set", "crash"}
        /\ UNCHANGED <<heapVars, event, mutex, pc, slot, request, handle, respond, sent>>
    BY <1>3 DEF TakeDelivery
  <2> QED
    BY <1>0, <2>1 DEF EarlyQuiet, OwnHandle, Woken, SentWaits, Serves, Early, Holding,
                      Unanswered, Serving, heapVars
<1>4. CASE LockRequest
  <2>1. /\ rx = "lock" /\ rx' = "write" /\ packet # NULL /\ packet \in Thread
        /\ rxHandle = packet /\ mutex' = [mutex EXCEPT ![packet] = SOCKET]
        /\ mutex \in [Handle -> Thread \cup {NOBODY, SOCKET}]
        /\ UNCHANGED <<heapVars, event, pc, slot, request, handle, respond, sent,
                       rxRequest, packet>>
    BY <1>0, <1>4 DEF LockRequest, Serves, Serving, RequestsTypeOK, serverVars
  <2> QED
    BY <1>0, <2>1 DEF EarlyQuiet, OwnHandle, Woken, SentWaits, Serves, Early, Holding,
                      Unanswered, Serving, heapVars
<1>5. CASE writeToRequest
  <2>1. /\ rx = "write" /\ rx' = "set" /\ packet # NULL /\ packet \in Thread
        /\ pc[packet] = "wait" /\ rxRequest = request[packet] /\ rxRequest \in Address
        /\ packet \notin event /\ mutex[packet] = SOCKET
        /\ UNCHANGED <<allocated, event, mutex, pc, slot, request, handle, respond,
                       sent, rxRequest, packet>>
    BY <1>0, <1>5 DEF writeToRequest, Serves, Serving, serverVars
  <2>2. /\ \A a \in Address : memory'[a].handle = memory[a].handle
        /\ \A a \in Address \ {rxRequest} : memory'[a] = memory[a]
        /\ memory'[rxRequest].data = packet
    <3>1. memory[rxRequest] \in Fields /\ packet \in Respond \cup {NULL}
          /\ memory \in [Address -> Fields]
      BY <1>0, <2>1 DEF RequestsTypeOK
    <3>2. /\ [memory[rxRequest] EXCEPT !.data = packet].handle = memory[rxRequest].handle
          /\ [memory[rxRequest] EXCEPT !.data = packet].data = packet
      BY <3>1, WriteData
    <3> QED BY <1>5, <2>1, <3>1, <3>2 DEF writeToRequest
  <2>3. \A u \in Thread \ {packet} : Owning(u) =>
          request[u] \in Address /\ memory'[request[u]] = memory[request[u]]
    BY <1>0, <2>1, <2>2, Facts DEF Separate, Owning, InTable
  <2>4. EarlyQuiet' /\ OwnHandle'
    BY <1>0, <2>1, <2>2, Facts DEF EarlyQuiet, OwnHandle, Early, Holding, Owning, InTable
  <2>5. Woken'
    BY <1>0, <2>1, <2>2, <2>3 DEF Woken, Owning, InTable
  <2>6. SentWaits'
    <3>1. \A j \in DOMAIN sent :
            sent[j].thread \in Thread \ {packet} /\ Owning(sent[j].thread)
      BY <1>0, <1>01, <2>1 DEF SentWaits, Unanswered, Serving, Owning, InTable
    <3> QED BY <1>0, <2>1, <2>3, <3>1 DEF SentWaits, Unanswered, Serving
  <2>7. Serves'
    BY <2>1, <2>2 DEF Serves, Serving
  <2> QED BY <2>4, <2>5, <2>6, <2>7
<1>6. CASE SetEvent
  <2> DEFINE h == memory[rxRequest].handle
  <2>1. /\ rx = "set" /\ rx' = "release" /\ rxRequest \in Address
        /\ event' = event \cup ({h} \ {NULL})
        /\ UNCHANGED <<heapVars, mutex, pc, slot, request, handle, respond, sent,
                       rxRequest, packet>>
    BY <1>0, <1>6 DEF SetEvent, serverVars
  <2>2. packet = NULL /\ rxRequest \in allocated => memory[rxRequest].data # NULL
    BY <1>6 DEF SetEvent
  <2>3. packet # NULL => /\ packet \in Thread /\ pc[packet] = "wait"
                         /\ rxRequest = request[packet] /\ h = packet
                         /\ memory[rxRequest].data = packet /\ mutex[packet] = SOCKET
    BY <1>0, <2>1 DEF Serves, Serving, OwnHandle, Holding
  <2>4. \A u \in Thread : Holding(u) /\ u = h =>
          rxRequest = request[u] /\ memory[request[u]].data # NULL
    BY <1>0, <2>1, <2>2, <2>3 DEF OwnHandle, Allocated, Owning, InTable, Holding
  <2>5. EarlyQuiet' /\ OwnHandle'
    BY <1>0, <2>1 DEF EarlyQuiet, OwnHandle, Early, Holding, heapVars
  <2>6. Woken'
    BY <1>0, <2>1, <2>4 DEF Woken, Holding, heapVars
  <2>7. SentWaits'
    <3>1. \A j \in DOMAIN sent : /\ sent[j].thread \in Thread
                                 /\ Unanswered(sent[j]) /\ Holding(sent[j].thread)
      BY <1>0, <1>01 DEF SentWaits, Unanswered, Holding
    <3> QED BY <1>0, <2>1, <2>4, <3>1 DEF SentWaits, Unanswered, Serving, heapVars
  <2>8. Serves'
    BY <2>1, <2>3 DEF Serves, Serving, heapVars
  <2> QED BY <2>5, <2>6, <2>7, <2>8
<1>7. CASE ReleaseMutex
  <2>1. /\ rx' = "recv" /\ rx = "release"
        /\ UNCHANGED <<heapVars, event, pc, slot, request, handle, respond, sent, packet>>
    BY <1>7 DEF ReleaseMutex, serverVars
  <2> QED
    BY <1>0, <2>1 DEF EarlyQuiet, OwnHandle, Woken, SentWaits, Serves, Early, Holding,
                      Unanswered, Serving, heapVars
<1> QED
  BY <1>1, <1>2, <1>3, <1>4, <1>5, <1>6, <1>7 DEF SocketStep, Disturbance

(* The steps of the threads *)
LEMMA ThreadRespond ==
  ASSUME TypeInv, SlotInv, RespondInv, raced = {}, raced' = {},
         NEW t \in Thread, Start(t) \/ ThreadStep(t)
  PROVE  (EarlyQuiet /\ OwnHandle /\ Woken /\ SentWaits /\ Serves)'
<1> USE RequestsAssumption
<1>0. /\ Linked /\ Allocated /\ Numbered /\ Separate
      /\ EarlyQuiet /\ OwnHandle /\ Woken /\ SentWaits /\ Serves
      /\ \A u \in Thread : Owning(u) => request[u] \in Address
      /\ rx \in {"lock", "write", "set", "release"} => rxRequest \in Address
  BY Facts
<1>01. /\ pc \in [Thread -> Place] /\ slot \in [Thread -> Id]
       /\ request \in [Thread -> Address \cup {NULL}]
       /\ handle \in [Thread -> Handle \cup {NULL}]
       /\ respond \in [Thread -> Respond \cup {NULL}]
       /\ mutex \in [Handle -> Thread \cup {NOBODY, SOCKET}]
       /\ memory \in [Address -> Fields]
       /\ sent \in Seq([thread : Thread, id : Id])
  BY DEF TypeInv, RequestsTypeOK
<1>02. \A j \in DOMAIN sent : sent[j] \in [thread : Thread, id : Id]
  BY <1>01, QueueElement
<1>03. \A u \in Thread : Holding(u) => Owning(u)
  BY DEF Holding, Owning, InTable
<1>1. CASE Start(t)
  <2>1. /\ pc[t] = "idle" /\ pc' = [pc EXCEPT ![t] = "scan"]
        /\ UNCHANGED <<memory, event, mutex, slot, request, handle, respond, sent, rx,
                       rxRequest, rxHandle, packet>>
    BY <1>0, <1>01, <1>1 DEF Start, Goto, rxVars, serverVars, heapVars
  <2> QED
    BY <1>0, <1>01, <1>02, <1>03, <2>1
    DEF EarlyQuiet, OwnHandle, Woken, SentWaits, Serves, Early, Holding, Unanswered,
        Serving
<1>2. CASE Scan(t)
  <2>1. /\ pc[t] = "scan" /\ pc'[t] \in {"scan", "take", "end"}
        /\ \A u \in Thread \ {t} : pc'[u] = pc[u] /\ slot'[u] = slot[u]
        /\ UNCHANGED <<memory, event, mutex, request, handle, respond, sent, rx,
                       rxRequest, rxHandle, packet>>
    BY <1>0, <1>01, <1>2 DEF Scan, Goto, rxVars, serverVars, heapVars
  <2> QED
    BY <1>0, <1>01, <1>02, <1>03, <2>1
    DEF EarlyQuiet, OwnHandle, Woken, SentWaits, Serves, Early, Holding, Unanswered,
        Serving
<1>3. CASE Take(t)
  <2>1. /\ pc[t] = "take" /\ pc' = [pc EXCEPT ![t] = "fill"]
        /\ \A u \in Thread \ {t} : request'[u] = request[u]
        /\ UNCHANGED <<memory, event, mutex, slot, handle, respond, sent, rx,
                       rxRequest, rxHandle, packet>>
    BY <1>0, <1>01, <1>3 DEF Take, Goto, rxVars, serverVars
  <2> QED
    BY <1>0, <1>01, <1>02, <1>03, <2>1
    DEF EarlyQuiet, OwnHandle, Woken, SentWaits, Serves, Early, Holding, Unanswered,
        Serving
<1>4. CASE Fill(t)
  <2>1. pc[t] = "fill" /\ pendingRequests[slot[t]] = request[t] /\ request[t] # NULL
        /\ request[t] \in Address /\ Owning(t)
    BY <1>0, <1>4 DEF Fill, Linked, InTable, Owning
  <2>2. /\ request' = request
        /\ pc' = [pc EXCEPT ![t] = "send"]
        /\ memory' = [memory EXCEPT ![request[t]] =
                        [id |-> slot[t], data |-> NULL, handle |-> t]]
        /\ UNCHANGED <<event, mutex, slot, handle, respond, sent, rx, rxRequest,
                       rxHandle, packet>>
    BY <1>01, <1>4, <2>1 DEF Fill, Goto, rxVars, serverVars
  <2>3. /\ memory'[request[t]].data = NULL /\ memory'[request[t]].handle = t
        /\ \A a \in Address \ {request[t]} : memory'[a] = memory[a]
        /\ \A u \in Thread \ {t} : Owning(u) =>
             request[u] \in Address \ {request[t]}
    BY <1>0, <1>01, <2>1, <2>2 DEF Separate
  <2>4. t \notin event /\ \A a \in Address : memory[a].handle # t
    BY <1>0, <2>1 DEF EarlyQuiet, Early
  <2>5. EarlyQuiet'
    BY <1>0, <1>01, <2>1, <2>2, <2>3 DEF EarlyQuiet, Early
  <2>6. OwnHandle'
    BY <1>0, <1>01, <1>03, <2>1, <2>2, <2>3, <2>4 DEF OwnHandle, Holding
  <2>7. Woken'
    BY <1>0, <1>01, <1>03, <2>1, <2>2, <2>3, <2>4 DEF Woken, Holding
  <2>8. SentWaits'
    BY <1>0, <1>01, <1>02, <1>03, <2>1, <2>2, <2>3
    DEF SentWaits, Unanswered, Serving, Holding
  <2>9. Serves'
    BY <1>0, <1>01, <1>03, <2>1, <2>2, <2>3 DEF Serves, Serving, Holding
  <2> QED BY <2>5, <2>6, <2>7, <2>8, <2>9
<1>5. CASE Send(t)
  <2>1. /\ pc[t] = "send" /\ pc' = [pc EXCEPT ![t] = "wait"]
        /\ handle' = [handle EXCEPT ![t] = t]
        /\ sent' = Append(sent, [thread |-> t, id |-> slot[t]])
        /\ UNCHANGED <<memory, event, mutex, slot, request, respond, rx,
                       rxRequest, rxHandle, packet>>
    BY <1>0, <1>5 DEF Send, Goto, field, rxVars, heapVars, OwnHandle, Numbered, Holding
  <2>2. /\ DOMAIN sent' = DOMAIN sent \cup {Len(sent) + 1}
        /\ sent'[Len(sent) + 1] = [thread |-> t, id |-> slot[t]]
        /\ \A j \in DOMAIN sent : sent'[j] = sent[j]
    BY <1>01, <2>1
  <2>3. EarlyQuiet' /\ OwnHandle' /\ Woken' /\ Serves'
    BY <1>0, <1>01, <2>1
    DEF EarlyQuiet, OwnHandle, Woken, Serves, Early, Holding, Serving
  <2>4. SentWaits'
    <3>1. \A j \in DOMAIN sent : sent[j].thread \in Thread \ {t}
      BY <1>0, <1>02, <2>1 DEF SentWaits, Unanswered
    <3>2. t \notin event /\ memory[request[t]].data = NULL /\ (Serving => packet # t)
      BY <1>0, <2>1 DEF Woken, Serves
    <3>3. \A j \in DOMAIN sent : Unanswered(sent[j])'
      BY <1>0, <1>01, <2>1, <3>1 DEF SentWaits, Unanswered, Serving
    <3>4. \A j \in DOMAIN sent' :
            LET v == sent'[j] IN
            /\ pc'[v.thread] = "wait" /\ v.id = slot'[v.thread]
            /\ memory'[request'[v.thread]].data = NULL /\ v.thread \notin event'
            /\ Serving => packet # v.thread
      <4> TAKE j \in DOMAIN sent'
      <4>1. CASE j = Len(sent) + 1
        BY <1>01, <2>1, <2>2, <3>2, <4>1
      <4>2. CASE j \in DOMAIN sent
        BY <2>1, <2>2, <3>3, <4>2 DEF Unanswered, Serving
      <4> QED BY <2>2, <4>1, <4>2
    <3>5. \A j, k \in DOMAIN sent' : sent'[j].thread = sent'[k].thread => j = k
      BY <1>0, <2>2, <3>1 DEF SentWaits
    <3> QED BY <2>1, <3>4, <3>5 DEF SentWaits, Unanswered, Serving
  <2> QED BY <2>3, <2>4
<1>6. CASE WaitForEvent(t)
  <2>1. /\ pc[t] = "wait" /\ pc' = [pc EXCEPT ![t] = "lock"] /\ handle' = handle
        /\ t \in event /\ event' = event \ {t} /\ memory[request[t]].data = t
        /\ UNCHANGED <<memory, mutex, slot, request, respond, sent, rx, rxRequest,
                       rxHandle, packet>>
    BY <1>0, <1>01, <1>6 DEF WaitForEvent, Goto, field, rxVars, serverVars, heapVars, Woken, OwnHandle, Holding
  <2> QED
    BY <1>0, <1>01, <1>02, <1>03, <2>1
    DEF EarlyQuiet, OwnHandle, Woken, SentWaits, Serves, Early, Holding, Unanswered,
        Serving
<1>7. CASE WaitForMutex(t)
  <2>1. /\ pc[t] = "lock" /\ pc' = [pc EXCEPT ![t] = "read"]
        /\ mutex[t] = NOBODY /\ mutex' = [mutex EXCEPT ![t] = t]
        /\ UNCHANGED <<memory, event, slot, request, handle, respond, sent, rx,
                       rxRequest, rxHandle, packet>>
    BY <1>0, <1>01, <1>7 DEF WaitForMutex, Goto, rxVars, serverVars, heapVars, Woken
  <2> QED
    BY <1>0, <1>01, <1>02, <1>03, <2>1
    DEF EarlyQuiet, OwnHandle, Woken, SentWaits, Serves, Early, Holding, Unanswered,
        Serving
<1>8. CASE Read(t)
  <2>1. /\ pc[t] = "read" /\ pc' = [pc EXCEPT ![t] = "unlink"]
        /\ respond' = [respond EXCEPT ![t] = t]
        /\ UNCHANGED <<memory, event, mutex, slot, request, handle, sent, rx,
                       rxRequest, rxHandle, packet>>
    BY <1>0, <1>01, <1>8 DEF Read, Goto, field, rxVars, serverVars, heapVars, Woken
  <2> QED
    BY <1>0, <1>01, <1>02, <1>03, <2>1
    DEF EarlyQuiet, OwnHandle, Woken, SentWaits, Serves, Early, Holding, Unanswered,
        Serving
<1>9. CASE Unlink(t)
  <2>1. /\ pc[t] = "unlink" /\ pc' = [pc EXCEPT ![t] = "free"]
        /\ UNCHANGED <<memory, event, mutex, slot, request, handle, respond, sent, rx,
                       rxRequest, rxHandle, packet>>
    BY <1>0, <1>01, <1>9 DEF Unlink, Goto, rxVars, serverVars, heapVars
  <2> QED
    BY <1>0, <1>01, <1>02, <1>03, <2>1
    DEF EarlyQuiet, OwnHandle, Woken, SentWaits, Serves, Early, Holding, Unanswered,
        Serving
<1>10. CASE Free(t)
  <2>1. /\ pc[t] = "free" /\ pc' = [pc EXCEPT ![t] = "end"]
        /\ UNCHANGED <<memory, event, mutex, slot, request, handle, respond, sent, rx,
                       rxRequest, rxHandle, packet>>
    BY <1>0, <1>01, <1>10 DEF Free, Goto, rxVars, serverVars, heapVars, Allocated, Owning
  <2> QED
    BY <1>0, <1>01, <1>02, <1>03, <2>1
    DEF EarlyQuiet, OwnHandle, Woken, SentWaits, Serves, Early, Holding, Unanswered,
        Serving
<1>11. CASE End(t)
  <2>1. /\ pc[t] = "end" /\ pc' = [pc EXCEPT ![t] = "done"]
        /\ \A u \in Thread \ {t} : /\ slot'[u] = slot[u] /\ request'[u] = request[u]
                                   /\ handle'[u] = handle[u]
                                   /\ respond'[u] = respond[u]
        /\ \A h \in Handle : mutex[h] = SOCKET => mutex'[h] = SOCKET
        /\ UNCHANGED <<memory, event, sent, rx, rxRequest, rxHandle, packet>>
    BY <1>0, <1>01, <1>11 DEF End, Goto, rxVars, serverVars, heapVars
  <2> QED
    BY <1>0, <1>01, <1>02, <1>03, <2>1
    DEF EarlyQuiet, OwnHandle, Woken, SentWaits, Serves, Early, Holding, Unanswered,
        Serving
<1> QED
  BY <1>1, <1>2, <1>3, <1>4, <1>5, <1>6, <1>7, <1>8, <1>9, <1>10, <1>11
  DEF ThreadStep, createRequest, deleteRequest

LEMMA StepRespond ==
  ASSUME TypeInv, SlotInv, RespondInv, RequestsNext
  PROVE  RespondInv'
<1> SUFFICES ASSUME raced' = {}
             PROVE  (EarlyQuiet /\ OwnHandle /\ Woken /\ SentWaits /\ Serves)'
  BY DEF RespondInv
<1>1. raced = {}
  BY RacesStay
<1> QED BY <1>1, SocketRespond, ThreadRespond DEF RequestsNext

LEMMA StutterRespond == RespondInv /\ UNCHANGED requestVars => RespondInv'
BY DEF RespondInv, EarlyQuiet, OwnHandle, Woken, SentWaits, Serves, Early, Holding,
       Unanswered, Serving, requestVars

LEMMA RespondsCorrect == RequestsSpec => [](TypeInv /\ SlotInv /\ RespondInv)
<1>1. /\ TypeInv /\ SlotInv /\ RespondInv /\ [RequestsNext]_requestVars
      => (TypeInv /\ SlotInv /\ RespondInv)'
  BY StepType, StepSlots, StepRespond, StutterType, StutterSlots, StutterRespond
<1> QED BY <1>1, InitType, InitSlots, InitRespond, PTL DEF RequestsSpec

(* A thread reads the respond to its own request, as long as there is no   *)
(* race, whatever deliveries, reused memory and reused slots there are     *)
(* (clientUtils.c:89-99).                                                  *)
THEOREM RespondsOwn == RequestsSpec => []OwnRespond
<1>1. RespondInv => OwnRespond
  BY DEF RespondInv, Woken, OwnRespond
<1> QED BY <1>1, RespondsCorrect, PTL

(* Without a race the socket thread writes to a request that is not freed, *)
(* and gives back the mutex it has taken (request.c:48,                    *)
(* clientUtils.c:89, :99).                                                 *)
THEOREM WritesLive == RequestsSpec => []WritesToLive
<1>1. TypeInv /\ SlotInv /\ RespondInv => WritesToLive
  <2> SUFFICES ASSUME TypeInv, SlotInv, RespondInv, raced = {}, packet # NULL,
                      rx \in {"lock", "write", "set", "release"}
               PROVE  /\ rxRequest \in allocated
                      /\ rx # "lock" =>
                           \E h \in Handle :
                             memory[rxRequest].handle = h /\ mutex[h] = SOCKET
    BY DEF WritesToLive
  <2>1. /\ packet \in Thread /\ pc[packet] \in {"wait", "lock"}
        /\ rxRequest = request[packet] /\ (rx # "lock" => mutex[packet] = SOCKET)
    BY Facts DEF Serves, Serving
  <2>2. request[packet] \in allocated /\ memory[request[packet]].handle = packet
    BY <2>1, Facts DEF Allocated, OwnHandle, Holding, Owning, InTable
  <2> QED BY <2>1, <2>2
<1> QED BY <1>1, RespondsCorrect, PTL
=============================================================================
