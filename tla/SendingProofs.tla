---------------------------- MODULE SendingProofs ----------------------------
(***************************************************************************)
(* Packets leave a client whole, for any number of threads and calls and   *)
(* any sizes.                                                              *)
(***************************************************************************)
EXTENDS Sending, SequenceTheorems, TLAPS

(* Where main() and the mutex are *)
MainInv ==
  /\ created <=> main \in {"menu", "quit"}
  /\ ~created => owner = NOBODY
  /\ main \in {"connected", "granted"} => pc[MAIN] = "idle"
  /\ ~created => \A t \in Thread : pc[t] = "idle"

(* Packets are numbered by their calls, and not in the stream before they  *)
(* are sent                                                                *)
CallInv ==
  /\ \A i \in DOMAIN stream : stream[i] <= calls
  /\ \A t \in Sender : pc[t] # "idle" => packet[t] \in Call /\ packet[t] <= calls
  /\ \A t, u \in Sender :
       pc[t] # "idle" /\ pc[u] # "idle" /\ packet[t] = packet[u] => t = u
  /\ \A t \in Sender : pc[t] = "wait" =>
       \A i \in DOMAIN stream : stream[i] # packet[t]

(* One thread sends at a time, and its packet is the last in the stream *)
OneSends ==
  \A t \in Sender : pc[t] = "send" => IF created THEN owner = t ELSE t = MAIN

LastIsSent ==
  \A t \in Sender : pc[t] = "send" =>
    \A i \in DOMAIN stream :
      stream[i] = packet[t] => stream[Len(stream)] = packet[t]

SendInv ==
  /\ SendingTypeOK /\ MainInv /\ CallInv
  /\ ~early => OneSends /\ LastIsSent /\ Contiguous

USE SendingAssumption

LEMMA OneByteMore ==
  ASSUME NEW p \in Call, stream \in Seq(Call), stream' = Append(stream, p)
  PROVE  /\ stream' \in Seq(Call)
         /\ Len(stream') = Len(stream) + 1 /\ Len(stream) \in Nat
         /\ DOMAIN stream = 1 .. Len(stream)
         /\ DOMAIN stream' = 1 .. Len(stream) + 1
         /\ \A i \in DOMAIN stream : stream'[i] = stream[i]
         /\ stream'[Len(stream) + 1] = p
  BY AppendProperties

LEMMA InitSend == SendingInit => SendInv
<1> SUFFICES ASSUME SendingInit PROVE SendInv
  OBVIOUS
<1>1. SendingTypeOK
  <2>1. stream \in Seq(Call) /\ 0 \in 0 .. MaxCalls /\ 0 \in 0 .. HeaderSize + PayloadSize
    BY DEF SendingInit
  <2> QED BY <2>1 DEF SendingInit, SendingTypeOK
<1>2. MainInv
  BY DEF SendingInit, MainInv, Sender
<1>3. CallInv /\ OneSends /\ LastIsSent /\ Contiguous
  BY DEF SendingInit, CallInv, OneSends, LastIsSent, Contiguous
<1> QED BY <1>1, <1>2, <1>3 DEF SendInv

(* A call of sendPacket: its number is new *)
LEMMA CallStep ==
  ASSUME SendInv, NEW t \in Sender, NEW size \in 0 .. HeaderSize + PayloadSize,
         sendPacket(t, size), UNCHANGED <<created, closed, ended>>,
         \/ UNCHANGED main /\ (t = MAIN => main = "menu")
                           /\ (t \in Thread => created)
         \/ main = "connected" /\ main' = "login" /\ t = MAIN
  PROVE  SendInv'
<1>1. SendingTypeOK'
  BY DEF SendInv, SendingTypeOK, sendPacket, Call
<1>2. MainInv'
  BY DEF SendInv, SendingTypeOK, MainInv, sendPacket, Sender
<1>3. /\ calls \in Nat /\ MaxCalls \in Nat /\ calls + 1 \in Call
      /\ pc' = [pc EXCEPT ![t] = "wait"] /\ packet' = [packet EXCEPT ![t] = calls + 1]
      /\ pc \in [Sender -> {"idle", "wait", "send"}]
      /\ packet \in [Sender -> 0 .. MaxCalls]
      /\ calls' = calls + 1 /\ UNCHANGED <<stream, owner, created, early>>
      /\ stream \in Seq(Call) /\ pc[t] = "idle"
  BY DEF SendInv, SendingTypeOK, sendPacket, Call
<1>4. \A i \in DOMAIN stream : stream[i] \in Nat /\ stream[i] <= calls
  BY <1>3 DEF SendInv, CallInv, Call
<1>5. CallInv'
  <2>1. \A i \in DOMAIN stream' : stream'[i] <= calls' /\ stream'[i] # calls + 1
    BY <1>3, <1>4
  <2>2. \A u \in Sender : pc'[u] # "idle" =>
          IF u = t THEN packet'[u] = calls + 1
                   ELSE packet'[u] = packet[u] /\ pc[u] = pc'[u]
                        /\ packet[u] \in Call /\ packet[u] <= calls
    BY <1>3 DEF SendInv, CallInv
  <2>3. \A u \in Sender : pc'[u] # "idle" => packet'[u] \in Call /\ packet'[u] <= calls'
    BY <1>3, <2>2 DEF Call
  <2>4. \A u, v \in Sender :
          pc'[u] # "idle" /\ pc'[v] # "idle" /\ packet'[u] = packet'[v] => u = v
    BY <1>3, <2>2 DEF SendInv, CallInv, Call
  <2>5. \A u \in Sender : pc'[u] = "wait" =>
          \A i \in DOMAIN stream' : stream'[i] # packet'[u]
    BY <1>3, <2>1, <2>2 DEF SendInv, CallInv
  <2> QED BY <2>1, <2>3, <2>4, <2>5 DEF CallInv
<1>6. ASSUME ~early' PROVE (OneSends /\ LastIsSent /\ Contiguous)'
  <2>1. \A u \in Sender : pc'[u] = "send" =>
          pc[u] = "send" /\ packet'[u] = packet[u]
    BY <1>3
  <2> QED BY <1>3, <1>6, <2>1 DEF SendInv, OneSends, LastIsSent, Contiguous
<1> QED BY <1>1, <1>2, <1>5, <1>6 DEF SendInv

(* The mutex is had, or it is the login that goes out without it *)
LEMMA WaitStep ==
  ASSUME SendInv, NEW t \in Sender, Wait(t)
  PROVE  SendInv'
<1>1. SendingTypeOK'
  BY DEF SendInv, SendingTypeOK, Wait, mainVars
<1>2. MainInv'
  BY DEF SendInv, SendingTypeOK, MainInv, Wait, mainVars, Sender
<1>3. CallInv'
  BY DEF SendInv, SendingTypeOK, CallInv, Wait
<1>4. ASSUME ~early' PROVE (OneSends /\ LastIsSent /\ Contiguous)'
  <2>1. ~early /\ (created \/ t # SOCKET) /\ UNCHANGED <<stream, packet, created>>
    BY <1>4 DEF Wait, mainVars
  <2>2. pc \in [Sender -> {"idle", "wait", "send"}] /\ pc[t] = "wait"
        /\ pc' = [pc EXCEPT ![t] = "send"]
    BY DEF SendInv, SendingTypeOK, Wait
  <2>3. OneSends'
    <3>1. CASE created
      <4>1. owner = NOBODY /\ owner' = t
        BY <3>1 DEF Wait
      <4>2. \A u \in Sender : pc[u] # "send"
        BY <2>1, <3>1, <4>1 DEF SendInv, OneSends
      <4> QED BY <2>1, <2>2, <3>1, <4>1, <4>2 DEF OneSends
    <3>2. CASE ~created
      <4>1. t = MAIN
        BY <2>1, <2>2, <3>2 DEF SendInv, MainInv, Sender
      <4> QED BY <2>1, <2>2, <3>2, <4>1 DEF SendInv, OneSends, Wait
    <3> QED BY <3>1, <3>2
  <2>4. LastIsSent'
    BY <2>1, <2>2 DEF SendInv, CallInv, LastIsSent
  <2> QED BY <2>1, <2>3, <2>4 DEF SendInv, Contiguous
<1> QED BY <1>1, <1>2, <1>3, <1>4 DEF SendInv

(* A byte of the packet of the only thread that sends *)
LEMMA SendStep ==
  ASSUME SendInv, NEW t \in Sender, Send(t)
  PROVE  SendInv'
<1> DEFINE p == packet[t]
<1>1. /\ p \in Call /\ stream \in Seq(Call) /\ stream' = Append(stream, p)
      /\ pc[t] = "send" /\ UNCHANGED <<pc, packet, calls, owner, created, early>>
      /\ p <= calls
  BY DEF SendInv, SendingTypeOK, CallInv, Send, mainVars
<1> HIDE DEF p
<1>2. /\ stream' \in Seq(Call)
      /\ Len(stream') = Len(stream) + 1 /\ Len(stream) \in Nat
      /\ DOMAIN stream = 1 .. Len(stream)
      /\ DOMAIN stream' = 1 .. Len(stream) + 1
      /\ \A i \in DOMAIN stream : stream'[i] = stream[i]
      /\ stream'[Len(stream) + 1] = p
  BY <1>1, OneByteMore
<1>3. SendingTypeOK'
  BY <1>2 DEF SendInv, SendingTypeOK, Send, mainVars
<1>4. MainInv'
  BY DEF SendInv, MainInv, Send, mainVars
<1>5. CallInv'
  <2>1. \A i \in DOMAIN stream' : stream'[i] <= calls'
    BY <1>1, <1>2 DEF SendInv, CallInv
  <2>2. \A u \in Sender : pc[u] = "wait" => packet[u] # p
    BY <1>1 DEF SendInv, CallInv, p
  <2>3. \A u \in Sender : pc'[u] = "wait" =>
          \A i \in DOMAIN stream' : stream'[i] # packet'[u]
    BY <1>1, <1>2, <2>2 DEF SendInv, CallInv
  <2> QED BY <1>1, <2>1, <2>3 DEF SendInv, CallInv
<1>6. ASSUME ~early' PROVE (OneSends /\ LastIsSent /\ Contiguous)'
  <2>1. ~early /\ OneSends /\ LastIsSent /\ Contiguous
    BY <1>1, <1>6 DEF SendInv
  <2>2. \A u \in Sender : pc[u] = "send" => u = t
    BY <1>1, <2>1 DEF OneSends
  <2>3. LastIsSent'
    BY <1>1, <1>2, <2>2 DEF LastIsSent, p
  <2>4. Contiguous'
    <3> SUFFICES ASSUME NEW i \in DOMAIN stream', NEW k \in DOMAIN stream',
                        stream'[i] = stream'[k],
                        NEW j \in DOMAIN stream', i <= j, j <= k
                 PROVE  stream'[j] = stream'[i]
      BY DEF Contiguous
    <3>1. CASE k \in DOMAIN stream
      BY <1>2, <2>1, <3>1 DEF Contiguous
    <3>2. CASE k = Len(stream) + 1 /\ i \in DOMAIN stream /\ j \in DOMAIN stream
      <4>1. stream[i] = p
        BY <1>2, <3>2
      <4>2. stream[Len(stream)] = p /\ Len(stream) \in DOMAIN stream
        BY <1>1, <1>2, <2>1, <3>2, <4>1 DEF LastIsSent, p
      <4>3. stream[j] = stream[i]
        BY <1>2, <2>1, <3>2, <4>1, <4>2 DEF Contiguous
      <4> QED BY <1>2, <3>2, <4>3
    <3>3. CASE j = Len(stream) + 1
      BY <1>2, <3>3
    <3> QED BY <1>2, <3>1, <3>2, <3>3
  <2> QED BY <1>1, <2>1, <2>3, <2>4 DEF OneSends
<1> QED BY <1>3, <1>4, <1>5, <1>6 DEF SendInv

LEMMA ReleaseStep ==
  ASSUME SendInv, NEW t \in Sender, Release(t)
  PROVE  SendInv'
<1>1. SendingTypeOK'
  BY DEF SendInv, SendingTypeOK, Release, mainVars
<1>2. MainInv'
  BY DEF SendInv, SendingTypeOK, MainInv, Release, mainVars, Sender
<1>3. \A u \in Sender : pc'[u] # "idle" => pc'[u] = pc[u] /\ u # t
  BY DEF SendInv, SendingTypeOK, Release
<1>4. CallInv'
  BY <1>3 DEF SendInv, CallInv, Release
<1>5. ASSUME ~early' PROVE (OneSends /\ LastIsSent /\ Contiguous)'
  BY <1>3, <1>5 DEF SendInv, OneSends, LastIsSent, Contiguous, Release, mainVars
<1> QED BY <1>1, <1>2, <1>4, <1>5 DEF SendInv

(* What main() does between its calls of sendPacket *)
LEMMA MainStep ==
  ASSUME SendInv,
         \/ LoggedIn \/ NotLoggedIn \/ CreateMutex \/ Quit \/ ConnectionLost \/ Exit
         \/ \E t \in Sender : SendFails(t)
  PROVE  SendInv'
<1>1. UNCHANGED <<stream, calls, pc, packet, left, owner, early>>
  BY DEF LoggedIn, NotLoggedIn, CreateMutex, Quit,
         ConnectionLost, Exit, SendFails
<1>2. SendingTypeOK'
  BY DEF SendInv, SendingTypeOK, LoggedIn, NotLoggedIn, CreateMutex, Quit,
         ConnectionLost, Exit, SendFails
<1>3. MainInv'
  BY DEF SendInv, MainInv, SendingTypeOK, LoggedIn, NotLoggedIn, CreateMutex, Quit,
         ConnectionLost, Exit, SendFails
<1>4. CallInv'
  BY <1>1 DEF SendInv, CallInv
<1>5. ASSUME ~early' PROVE (OneSends /\ LastIsSent /\ Contiguous)'
  <2>1. ~early /\ OneSends /\ LastIsSent /\ Contiguous
    BY <1>1, <1>5 DEF SendInv
  <2>2. CASE CreateMutex
    BY <1>1, <2>1, <2>2 DEF SendInv, MainInv, CreateMutex, OneSends, LastIsSent,
                            Contiguous
  <2>3. CASE UNCHANGED created
    BY <1>1, <2>1, <2>3 DEF OneSends, LastIsSent, Contiguous
  <2> QED BY <2>2, <2>3 DEF LoggedIn, NotLoggedIn, Quit,
                                 ConnectionLost, Exit, SendFails
<1> QED BY <1>2, <1>3, <1>4, <1>5 DEF SendInv

LEMMA SendCorrect == SendingSpec => []SendInv
<1>1. SendInv /\ [SendingNext]_sendVars => SendInv'
  <2> SUFFICES ASSUME SendInv, [SendingNext]_sendVars PROVE SendInv'
    OBVIOUS
  <2> USE DEF mainVars
  <2>0. {MAIN, SOCKET} \subseteq Sender /\ Thread \subseteq Sender
        /\ Request \in 0 .. HeaderSize + PayloadSize
        /\ HeaderSize \in 0 .. HeaderSize + PayloadSize
    BY DEF Sender, Request
  <2>1. CASE logIn
    BY <2>0, <2>1, CallStep DEF logIn
  <2>2. CASE createChat
    BY <2>0, <2>2, CallStep DEF createChat
  <2>3. CASE AnswerDelivery
    BY <2>0, <2>3, CallStep DEF AnswerDelivery
  <2>4. ASSUME NEW t \in Thread, sendMessageThread(t) PROVE SendInv'
    <3>1. created /\ t # MAIN
      BY <2>4 DEF sendMessageThread, SendInv, MainInv
    <3> QED BY <2>0, <2>4, <3>1, CallStep DEF sendMessageThread
  <2>5. ASSUME NEW t \in Sender, Sending(t) PROVE SendInv'
    BY <2>5, WaitStep, SendStep, ReleaseStep, MainStep DEF Sending
  <2>6. CASE LoggedIn \/ NotLoggedIn \/ CreateMutex \/ Quit \/ ConnectionLost \/ Exit
    BY <2>6, MainStep
  <2>7. CASE UNCHANGED sendVars
    BY <2>7 DEF sendVars, SendInv, SendingTypeOK, MainInv, CallInv, OneSends,
                LastIsSent, Contiguous
  <2> QED BY <2>1, <2>2, <2>3, <2>4, <2>5, <2>6, <2>7 DEF SendingNext
<1> QED BY <1>1, InitSend, PTL DEF SendingSpec

(* The types of the threads' places, packets and bytes left to send        *)
(* (packet.c:81-123).                                                      *)
THEOREM SendingTypes == SendingSpec => []SendingTypeOK
<1>1. SendInv => SendingTypeOK
  BY DEF SendInv
<1> QED BY <1>1, SendCorrect, PTL

(* Unless a delivery has been answered before the mutex existed, packets   *)
(* are not mixed in the stream, whatever threads send (packet.c:87,        *)
(* client.c:89).                                                           *)
THEOREM PacketsAreWhole == SendingSpec => []PacketsWhole
<1>1. SendInv => PacketsWhole
  BY DEF SendInv, PacketsWhole
<1> QED BY <1>1, SendCorrect, PTL

-----------------------------------------------------------------------------
(* The stream of packets *)

(* What is left of a packet that nobody has begun to send is all of it *)
LengthInv ==
  \A t \in Sender : pc[t] = "wait" => left[t] \in {HeaderSize, Request}

(* sendPacket begins with a header, with or without the payload of a       *)
(* request.                                                                *)
LEMMA LengthStep ==
  SendingTypeOK /\ LengthInv /\ [SendingNext]_sendVars => LengthInv'
<1> SUFFICES ASSUME SendingTypeOK, LengthInv, [SendingNext]_sendVars
             PROVE  LengthInv'
  OBVIOUS
<1>1. /\ pc \in [Sender -> {"idle", "wait", "send"}]
      /\ left \in [Sender -> 0 .. HeaderSize + PayloadSize]
  BY DEF SendingTypeOK
<1>2. ASSUME NEW t \in Sender, NEW size \in {HeaderSize, Request}, sendPacket(t, size)
      PROVE  LengthInv'
  BY <1>1, <1>2 DEF sendPacket, LengthInv
<1>3. CASE UNCHANGED <<pc, left>>
  BY <1>3 DEF LengthInv
<1>4. CASE logIn \/ createChat \/ AnswerDelivery \/ \E t \in Thread : sendMessageThread(t)
  BY <1>2, <1>4 DEF logIn, createChat, AnswerDelivery, sendMessageThread, Sender
<1>5. ASSUME NEW t \in Sender, Wait(t) \/ Send(t) \/ Release(t)
      PROVE  LengthInv'
  BY <1>1, <1>5 DEF Wait, Send, Release, LengthInv
<1>6. CASE \/ LoggedIn \/ NotLoggedIn \/ CreateMutex \/ Quit \/ ConnectionLost
           \/ Exit \/ (\E t \in Sender : SendFails(t)) \/ UNCHANGED sendVars
  BY <1>3, <1>6 DEF LoggedIn, NotLoggedIn, CreateMutex, Quit, ConnectionLost,
                    Exit, SendFails, sendVars
<1> QED BY <1>4, <1>5, <1>6 DEF SendingNext, Sending

(* What is completed when nobody sends, and when one thread does *)
CompletedIs ==
  /\ (\A t \in Sender : ~Sends(t)) => completed = stream
  /\ \A t \in Sender :
       Sends(t) /\ (\A u \in Sender : Sends(u) => u = t) =>
         completed = stream \o Appended!Bytes(packet[t], left[t])

LEMMA CompletedStream == CompletedIs
<1> USE DEF CompletedIs, Appended!Bytes
<1>1. ASSUME \A t \in Sender : ~Sends(t)
      PROVE  completed = stream
  BY <1>1 DEF completed
<1>2. ASSUME NEW t \in Sender, Sends(t), \A u \in Sender : Sends(u) => u = t
      PROVE  completed = stream \o Appended!Bytes(packet[t], left[t])
  <2>1. (CHOOSE u \in Sender : Sends(u)) = t
    BY <1>2
  <2> QED BY <1>2, <2>1 DEF completed
<1> QED BY <1>1, <1>2

(* The bytes of a packet, one of which is sent *)
LEMMA ByteSent ==
  ASSUME NEW T, NEW s \in Seq(T), NEW p \in T, NEW n \in Nat \ {0}
  PROVE  s \o Appended!Bytes(p, n) = Append(s, p) \o Appended!Bytes(p, n - 1)
<1> DEFINE a == Appended!Bytes(p, n)
           b == Appended!Bytes(p, n - 1)
<1> USE DEF Appended!Bytes
<1>1. a \in Seq(T) /\ Len(a) = n
  OBVIOUS
<1>2. b \in Seq(T) /\ Len(b) = n - 1
  OBVIOUS
<1>3. /\ Append(s, p) \in Seq(T) /\ Len(Append(s, p)) = Len(s) + 1
      /\ \A i \in 1 .. Len(s) : Append(s, p)[i] = s[i]
      /\ Append(s, p)[Len(s) + 1] = p
  BY AppendProperties
<1>4. /\ s \o a \in Seq(T) /\ Len(s \o a) = Len(s) + n
      /\ \A i \in 1 .. Len(s) + n :
           (s \o a)[i] = IF i <= Len(s) THEN s[i] ELSE p
  <2>1. /\ s \o a \in Seq(T) /\ Len(s \o a) = Len(s) + Len(a)
        /\ \A i \in 1 .. Len(s) + Len(a) :
             (s \o a)[i] = IF i <= Len(s) THEN s[i] ELSE a[i - Len(s)]
    BY <1>1, ConcatProperties
  <2> QED BY <1>1, <2>1
<1>5. /\ Append(s, p) \o b \in Seq(T)
      /\ Len(Append(s, p) \o b) = Len(s) + n
      /\ \A i \in 1 .. Len(s) + n :
           (Append(s, p) \o b)[i] = IF i <= Len(s) THEN s[i] ELSE p
  <2> DEFINE c == Append(s, p)
  <2> HIDE DEF c
  <2>1. c \in Seq(T) /\ Len(c) = Len(s) + 1
    BY <1>3 DEF c
  <2>2. /\ c \o b \in Seq(T) /\ Len(c \o b) = Len(c) + Len(b)
        /\ \A i \in 1 .. Len(c) + Len(b) :
             (c \o b)[i] = IF i <= Len(c) THEN c[i] ELSE b[i - Len(c)]
    BY <1>2, <2>1, ConcatProperties
  <2>3. /\ \A i \in 1 .. Len(s) : c[i] = s[i]
        /\ c[Len(s) + 1] = p
    BY <1>3 DEF c
  <2>4. Len(c) + Len(b) = Len(s) + n
    BY <1>2, <2>1
  <2>5. \A i \in 1 .. Len(s) + n : (c \o b)[i] = IF i <= Len(s) THEN s[i] ELSE p
    BY <1>2, <2>1, <2>2, <2>3, <2>4
  <2> QED BY <2>2, <2>4, <2>5 DEF c
<1> HIDE DEF a, b
<1>6. s \o a = Append(s, p) \o b
  <2>1. \A i \in 1 .. Len(s \o a) : (s \o a)[i] = (Append(s, p) \o b)[i]
    BY <1>4, <1>5
  <2> QED BY <1>4, <1>5, <2>1, SeqEqual
<1> QED BY <1>6 DEF a, b

LEMMA CompletedNext == CompletedIs'
BY CompletedStream, PTL

(* One thread sends at most, before and after *)
LEMMA OneSender ==
  ASSUME SendInv, ~early
  PROVE  \A t, u \in Sender : Sends(t) /\ Sends(u) => t = u
BY DEF SendInv, OneSends, Sends

(* A step that lets a thread in appends the packet of the thread *)
LEMMA WaitAppends ==
  ASSUME SendInv, SendInv', LengthInv, ~early', NEW t \in Sender, Wait(t)
  PROVE  \E p \in Call, n \in {HeaderSize, Request} : Appended!AppendPacket(p, n)
<1>1. /\ pc[t] = "wait" /\ pc' = [pc EXCEPT ![t] = "send"] /\ ~early
      /\ pc \in [Sender -> {"idle", "wait", "send"}]
      /\ UNCHANGED <<stream, packet, left, created, early>>
      /\ IF created THEN owner = NOBODY ELSE t = MAIN \/ early'
  BY DEF Wait, SendInv, SendingTypeOK, MainInv, mainVars, Sender
<1>2. \A u \in Sender : ~Sends(u)
  BY <1>1 DEF SendInv, OneSends, Sends
<1>3. \A u \in Sender : Sends(u)' <=> u = t
  BY <1>1, <1>2 DEF Sends
<1>4. completed = stream
  BY <1>2, CompletedStream DEF CompletedIs
<1>5. completed' = stream \o Appended!Bytes(packet[t], left[t])
  BY <1>1, <1>3, CompletedNext DEF CompletedIs
<1>6. /\ packet[t] \in Call /\ \A i \in DOMAIN stream : stream[i] # packet[t]
      /\ left[t] \in {HeaderSize, Request}
  BY <1>1 DEF SendInv, CallInv, LengthInv
<1>7. Appended!AppendPacket(packet[t], left[t])
  BY <1>1, <1>4, <1>5, <1>6 DEF Appended!AppendPacket
<1> QED BY <1>6, <1>7

(* A byte that is sent was already taken to be in the stream *)
LEMMA SendCompletes ==
  ASSUME SendInv, SendInv', ~early', NEW t \in Sender, Send(t)
  PROVE  completed' = completed /\ early' = early
<1>1. /\ pc[t] = "send" /\ pc' = pc /\ packet' = packet /\ early' = early
      /\ stream' = Append(stream, packet[t]) /\ left' = [left EXCEPT ![t] = @ - 1]
      /\ stream \in Seq(Call) /\ packet[t] \in Call /\ left[t] \in Nat \ {0}
      /\ left'[t] = left[t] - 1
  BY DEF Send, SendInv, SendingTypeOK, CallInv
<1>2. \A u \in Sender : Sends(u) <=> u = t
  BY <1>1, OneSender DEF Sends
<1>3. \A u \in Sender : Sends(u)' <=> u = t
  BY <1>1, <1>2 DEF Sends
<1>4. completed = stream \o Appended!Bytes(packet[t], left[t])
  BY <1>2, CompletedStream DEF CompletedIs
<1>5. completed' = stream' \o Appended!Bytes(packet'[t], left'[t])
  BY <1>3, CompletedNext DEF CompletedIs
<1>6. stream \o Appended!Bytes(packet[t], left[t])
        = Append(stream, packet[t]) \o Appended!Bytes(packet[t], left[t] - 1)
  <2>1. /\ stream \in Seq(Call) /\ packet[t] \in Call /\ left[t] \in Nat \ {0}
    BY <1>1
  <2>2. \A s \in Seq(Call), p \in Call, n \in Nat \ {0} :
          s \o Appended!Bytes(p, n) = Append(s, p) \o Appended!Bytes(p, n - 1)
    BY ByteSent, Zenon
  <2> QED BY <2>1, <2>2, Zenon
<1> QED BY <1>1, <1>4, <1>5, <1>6

(* The mutex is given back when nothing is left of the packet *)
LEMMA ReleaseCompletes ==
  ASSUME SendInv, SendInv', ~early', NEW t \in Sender, Release(t)
  PROVE  completed' = completed /\ early' = early
<1>1. /\ pc[t] = "send" /\ pc' = [pc EXCEPT ![t] = "idle"] /\ left[t] = 0
      /\ pc \in [Sender -> {"idle", "wait", "send"}]
      /\ UNCHANGED <<stream, early>> /\ stream \in Seq(Call)
  BY DEF Release, SendInv, SendingTypeOK
<1>2. \A u \in Sender : Sends(u) <=> u = t
  BY <1>1, OneSender DEF Sends
<1>3. \A u \in Sender : ~Sends(u)'
  BY <1>1, <1>2 DEF Sends
<1>4. completed = stream \o Appended!Bytes(packet[t], left[t])
  BY <1>2, CompletedStream DEF CompletedIs
<1>5. Appended!Bytes(packet[t], left[t]) = <<>>
  BY <1>1 DEF Appended!Bytes
<1>6. stream \o <<>> = stream
  BY <1>1, ConcatEmptySeq
<1>7. completed' = stream'
  BY <1>3, CompletedNext DEF CompletedIs
<1> QED BY <1>1, <1>4, <1>5, <1>6, <1>7

(* Whoever does not send leaves the stream and the packet being sent alone *)
LEMMA OthersComplete ==
  ASSUME SendInv, SendInv', ~early, stream' = stream,
         \A u \in Sender : Sends(u)' <=> Sends(u),
         \A u \in Sender : Sends(u) => left'[u] = left[u] /\ packet'[u] = packet[u]
  PROVE  completed' = completed
<1>1. CASE \A u \in Sender : ~Sends(u)
  BY <1>1, CompletedStream, CompletedNext DEF CompletedIs
<1>2. ASSUME NEW t \in Sender, Sends(t)
      PROVE  completed' = completed
  <2>1. \A u \in Sender : Sends(u) <=> u = t
    BY <1>2, OneSender
  <2>2. completed = stream \o Appended!Bytes(packet[t], left[t])
    BY <2>1, CompletedStream DEF CompletedIs
  <2>3. completed' = stream' \o Appended!Bytes(packet'[t], left'[t])
    BY <2>1, CompletedNext DEF CompletedIs
  <2> QED BY <1>2, <2>2, <2>3
<1> QED BY <1>1, <1>2

(* Every step appends one packet, changes nothing that is seen from        *)
(* outside, or comes after the promise was broken.                         *)
LEMMA AppendedStep ==
  SendInv /\ SendInv' /\ LengthInv /\ [SendingNext]_sendVars =>
    [Appended!StreamNext]_<<completed, early>>
<1> SUFFICES ASSUME SendInv, SendInv', LengthInv, [SendingNext]_sendVars
             PROVE  Appended!StreamNext \/ UNCHANGED <<completed, early>>
  OBVIOUS
<1>1. CASE early'
  BY <1>1 DEF Appended!StreamNext, Appended!Break
<1>2. CASE ~early'
  <2>1. ~early
    BY <1>2 DEF SendingNext, logIn, createChat, AnswerDelivery, sendMessageThread,
       LoggedIn, NotLoggedIn, CreateMutex, Quit, ConnectionLost, Exit, SendFails,
       Sending, sendPacket, Wait, Send, Release, sendVars
  <2>2. ASSUME NEW t \in Sender, Wait(t)
        PROVE  Appended!StreamNext
    BY <1>2, <2>2, WaitAppends DEF Appended!StreamNext
  <2>3. ASSUME NEW t \in Sender, Send(t) \/ Release(t)
        PROVE  UNCHANGED <<completed, early>>
    BY <1>2, <2>3, SendCompletes, ReleaseCompletes
  <2>4. ASSUME NEW t \in Sender, NEW size, sendPacket(t, size)
        PROVE  UNCHANGED <<completed, early>>
    <3>1. /\ pc[t] = "idle" /\ pc' = [pc EXCEPT ![t] = "wait"]
          /\ \A u \in Sender : u # t => left'[u] = left[u] /\ packet'[u] = packet[u]
          /\ pc \in [Sender -> {"idle", "wait", "send"}]
          /\ UNCHANGED <<stream, early>>
      BY <2>4 DEF sendPacket, SendInv, SendingTypeOK
    <3>2. \A u \in Sender : Sends(u)' <=> Sends(u)
      BY <3>1 DEF Sends
    <3>3. \A u \in Sender : Sends(u) => left'[u] = left[u] /\ packet'[u] = packet[u]
      BY <3>1 DEF Sends
    <3> QED BY <2>1, <3>1, <3>2, <3>3, OthersComplete
  <2>5. CASE logIn \/ createChat \/ AnswerDelivery \/ \E t \in Thread : sendMessageThread(t)
    BY <2>4, <2>5 DEF logIn, createChat, AnswerDelivery, sendMessageThread, Sender
  <2>6. CASE \/ LoggedIn \/ NotLoggedIn \/ CreateMutex \/ Quit \/ ConnectionLost
             \/ Exit \/ (\E t \in Sender : SendFails(t)) \/ UNCHANGED sendVars
    <3>1. UNCHANGED <<stream, pc, packet, left, early>>
      BY <2>6 DEF LoggedIn, NotLoggedIn, CreateMutex, Quit, ConnectionLost,
                  Exit, SendFails, sendVars
    <3>2. \A u \in Sender : Sends(u)' <=> Sends(u)
      BY <3>1 DEF Sends
    <3> QED BY <2>1, <3>1, <3>2, OthersComplete
  <2> QED BY <2>2, <2>3, <2>5, <2>6 DEF SendingNext, Sending
<1> QED BY <1>1, <1>2

(* Sending byte by byte, from any number of threads, implements appending  *)
(* whole packets one at a time: what the other modules take sendPacket     *)
(* for (packet.c:81-123).                                                  *)
THEOREM SendingAppends == SendingSpec => PacketsAppended
<1>1. SendingInit => Appended!StreamInit /\ LengthInv
  <2> SUFFICES ASSUME SendingInit PROVE Appended!StreamInit /\ LengthInv
    OBVIOUS
  <2>1. \A t \in Sender : ~Sends(t)
    BY DEF SendingInit, Sends
  <2>2. completed = stream
    BY <2>1, CompletedStream DEF CompletedIs
  <2> QED BY <2>2 DEF SendingInit, Appended!StreamInit, LengthInv
<1>2. SendInv /\ LengthInv /\ [SendingNext]_sendVars => LengthInv'
  BY LengthStep DEF SendInv
<1>3. SendInv /\ SendInv' /\ LengthInv /\ [SendingNext]_sendVars =>
        [Appended!StreamNext]_<<completed, early>>
  BY AppendedStep
<1> QED BY <1>1, <1>2, <1>3, SendCorrect, PTL
        DEF SendingSpec, PacketsAppended, Appended!StreamSpec
=============================================================================
