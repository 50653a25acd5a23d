----------------------------- MODULE MCRadikChat -----------------------------
(***************************************************************************)
(* Two clients.  ChatInit is the state after both have logged in and the   *)
(* first has created a chat with the second: runs that start there reach   *)
(* further into the exchange of messages.                                  *)
(***************************************************************************)
EXTENDS RadikChat

CONSTANTS
  c1, c2, n1, n2, t1, t2, t3,
  Chatters   (* the clients whose users create chats in ChatSpec *)

MCConn == {c1, c2}
MCNickname == {n1, n2}
MCText == {t1}
NoChatters == {}
OneChatter == {c2}
MCText2 == {t1, t2}
MCSymmetry == Permutations(MCConn) \cup Permutations(MCNickname)
MCText3 == {t1, t2, t3}
MCTextSymmetry == Permutations(Text)

own == (c1 :> n1) @@ (c2 :> n2)

ChatInit ==
  /\ peer = [c \in Conn |-> "up"]
  /\ backlog = <<>>
  /\ toServer = [c \in Conn |-> <<>>]
  /\ toClient = [c \in Conn |-> <<>>]
  /\ clients = <<c2, c1>>
  /\ nickname = [x \in Node |-> IF x \in Conn THEN own[x] ELSE NoName]
  /\ isLogined = [x \in Node |-> x \in Conn]
  /\ buffer = [x \in Node |-> <<>>]
  /\ fdMaster = Conn \cup {LISTEN}
  /\ fdReads = {c1}
  /\ pc = "select" /\ cursor = NULL /\ recipient = NULL /\ cycle = 0 /\ out = NULL
  /\ ui = [c \in Conn |-> "menu"]
  /\ wanted = [c \in Conn |-> IF c = c1 THEN n2 ELSE NoName]
  /\ contacts = [c \in Conn |-> IF c = c1 THEN createContact(<<>>, n2) ELSE <<>>]
  /\ typed = [c \in Conn |-> {}]
  /\ threads = [c \in Conn |-> {}]
  /\ pendingRequests = [c \in Conn |-> [i \in Id |-> NULL]]
  /\ readBuffer = [c \in Conn |-> <<>>]
  /\ rx = [c \in Conn |-> "recv"]
  /\ rxRequest = [c \in Conn |-> FREED]
  /\ misplaced = [c \in Conn |-> FALSE]

(* Users who write messages, and those of Chatters who also create chats; *)
(* nobody leaves.                                                         *)
ChatUser(c) ==
  \/ \E k \in DOMAIN contacts[c], t \in Text : sendMessage(c, k, t)
  \/ c \in Chatters /\ \E n \in Nickname : createChat(c, n)

ChatNext ==
  \/ ServerStep
  \/ /\ \E c \in Conn : ChatUser(c) \/ MainStep(c) \/ ThreadStep(c) \/ SocketStep(c)
     /\ UNCHANGED serverVars

ChatSpec == ChatInit /\ [][ChatNext]_systemVars

(* Users who take turns: nobody writes while a message is being sent.  The *)
(* headers of the answers to deliveries arrive whole.                      *)
TurnNext ==
  /\ ChatNext
  /\ cycle' = 0
  /\ typed' # typed => \A c \in Conn : threads[c] = {}

TurnSpec == ChatInit /\ [][TurnNext]_systemVars /\ Fairness
=============================================================================
