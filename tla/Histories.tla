------------------------------ MODULE Histories ------------------------------
(***************************************************************************)
(* The contacts and the chat histories of one client                       *)
(* (client/contactsManager.c): linked lists without a lock, to which the   *)
(* main thread and the socket thread both add.  An addition is the steps   *)
(* its thread takes, with the other threads between them.                  *)
(*                                                                         *)
(* A contact is known by its node, a message by the number of its call of  *)
(* addMessage.  `raced' is a history variable: the data races there have   *)
(* been, after which the lists may be anything their steps make of them.   *)
(***************************************************************************)
EXTENDS Integers, SequencesExt

CONSTANTS
  Contact,       (* the contacts there may be                              *)
  Known,         (* the contacts at the start, newest first                *)
  MaxMessages,   (* bound on the calls of addMessage                       *)
  NULL

ASSUME HistoriesAssumption ==
  /\ IsFiniteSet(Contact)
  /\ Known \in Seq(Contact)
  /\ MaxMessages \in Nat
  /\ NULL \notin Contact

VARIABLES
  contacts,      (* the list of contacts, newest first                     *)
  after,         (* what follows a contact in the list (contact->next)     *)
  contactCount,  (* appData.contactCount                                   *)
  history,       (* contact->chatHistory: the list from head on            *)
  messages,      (* contact->chatHistory.messages                          *)
  calls,         (* how often addMessage has been called                   *)
  state,         (* message->state; "raw": the node is not filled yet      *)
  messageEvent,  (* appData.messageEvent, an auto-reset event              *)
  adder,         (* what the main and the socket thread are adding         *)
  raced          (* "add": two threads have added to one list at a time;   *)
                 (* "read": a node has been read before it was filled      *)

historyVars == <<contacts, after, contactCount, history, messages, calls,
                 state, messageEvent, adder, raced>>

Adder == {"main", "socket"}
Message == 1 .. MaxMessages
MessageState == {"PENDING", "SUCCESS", "FAILED"}

(* Where a node stands in a list *)
Place(list, node) == CHOOSE i \in DOMAIN list : list[i] = node

(* The next step of the thread, the contact, the message and its state,    *)
(* and how many nodes of the list it has walked                            *)
Addition ==
  [at : {"idle", "next", "contacts", "counted", "find", "link", "fill",
         "count", "event"},
   contact : Contact \cup {NULL}, message : 0 .. MaxMessages,
   state : MessageState, last : Nat]

Idle == [at |-> "idle", contact |-> NULL, message |-> 0, state |-> "PENDING",
         last |-> 0]

HistoriesTypeOK ==
  /\ contacts \in Seq(Contact)
  /\ after \in [Contact -> Seq(Contact)]
  /\ contactCount \in Nat
  /\ history \in [Contact -> Seq(Message)]
  /\ messages \in [Contact -> Nat]
  /\ calls \in 0 .. MaxMessages
  /\ state \in [Message -> MessageState \cup {"raw"}]
  /\ messageEvent \in BOOLEAN
  /\ adder \in [Adder -> Addition]
  /\ raced \in SUBSET {"add", "read"}

HistoriesInit ==
  /\ contacts = Known
  /\ after = [c \in Contact |->
                IF c \in ToSet(Known)
                  THEN SubSeq(Known, Place(Known, c) + 1, Len(Known))
                  ELSE <<>>]
  /\ contactCount = Len(Known)
  /\ history = [c \in Contact |-> <<>>]
  /\ messages = [c \in Contact |-> 0]
  /\ calls = 0
  /\ state = [m \in Message |-> "raw"]
  /\ messageEvent = FALSE
  /\ adder = [a \in Adder |-> Idle]
  /\ raced = {}

(* The list that starts at a contact *)
From(c) == IF c = NULL THEN <<>> ELSE <<c>> \o after[c]

(* Nodes that can be created: nobody has them yet *)
Fresh == {c \in Contact : /\ c \notin ToSet(contacts) /\ history[c] = <<>>
                          /\ \A a \in Adder : adder[a].contact # c}

-----------------------------------------------------------------------------
SetEvent == messageEvent' = TRUE

at(a) == adder[a].at
Goto(a, place) == adder' = [adder EXCEPT ![a].at = place]

(* createContact.  The socket thread goes on to add the message for which  *)
(* it creates the contact.                                                 *)
SetNext(a) ==
  /\ at(a) = "next"
  /\ after' = [after EXCEPT ![adder[a].contact] = contacts]
  /\ Goto(a, "contacts")
  /\ UNCHANGED <<contacts, contactCount, history, messages, calls, state,
                 messageEvent, raced>>

SetContacts(a) ==
  /\ at(a) = "contacts"
  /\ contacts' = From(adder[a].contact)
  /\ raced' = IF after[adder[a].contact] = contacts THEN raced
                                                    ELSE raced \cup {"add"}
  /\ Goto(a, "counted")
  /\ UNCHANGED <<after, contactCount, history, messages, calls, state,
                 messageEvent>>

CountContact(a) ==
  /\ at(a) = "counted"
  /\ contactCount' = contactCount + 1
  /\ adder' = [adder EXCEPT ![a] = IF a = "main" THEN Idle
                                                 ELSE [@ EXCEPT !.at = "find"]]
  /\ UNCHANGED <<contacts, after, history, messages, calls, state,
                 messageEvent, raced>>

createContact(a) == SetNext(a) \/ SetContacts(a) \/ CountContact(a)

-----------------------------------------------------------------------------
(* addMessage *)
target(a) == history[adder[a].contact]

(* The walk to the last node, whose `next' is not set while it is raw *)
FindLast(a) ==
  /\ at(a) = "find"
  /\ adder' = [adder EXCEPT ![a].at = "link", ![a].last = Len(target(a))]
  /\ raced' = IF target(a) # <<>> /\ state[Last(target(a))] = "raw"
                THEN raced \cup {"add"} ELSE raced
  /\ UNCHANGED <<contacts, after, contactCount, history, messages, calls,
                 state, messageEvent>>

(* Fault: the node is linked before the others *)
LinkAsHead(a) ==
  /\ at(a) = "link"
  /\ history' = [history EXCEPT ![adder[a].contact] = <<adder[a].message>>]
  /\ Goto(a, "fill")
  /\ UNCHANGED <<contacts, after, contactCount, messages, calls, state,
                 messageEvent, raced>>

(* The new node replaces what another thread has linked there since, or    *)
(* hangs on a node that another thread has cut off                         *)
Link(a) ==
  /\ at(a) = "link"
  /\ history' = [history EXCEPT ![adder[a].contact] =
                   IF adder[a].last > Len(@) THEN @
                   ELSE Append(SubSeq(@, 1, adder[a].last), adder[a].message)]
  /\ raced' = IF Len(target(a)) = adder[a].last THEN raced
                                                ELSE raced \cup {"add"}
  /\ Goto(a, "fill")
  /\ UNCHANGED <<contacts, after, contactCount, messages, calls, state,
                 messageEvent>>

(* text, next, sender and state: the list ends at the new node *)
Fill(a) ==
  LET m == adder[a].message
  IN  /\ at(a) = "fill"
      /\ state' = [state EXCEPT ![m] = adder[a].state]
      /\ history' = [history EXCEPT ![adder[a].contact] =
                       IF Contains(@, m) THEN SubSeq(@, 1, Place(@, m)) ELSE @]
      /\ Goto(a, "count")
      /\ UNCHANGED <<contacts, after, contactCount, messages, calls,
                     messageEvent, raced>>

(* Fault: a message is counted when it is created and when it is stored *)
CountMessageTwice(a) ==
  /\ at(a) = "count"
  /\ messages' = [messages EXCEPT ![adder[a].contact] = @ + 2]
  /\ Goto(a, "event")
  /\ UNCHANGED <<contacts, after, contactCount, history, calls, state,
                 messageEvent, raced>>

CountMessage(a) ==
  /\ at(a) = "count"
  /\ messages' = [messages EXCEPT ![adder[a].contact] = @ + 1]
  /\ Goto(a, "event")
  /\ UNCHANGED <<contacts, after, contactCount, history, calls, state,
                 messageEvent, raced>>

MessageAdded(a) ==
  /\ at(a) = "event"
  /\ SetEvent
  /\ adder' = [adder EXCEPT ![a] = Idle]
  /\ UNCHANGED <<contacts, after, contactCount, history, messages, calls,
                 state, raced>>

addMessage(a) ==
  FindLast(a) \/ Link(a) \/ Fill(a) \/ CountMessage(a) \/ MessageAdded(a)

(* The call of addMessage, after createContact when the contact is new *)
Add(a, c, s, place) ==
  /\ at(a) = "idle"
  /\ calls < MaxMessages
  /\ calls' = calls + 1
  /\ adder' = [adder EXCEPT ![a] = [at |-> place, contact |-> c,
                 message |-> calls + 1, state |-> s, last |-> 0]]
  /\ UNCHANGED <<contacts, after, contactCount, history, messages, state,
                 messageEvent, raced>>

(* handleNewMessage: a delivery from a contact of the list, or a stranger *)
handleNewMessage ==
  \/ \E c \in ToSet(contacts) : Add("socket", c, "SUCCESS", "find")
  \/ \E c \in Fresh : Add("socket", c, "SUCCESS", "next")

(* createChat, once the server has granted it *)
createChat(c) ==
  /\ at("main") = "idle"
  /\ c \in Fresh
  /\ adder' = [adder EXCEPT !["main"] = [Idle EXCEPT !.at = "next", !.contact = c]]
  /\ UNCHANGED <<contacts, after, contactCount, history, messages, calls,
                 state, messageEvent, raced>>

-----------------------------------------------------------------------------
(* How many of the nodes of a history are linked and not yet counted *)
Uncounted(c) ==
  Cardinality({a \in Adder : adder[a].contact = c /\ at(a) \in {"fill", "count"}})

(* As long as no two threads add to a list at a time, every addition stays *)
(* in it and is counted, the latter after it has been linked, so that a    *)
(* count never exceeds its list (contactsManager.c:70-80 and :17-19).      *)
ListsCounted ==
  "add" \notin raced =>
    /\ \A c \in Contact : messages[c] + Uncounted(c) = Len(history[c])
    /\ contactCount + Cardinality({a \in Adder : at(a) = "counted"})
         = Len(contacts)
=============================================================================
