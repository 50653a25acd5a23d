---------------------------- MODULE ChatsProofs ----------------------------
(***************************************************************************)
(* What holds of the chats on the screen for any contacts, number of       *)
(* messages, height of the screen and limit of the semaphore.              *)
(***************************************************************************)
EXTENDS Chats, FiniteSetTheorems, SequenceTheorems, TLAPS

USE HistoriesAssumption, ConsoleAssumption, ChatsAssumption
USE DEF Adder, Message, MessageState, Printer

(***************************************************************************)
(* Types, with what the places of the threads imply of each other          *)
(***************************************************************************)
PrinterState == [at : {"none", "wait", "frame", "rows", "redraw"},
                 skip : Int, empty : BOOLEAN]

SenderPlace == {"none", "sent", "notice", "redraw", "failed", "event"}

ListTypes ==
  /\ contacts \in Seq(Contact)
  /\ after \in [Contact -> Seq(Contact)]
  /\ contactCount \in Nat
  /\ history \in [Contact -> Seq(Message)]
  /\ messages \in [Contact -> Nat]
  /\ calls \in 0 .. MaxMessages
  /\ state \in [Message -> MessageState \cup {"raw"}]

AdderTypes ==
  /\ adder \in [Adder -> Addition]
  /\ \A a \in Adder : at(a) # "idle" => adder[a].contact \in Contact
  /\ \A a \in Adder : at(a) \in {"find", "link", "fill", "count", "event"}
                        => adder[a].message \in Message
  /\ at("socket") # "idle" => adder["socket"].message \in Message

(* Where the main thread is, what its printer and its additions do *)
ScreenTypes ==
  /\ ui \in {"menu", "list", "keys", "open", "print", "chat", "send", "scroll",
             "scrolled", "clear", "redraw"}
  /\ then \in {"menu", "list", "keys"}
  /\ contact \in Contact \cup {NULL}
  /\ ui \in {"open", "print", "chat", "send", "scroll", "scrolled"}
       => contact \in Contact
  /\ startFrom \in Nat
  /\ printer \in [Printer -> PrinterState]
  /\ printer["main"].at \in {"frame", "rows", "redraw"} => ui = "print"
  /\ printer["main"].at # "wait"
  /\ printer["update"].at # "none" <=> ui \in {"chat", "send", "scroll", "scrolled"}
  /\ sender \in [Message -> SenderPlace]
  /\ consoleOutSemaphore \in Nat
  /\ ui = "send" <=> at("main") \in {"find", "link", "fill", "count", "event"}
  /\ at("main") \in {"next", "contacts", "counted"} => ui = "menu"

ChatsTypes == ListTypes /\ AdderTypes /\ ScreenTypes

(***************************************************************************)
(* Fields of records that are written                                      *)
(***************************************************************************)
LEMMA GotoFields ==
  ASSUME adder \in [Adder -> Addition], NEW a \in Adder,
         NEW place \in {"idle", "next", "contacts", "counted", "find", "link",
                        "fill", "count", "event"},
         adder' = [adder EXCEPT ![a].at = place]
  PROVE  /\ adder' \in [Adder -> Addition]
         /\ adder'[a].at = place /\ adder'[a].contact = adder[a].contact
         /\ adder'[a].message = adder[a].message /\ adder'[a].last = adder[a].last
         /\ adder'[a].state = adder[a].state
         /\ \A b \in Adder : b # a => adder'[b] = adder[b]
<1>1. adder[a] \in Addition /\ adder'[a] = [adder[a] EXCEPT !.at = place]
      /\ \A b \in Adder : b # a => adder'[b] = adder[b]
  OBVIOUS
<1>2. ASSUME NEW r \in Addition
      PROVE  LET q == [r EXCEPT !.at = place] IN
             /\ q \in Addition /\ q.at = place /\ q.contact = r.contact
             /\ q.message = r.message /\ q.last = r.last /\ q.state = r.state
  BY DEF Addition
<1> QED BY <1>1, <1>2

LEMMA FoundFields ==
  ASSUME adder \in [Adder -> Addition], NEW a \in Adder, NEW n \in Nat,
         adder' = [adder EXCEPT ![a].at = "link", ![a].last = n]
  PROVE  /\ adder' \in [Adder -> Addition]
         /\ adder'[a].at = "link" /\ adder'[a].contact = adder[a].contact
         /\ adder'[a].message = adder[a].message /\ adder'[a].last = n
         /\ \A b \in Adder : b # a => adder'[b] = adder[b]
<1>1. adder[a] \in Addition
      /\ adder'[a] = [[adder[a] EXCEPT !.at = "link"] EXCEPT !.last = n]
      /\ \A b \in Adder : b # a => adder'[b] = adder[b]
  OBVIOUS
<1>2. ASSUME NEW r \in Addition
      PROVE  LET q == [[r EXCEPT !.at = "link"] EXCEPT !.last = n] IN
             /\ q \in Addition /\ q.at = "link" /\ q.contact = r.contact
             /\ q.message = r.message /\ q.last = n
  BY DEF Addition
<1> QED BY <1>1, <1>2

LEMMA PrinterFields ==
  ASSUME printer \in [Printer -> PrinterState], NEW p \in Printer,
         NEW place \in {"none", "wait", "frame", "rows", "redraw"},
         printer' = [printer EXCEPT ![p].at = place]
  PROVE  /\ printer' \in [Printer -> PrinterState]
         /\ printer'[p].at = place /\ printer'[p].skip = printer[p].skip
         /\ printer'[p].empty = printer[p].empty
         /\ \A q \in Printer : q # p => printer'[q] = printer[q]
<1>1. printer[p] \in PrinterState /\ printer'[p] = [printer[p] EXCEPT !.at = place]
      /\ \A q \in Printer : q # p => printer'[q] = printer[q]
  OBVIOUS
<1>2. ASSUME NEW r \in PrinterState
      PROVE  LET q == [r EXCEPT !.at = place] IN
             /\ q \in PrinterState /\ q.at = place
             /\ q.skip = r.skip /\ q.empty = r.empty
  BY DEF PrinterState
<1> QED BY <1>1, <1>2

LEMMA InitTypes == ChatsInit => ChatsTypes
BY DEF ChatsInit, HistoriesInit, ConsoleInit, ChatsTypes, ListTypes, AdderTypes,
       ScreenTypes, Addition, PrinterState, SenderPlace, Idle, Asleep, at, ToSet,
       Place

LEMMA Released ==
  ASSUME consoleOutSemaphore \in Nat, ReleaseSemaphore
  PROVE  consoleOutSemaphore' \in Nat /\ consoleOutSemaphore' > 0
BY DEF ReleaseSemaphore

LEMMA PlaceInside ==
  ASSUME NEW T, NEW s \in Seq(T), NEW e, Contains(s, e)
  PROVE  Place(s, e) \in 1 .. Len(s) /\ s[Place(s, e)] = e
<1>1. DOMAIN s = 1 .. Len(s)
  OBVIOUS
<1> QED BY <1>1 DEF Contains, Place

(* A part of a sequence from its start *)
LEMMA Start ==
  ASSUME NEW T, NEW s \in Seq(T), NEW n \in 0 .. Len(s)
  PROVE  /\ SubSeq(s, 1, n) \in Seq(T) /\ Len(SubSeq(s, 1, n)) = n
         /\ \A i \in 1 .. n : SubSeq(s, 1, n)[i] = s[i]
BY SubSeqProperties

(* An addition that goes on *)
LEMMA AdditionGoesOn ==
  ASSUME AdderTypes, ScreenTypes, NEW a \in Adder,
         adder' \in [Adder -> Addition],
         adder'[a].contact = adder[a].contact, adder'[a].message = adder[a].message,
         \A b \in Adder : b # a => adder'[b] = adder[b],
         \/ /\ at(a) \in {"next", "contacts"}
            /\ adder'[a].at \in {"contacts", "counted"}
         \/ /\ at(a) \in {"find", "link", "fill", "count"}
            /\ adder'[a].at \in {"link", "fill", "count", "event"}
         \/ a = "socket" /\ at(a) = "counted" /\ adder'[a].at = "find",
         UNCHANGED <<consoleVars, chatVars>>
  PROVE  AdderTypes' /\ ScreenTypes'
<1>1. \A b \in Adder : b # a => (at(b)' = at(b))
  BY DEF at
<1>2. at(a)' = adder'[a].at
  BY DEF at
<1>3. AdderTypes'
  BY <1>1, <1>2 DEF AdderTypes
<1>4. ScreenTypes'
  BY <1>1, <1>2 DEF ScreenTypes, consoleVars, chatVars
<1> QED BY <1>3, <1>4

LEMMA FreshFields ==
  ASSUME NEW c \in Contact
  PROVE  LET q == [Idle EXCEPT !.at = "next", !.contact = c] IN
         /\ q \in Addition /\ q.at = "next" /\ q.contact = c /\ q.message = 0
<1>1. Idle \in Addition /\ Idle.message = 0
  BY DEF Idle, Addition
<1>2. ASSUME NEW r \in Addition
      PROVE  LET q == [[r EXCEPT !.at = "next"] EXCEPT !.contact = c] IN
             /\ q \in Addition /\ q.at = "next" /\ q.contact = c
             /\ q.message = r.message
  BY DEF Addition
<1> QED BY <1>1, <1>2

LEMMA PrintedFields ==
  LET q == [Asleep EXCEPT !.at = "redraw"] IN q \in PrinterState /\ q.at = "redraw"
<1>1. Asleep \in PrinterState
  BY DEF Asleep, PrinterState
<1>2. ASSUME NEW r \in PrinterState
      PROVE  LET q == [r EXCEPT !.at = "redraw"] IN q \in PrinterState /\ q.at = "redraw"
  BY DEF PrinterState
<1> QED BY <1>1, <1>2

LEMMA CallType ==
  ASSUME ListTypes, NEW c \in Contact, NEW from \in Nat
  PROVE  Call(c, from) \in PrinterState /\ Call(c, from).at = "frame"
         /\ Call(c, from).skip = Skip(messages[c], from)
BY DEF ListTypes, Call, Skip, PrinterState

LEMMA WalkedType ==
  ASSUME ListTypes, NEW a \in Adder, adder[a].contact \in Contact
  PROVE  target(a) \in Seq(Message) /\ Len(target(a)) \in Nat
BY DEF ListTypes, target

LEMMA StepTypes ==
  ASSUME ChatsTypes, ChatsNext
  PROVE  ChatsTypes'
<1> USE DEF ChatsTypes
<1>0. IsFiniteSet(Contact) /\ Cardinality(Contact) \in Nat
  BY FS_CardinalityType
<1>1. CASE OpenList
  <2>1. contacts[1] \in Contact
    BY <1>1, ElementOfSeq DEF OpenList, ListTypes
  <2> QED BY <1>1, <2>1 DEF OpenList, ListTypes, AdderTypes, ScreenTypes,
             historyVars, consoleVars, chatVars, at
<1>2. CASE ScrollList
  BY <1>0, <1>2 DEF ScrollList, ListTypes, AdderTypes, ScreenTypes, historyVars,
     consoleVars, chatVars, at
<1>3. CASE LeaveList
  BY <1>0, <1>3 DEF LeaveList, ListTypes, AdderTypes, ScreenTypes, historyVars,
     consoleVars, chatVars, at
<1>4. ASSUME NEW k \in 0 .. Cardinality(Contact) + 1, ChooseNothing(k)
      PROVE ChatsTypes'
  BY <1>0, <1>4 DEF ChooseNothing, ListTypes, AdderTypes, ScreenTypes, historyVars,
     consoleVars, chatVars, at
<1>5. ASSUME NEW k \in 0 .. Cardinality(Contact) + 1, ChooseChat(k)
      PROVE ChatsTypes'
  <2>1. k < Len(contacts) => contacts[k + 1] \in Contact
    BY <1>0, <1>5, ElementOfSeq DEF ListTypes
  <2> QED BY <1>5, <2>1 DEF ChooseChat, ListTypes, AdderTypes, ScreenTypes,
             historyVars, consoleVars, chatVars, at
<1>6. CASE TerminateThread
  BY <1>0, <1>6 DEF TerminateThread, ListTypes, AdderTypes, ScreenTypes,
     historyVars, consoleVars, chatVars, at, Asleep, PrinterState
<1>7. CASE ToggleScroll
  BY <1>0, <1>7 DEF ToggleScroll, ListTypes, AdderTypes, ScreenTypes, historyVars,
     consoleVars, chatVars, at
<1>8. CASE Scroll
  BY <1>0, <1>8 DEF Scroll, ListTypes, AdderTypes, ScreenTypes, historyVars,
     consoleVars, chatVars, at
<1>9. CASE sendMessage
  <2>1. contact \in Contact /\ calls + 1 \in Message
    BY <1>9 DEF sendMessage, Add, ListTypes, AdderTypes, ScreenTypes
  <2>2. [at |-> "find", contact |-> contact, message |-> calls + 1,
         state |-> "PENDING", last |-> 0] \in Addition
    BY <2>1 DEF Addition
  <2> QED BY <1>9, <2>1, <2>2 DEF sendMessage, Add, ListTypes, AdderTypes,
             ScreenTypes, consoleVars, at
<1>10. ASSUME NEW c \in Contact, createChat(c) /\ ui = "menu" /\ UNCHANGED <<consoleVars, chatVars>> PROVE ChatsTypes'
  <2>1. [Idle EXCEPT !.at = "next", !.contact = c] \in Addition
        /\ [Idle EXCEPT !.at = "next", !.contact = c].at = "next"
        /\ [Idle EXCEPT !.at = "next", !.contact = c].contact = c
    BY FreshFields
  <2> QED BY <1>10, <2>1 DEF createChat, ListTypes, AdderTypes, ScreenTypes,
             consoleVars, chatVars, at
<1>11. CASE printContacts
  BY <1>0, <1>11 DEF printContacts, ListTypes, AdderTypes, ScreenTypes, historyVars,
     consoleVars, chatVars, at, Write, redrawConsole, ReleaseSemaphore
<1>12. CASE openChat
  BY <1>0, <1>12 DEF openChat, ListTypes, AdderTypes, ScreenTypes, historyVars,
     consoleVars, chatVars, at, Call, Skip, PrinterState
<1>13. ASSUME NEW p \in Printer, PrintFrame(p) PROVE ChatsTypes'
  BY <1>13, PrinterFields DEF PrintFrame, ListTypes, AdderTypes, ScreenTypes,
     historyVars, consoleVars, at, Asleep, PrinterState, Write, redrawConsole,
     ReleaseSemaphore
<1>14. ASSUME NEW p \in Printer, PrintRows(p) PROVE ChatsTypes'
  <2>1. [Asleep EXCEPT !.at = "redraw"] \in PrinterState
        /\ [Asleep EXCEPT !.at = "redraw"].at = "redraw"
    BY PrintedFields
  <2> QED BY <1>14, <2>1 DEF PrintRows, ListTypes, AdderTypes, ScreenTypes, at
<1>15. ASSUME NEW p \in Printer, PrintRedraw(p) PROVE ChatsTypes'
  <2>1. printer["main"].at # "wait" /\ consoleOutSemaphore' \in Nat
    BY <1>15, Released DEF PrintRedraw, redrawConsole, ScreenTypes
  <2>2. printer' = [printer EXCEPT ![p].at = IF p = "main" THEN "none" ELSE "wait"]
        /\ printer[p].at = "redraw"
        /\ UNCHANGED <<historyVars, ui, then, contact, startFrom, sender>>
    BY <1>15 DEF PrintRedraw
  <2>3. /\ printer' \in [Printer -> PrinterState]
        /\ printer'[p].at = IF p = "main" THEN "none" ELSE "wait"
        /\ \A q \in Printer : q # p => printer'[q] = printer[q]
    BY <2>2, PrinterFields DEF ScreenTypes
  <2> QED BY <2>1, <2>2, <2>3 DEF ListTypes, AdderTypes, ScreenTypes, historyVars,
             at
<1>16. CASE CreateThread
  BY <1>16, PrinterFields DEF CreateThread, ListTypes, AdderTypes, ScreenTypes,
     historyVars, consoleVars, at
<1>17. CASE clearScreen
  BY <1>0, <1>17 DEF clearScreen, ListTypes, AdderTypes, ScreenTypes, historyVars,
     consoleVars, chatVars, at, Write, redrawConsole, ReleaseSemaphore
<1>18. CASE Redraw
  <2>1. consoleOutSemaphore' \in Nat
    BY <1>18, Released DEF Redraw, redrawConsole, ScreenTypes
  <2>2. ui = "redraw" /\ ui' = then /\ then \in {"menu", "list", "keys"}
        /\ UNCHANGED <<historyVars, contact, startFrom, printer, sender>> /\ then' = "menu"
    BY <1>18 DEF Redraw, ScreenTypes
  <2> QED BY <2>1, <2>2 DEF ListTypes, AdderTypes, ScreenTypes, historyVars, at
<1>19. CASE Scrolled
  BY <1>0, <1>19 DEF Scrolled, ListTypes, AdderTypes, ScreenTypes, historyVars,
     consoleVars, chatVars, at, SetEvent
<1>20. CASE MessageSent
  <2>1. /\ adder' = [adder EXCEPT !["main"] = Idle] /\ Idle \in Addition
        /\ Idle.at = "idle" /\ ui = "send" /\ at("main") = "event" /\ ui' = "chat"
        /\ sender' = [sender EXCEPT ![adder["main"].message] = "sent"]
        /\ UNCHANGED <<contacts, after, contactCount, history, messages, calls, state,
                       then, contact, startFrom, printer, consoleOutSemaphore>>
    BY <1>20 DEF MessageSent, MessageAdded, Idle, Addition, consoleVars
  <2>2. at("main")' = "idle" /\ at("socket")' = at("socket")
        /\ adder'["socket"] = adder["socket"]
    BY <2>1 DEF AdderTypes, at
  <2>3. sender' \in [Message -> SenderPlace]
    BY <2>1 DEF ScreenTypes, SenderPlace
  <2> QED BY <2>1, <2>2, <2>3 DEF ListTypes, AdderTypes, ScreenTypes
<1>21. ASSUME NEW a \in Adder, SetNext(a), UNCHANGED <<consoleVars, chatVars>>
       PROVE ChatsTypes'
  <2>1. AdderTypes' /\ ScreenTypes'
    BY <1>21, GotoFields, AdditionGoesOn DEF SetNext, Goto, AdderTypes, at
  <2>2. ListTypes'
    BY <1>21 DEF SetNext, ListTypes, AdderTypes, at
  <2> QED BY <2>1, <2>2
<1>22. ASSUME NEW a \in Adder, SetContacts(a), UNCHANGED <<consoleVars, chatVars>>
       PROVE ChatsTypes'
  <2>1. AdderTypes' /\ ScreenTypes'
    BY <1>22, GotoFields, AdditionGoesOn DEF SetContacts, Goto, AdderTypes, at
  <2>2. ListTypes'
    <3>1. adder[a].contact \in Contact /\ adder[a].contact # NULL
      BY <1>22 DEF SetContacts, AdderTypes
    <3>2. <<adder[a].contact>> \o after[adder[a].contact] \in Seq(Contact)
      BY <3>1, ConcatProperties DEF ListTypes
    <3> QED BY <1>22, <3>1, <3>2 DEF SetContacts, From, ListTypes
  <2> QED BY <2>1, <2>2
<1>23. ASSUME NEW a \in Adder, CountContact(a), UNCHANGED <<consoleVars, chatVars>>
       PROVE ChatsTypes'
  <2>1. /\ adder' = [adder EXCEPT ![a] =
              IF a = "main" THEN Idle ELSE [adder[a] EXCEPT !.at = "find"]]
        /\ adder \in [Adder -> Addition] /\ at(a) = "counted"
        /\ UNCHANGED <<consoleVars, chatVars>>
    BY <1>23 DEF CountContact, AdderTypes
  <2>2. CASE a = "main"
    <3>1. at("main")' = "idle" /\ adder'["socket"] = adder["socket"]
          /\ adder' \in [Adder -> Addition]
      BY <2>1, <2>2 DEF Idle, Addition, at
    <3>2. at("socket")' = at("socket")
      BY <3>1 DEF at
    <3>3. AdderTypes'
      BY <3>1, <3>2 DEF AdderTypes
    <3>4. ScreenTypes'
      BY <2>1, <2>2, <3>1 DEF ScreenTypes, consoleVars, chatVars
    <3> QED BY <3>3, <3>4, <1>23 DEF CountContact, ListTypes
  <2>3. CASE a = "socket"
    <3>1. adder' = [adder EXCEPT ![a].at = "find"]
      BY <2>1, <2>3
    <3>2. AdderTypes' /\ ScreenTypes'
      BY <2>1, <2>3, <3>1, GotoFields, AdditionGoesOn DEF at
    <3> QED BY <3>2, <1>23 DEF CountContact, ListTypes
  <2> QED BY <2>2, <2>3
<1>24. ASSUME NEW a \in Adder, FindLast(a), UNCHANGED <<consoleVars, chatVars>>
       PROVE ChatsTypes'
  <2>1. /\ adder' = [adder EXCEPT ![a].at = "link", ![a].last = Len(target(a))]
        /\ adder \in [Adder -> Addition] /\ at(a) = "find" /\ Len(target(a)) \in Nat
    BY <1>24, WalkedType DEF FindLast, AdderTypes
  <2>2. AdderTypes' /\ ScreenTypes'
    BY <1>24, <2>1, FoundFields, AdditionGoesOn DEF at
  <2> QED BY <1>24, <2>2 DEF FindLast, ListTypes
<1>25. ASSUME NEW a \in Adder, Link(a), UNCHANGED <<consoleVars, chatVars>>
       PROVE ChatsTypes'
  <2>1. AdderTypes' /\ ScreenTypes'
    BY <1>25, GotoFields, AdditionGoesOn DEF Link, Goto, AdderTypes, at
  <2>2. ListTypes'
    <3> DEFINE c == adder[a].contact
               h == history[c]
    <3>1. c \in Contact /\ h \in Seq(Message) /\ adder[a].last \in Nat
          /\ adder[a].message \in Message
      BY <1>25 DEF Link, ListTypes, AdderTypes, Addition
    <3>2. adder[a].last <= Len(h) =>
            Append(SubSeq(h, 1, adder[a].last), adder[a].message) \in Seq(Message)
      BY <3>1, Start, AppendProperties
    <3>3. adder[a].last <= Len(h) \/ adder[a].last > Len(h)
      BY <3>1
    <3>4. history' \in [Contact -> Seq(Message)]
      BY <1>25, <3>1, <3>2, <3>3 DEF Link, ListTypes
    <3> QED BY <1>25, <3>4 DEF Link, ListTypes
  <2> QED BY <2>1, <2>2
<1>26. ASSUME NEW a \in Adder, Fill(a), UNCHANGED <<consoleVars, chatVars>>
       PROVE ChatsTypes'
  <2>1. AdderTypes' /\ ScreenTypes'
    BY <1>26, GotoFields, AdditionGoesOn DEF Fill, Goto, AdderTypes, at
  <2>2. ListTypes'
    <3> DEFINE c == adder[a].contact
               m == adder[a].message
               h == history[c]
    <3>1. c \in Contact /\ h \in Seq(Message) /\ m \in Message
          /\ adder[a].state \in MessageState
      BY <1>26 DEF Fill, ListTypes, AdderTypes, Addition
    <3>2. Contains(h, m) => SubSeq(h, 1, Place(h, m)) \in Seq(Message)
      BY <3>1, PlaceInside, Start
    <3>3. history' \in [Contact -> Seq(Message)]
      BY <1>26, <3>1, <3>2 DEF Fill, ListTypes
    <3> QED BY <1>26, <3>1, <3>3 DEF Fill, ListTypes
  <2> QED BY <2>1, <2>2
<1>27. ASSUME NEW a \in Adder, CountMessage(a), UNCHANGED <<consoleVars, chatVars>>
       PROVE ChatsTypes'
  <2>1. AdderTypes' /\ ScreenTypes'
    BY <1>27, GotoFields, AdditionGoesOn DEF CountMessage, Goto, AdderTypes, at
  <2>2. ListTypes'
    BY <1>27 DEF CountMessage, ListTypes, AdderTypes, at
  <2> QED BY <2>1, <2>2
<1>28. CASE MessageAdded("socket") /\ UNCHANGED <<consoleVars, chatVars>>
  BY <1>28 DEF MessageAdded, SetEvent, ListTypes, AdderTypes, ScreenTypes,
     consoleVars, chatVars, at, Addition, Idle
<1>29. CASE handleNewMessage /\ UNCHANGED <<consoleVars, chatVars>>
  <2>1. PICK c \in Contact, place \in {"find", "next"} : Add("socket", c, "SUCCESS", place)
    BY <1>29 DEF handleNewMessage, Fresh, ToSet, ListTypes
  <2>2. calls + 1 \in Message
    BY <2>1 DEF Add, ListTypes
  <2>3. [at |-> place, contact |-> c, message |-> calls + 1,
         state |-> "SUCCESS", last |-> 0] \in Addition
    BY <2>2 DEF Addition
  <2> QED BY <1>29, <2>1, <2>2, <2>3 DEF Add, ListTypes, AdderTypes, ScreenTypes,
             consoleVars, chatVars, at
<1>30. CASE UpdateWoken
  <2>1. contact \in Contact /\ startFrom \in Nat /\ printer["update"].at = "wait"
    BY <1>30 DEF UpdateWoken, ScreenTypes
  <2>2. Call(contact, startFrom) \in PrinterState /\ Call(contact, startFrom).at = "frame"
    BY <2>1, CallType
  <2> QED BY <1>30, <2>1, <2>2 DEF UpdateWoken, ListTypes, AdderTypes, ScreenTypes,
             consoleVars, at
<1>31. CASE consoleDrawThread /\ UNCHANGED <<historyVars, chatVars>>
  <2>1. consoleOutSemaphore' \in Nat
    BY <1>31 DEF consoleDrawThread, WaitForRedraw, Draw, ScreenTypes
  <2> QED BY <1>31, <2>1 DEF ListTypes, AdderTypes, ScreenTypes, historyVars,
             chatVars, at
<1>32. ASSUME NEW m \in Message, MessageAnswered(m) PROVE ChatsTypes'
  BY <1>0, <1>32 DEF MessageAnswered, ListTypes, AdderTypes, ScreenTypes,
     historyVars, consoleVars, chatVars, at, Write, redrawConsole, ReleaseSemaphore,
     SetEvent, SenderPlace
<1>33. ASSUME NEW m \in Message, printNotification(m) PROVE ChatsTypes'
  <2>1. consoleOutSemaphore' \in Nat
    BY <1>33, Released DEF printNotification, redrawConsole, Write, ScreenTypes
  <2>2. /\ \E place \in SenderPlace : sender' = [sender EXCEPT ![m] = place]
        /\ UNCHANGED <<historyVars, ui, then, contact, startFrom, printer>>
    BY <1>33 DEF printNotification, SenderPlace
  <2> QED BY <2>1, <2>2 DEF ListTypes, AdderTypes, ScreenTypes, historyVars, at
<1>34. ASSUME NEW m \in Message, MessageFailed(m) PROVE ChatsTypes'
  BY <1>0, <1>34 DEF MessageFailed, ListTypes, AdderTypes, ScreenTypes, historyVars,
     consoleVars, chatVars, at, Write, redrawConsole, ReleaseSemaphore, SetEvent,
     SenderPlace
<1>35. ASSUME NEW m \in Message, StateShown(m) PROVE ChatsTypes'
  BY <1>0, <1>35 DEF StateShown, ListTypes, AdderTypes, ScreenTypes, historyVars,
     consoleVars, chatVars, at, Write, redrawConsole, ReleaseSemaphore, SetEvent,
     SenderPlace
<1> QED
  BY <1>1, <1>2, <1>3, <1>4, <1>5, <1>6, <1>7, <1>8, <1>9, <1>10, <1>11, <1>12,
     <1>13, <1>14, <1>15, <1>16, <1>17, <1>18, <1>19, <1>20, <1>21, <1>22, <1>23,
     <1>24, <1>25, <1>26, <1>27, <1>28, <1>29, <1>30, <1>31, <1>32, <1>33, <1>34,
     <1>35
  DEF ChatsNext, UserStep, MainStep, SocketStep, DrawStep, chatUpdateThread,
      printChatHistory, createContact, addMessage, sendMessageThread

LEMMA StutterTypes == ChatsTypes /\ UNCHANGED allVars => ChatsTypes'
BY DEF ChatsTypes, ListTypes, AdderTypes, ScreenTypes, allVars, historyVars,
       consoleVars, chatVars, at

(***************************************************************************)
(* The variables that nothing above depends on                             *)
(***************************************************************************)
OtherTypes ==
  /\ messageEvent \in BOOLEAN
  /\ raced \in SUBSET {"add", "read"}
  /\ start \in Nat
  /\ crashed \in {"no", "contacts", "history"}
  /\ DOMAIN consoleBuffer = Line
  /\ consoleOutSemaphore \in 0 .. MaxRedraws
  /\ consoleOutMutex \in Printer \cup {NOBODY}

LEMMA InitOthers == ChatsInit => OtherTypes
<1> SUFFICES ASSUME ChatsInit PROVE OtherTypes
  OBVIOUS
<1>1. /\ messageEvent = FALSE /\ raced = {} /\ start = 0 /\ crashed = "no"
      /\ consoleOutSemaphore = 0 /\ consoleOutMutex = NOBODY
      /\ DOMAIN consoleBuffer = Line
  BY DEF ChatsInit, HistoriesInit, ConsoleInit, Blank
<1>2. 0 \in 0 .. MaxRedraws
  OBVIOUS
<1> QED BY <1>1, <1>2 DEF OtherTypes

LEMMA StepOthers ==
  ASSUME ChatsTypes, OtherTypes, ChatsNext
  PROVE  OtherTypes'
<1> USE DEF OtherTypes
<1>1. ASSUME UNCHANGED historyVars, UNCHANGED <<crashed, consoleVars>>, start' \in Nat
      PROVE  OtherTypes'
  BY <1>1 DEF historyVars, consoleVars
<1>2. CASE OpenList \/ LeaveList \/ openChat \/ CreateThread \/ ToggleScroll \/ Scroll
  BY <1>1, <1>2 DEF OpenList, LeaveList, openChat, CreateThread, ToggleScroll, Scroll
<1>3. CASE ScrollList
  BY <1>1, <1>3 DEF ScrollList
<1>4. ASSUME NEW k \in 0 .. Cardinality(Contact) + 1, ChooseNothing(k) \/ ChooseChat(k)
      PROVE  OtherTypes'
  BY <1>4 DEF ChooseNothing, ChooseChat, historyVars, consoleVars
<1>5. CASE TerminateThread
  BY <1>5 DEF TerminateThread, historyVars
<1>6. CASE printContacts \/ clearScreen
  BY <1>6 DEF printContacts, clearScreen, Write, Blank, historyVars, consoleVars
<1>7. ASSUME redrawConsole, UNCHANGED <<historyVars, start, crashed>>
      PROVE  OtherTypes'
  BY <1>7 DEF redrawConsole, ReleaseSemaphore, historyVars
<1>8. ASSUME NEW p \in Printer, printChatHistory(p)
      PROVE  OtherTypes'
  <2>1. CASE PrintFrame(p)
    BY <2>1 DEF PrintFrame, historyVars, consoleVars
  <2>2. CASE PrintRows(p)
    BY <2>2 DEF PrintRows
  <2>3. CASE PrintRedraw(p)
    BY <1>7, <2>3 DEF PrintRedraw
  <2> QED BY <1>8, <2>1, <2>2, <2>3 DEF printChatHistory
<1>9. CASE Redraw
  BY <1>7, <1>9 DEF Redraw
<1>10. CASE Scrolled \/ UpdateWoken
  BY <1>10 DEF Scrolled, UpdateWoken, SetEvent, consoleVars
<1>11. CASE sendMessage \/ MessageSent
  BY <1>11 DEF sendMessage, Add, MessageSent, MessageAdded, SetEvent, consoleVars
<1>12. ASSUME NEW m \in Message, sendMessageThread(m)
       PROVE  OtherTypes'
  <2>1. CASE MessageAnswered(m) \/ MessageFailed(m) \/ StateShown(m)
    BY <2>1 DEF MessageAnswered, MessageFailed, StateShown, SetEvent, consoleVars
  <2>2. CASE printNotification(m)
    BY <1>7, <2>2 DEF printNotification, Write, historyVars
  <2> QED BY <1>12, <2>1, <2>2 DEF sendMessageThread
<1>13. CASE DrawStep
  BY <1>13 DEF DrawStep, consoleDrawThread, WaitForRedraw, Draw, historyVars, chatVars
<1>14. ASSUME NEW a \in Adder, UNCHANGED <<consoleVars, chatVars>>,
              createContact(a) \/ addMessage(a)
       PROVE  OtherTypes'
  BY <1>14 DEF createContact, SetNext, SetContacts, CountContact, addMessage, FindLast,
     Link, Fill, CountMessage, MessageAdded, SetEvent, consoleVars, chatVars
<1>15. ASSUME UNCHANGED <<consoleVars, chatVars>>,
              handleNewMessage \/ \E c \in Contact : createChat(c)
       PROVE  OtherTypes'
  BY <1>15 DEF handleNewMessage, Add, createChat, consoleVars, chatVars
<1> QED
  BY <1>2, <1>3, <1>4, <1>5, <1>6, <1>8, <1>9, <1>10, <1>11, <1>12, <1>13, <1>14, <1>15
  DEF ChatsNext, UserStep, MainStep, SocketStep, chatUpdateThread, addMessage

LEMMA StutterOthers == OtherTypes /\ UNCHANGED allVars => OtherTypes'
BY DEF OtherTypes, allVars, historyVars, consoleVars, chatVars

-----------------------------------------------------------------------------
(***************************************************************************)
(* The steps by what they do to the lists                                  *)
(***************************************************************************)
listVars == <<contacts, after, contactCount, history, messages, calls>>

QuietStep ==
  /\ UNCHANGED <<listVars, state, adder, sender>>
  /\ raced \subseteq raced'

SenderStep(m) ==
  /\ sender[m] # "none"
  /\ \E place \in SenderPlace : sender' = [sender EXCEPT ![m] = place]
  /\ \/ UNCHANGED state
     \/ \E v \in MessageState : state' = [state EXCEPT ![m] = v]
  /\ UNCHANGED <<listVars, adder, raced>>

ListStep(a) ==
  createContact(a) \/ FindLast(a) \/ Link(a) \/ Fill(a) \/ CountMessage(a)

AddStep ==
  /\ \E a \in Adder, c \in Contact, v \in MessageState, place \in {"find", "next"} :
       Add(a, c, v, place) /\ (a = "socket" \/ place = "find")
  /\ UNCHANGED sender

LEMMA Cases ==
  ASSUME ChatsTypes, ChatsNext
  PROVE  \/ QuietStep
         \/ \E m \in Message : SenderStep(m)
         \/ \E a \in Adder : ListStep(a) /\ UNCHANGED sender
         \/ AddStep
         \/ \E c \in Contact : createChat(c) /\ UNCHANGED sender
         \/ MessageAdded("socket") /\ UNCHANGED sender
         \/ MessageAdded("main") /\ sender' = [sender EXCEPT ![adder["main"].message] = "sent"]
<1>1. UserStep => QuietStep \/ AddStep \/ \E c \in Contact : createChat(c) /\ UNCHANGED sender
  <2>1. sendMessage => AddStep
    BY DEF sendMessage, AddStep, ChatsTypes, ScreenTypes
  <2> QED
    BY <2>1 DEF UserStep, OpenList, ScrollList, LeaveList, ChooseNothing,
       ChooseChat,
           TerminateThread, ToggleScroll, Scroll, QuietStep, historyVars, listVars,
           chatVars
<1>2. MainStep => \/ QuietStep \/ \E a \in Adder : ListStep(a) /\ UNCHANGED sender
                  \/ /\ MessageAdded("main")
                     /\ sender' = [sender EXCEPT ![adder["main"].message] = "sent"]
  BY DEF MainStep, printContacts, openChat, printChatHistory, PrintFrame, PrintRows,
         PrintRedraw, CreateThread, clearScreen, Redraw, Scrolled, MessageSent,
         ListStep,
         QuietStep, historyVars, listVars, chatVars
<1>3. chatUpdateThread \/ DrawStep => QuietStep
  BY DEF chatUpdateThread, UpdateWoken, printChatHistory, PrintFrame, PrintRows,
         PrintRedraw, DrawStep, QuietStep, historyVars, listVars, chatVars
<1>4. SocketStep => \/ \E a \in Adder : ListStep(a) /\ UNCHANGED sender
                    \/ AddStep
                    \/ MessageAdded("socket") /\ UNCHANGED sender
  <2>1. handleNewMessage /\ UNCHANGED chatVars => AddStep
    BY DEF handleNewMessage, AddStep, Fresh, ToSet, chatVars, ChatsTypes, ListTypes
  <2> QED BY <2>1 DEF SocketStep, ListStep, addMessage, chatVars
<1>5. ASSUME NEW m \in Message, sendMessageThread(m)
      PROVE  SenderStep(m)
  BY <1>5 DEF sendMessageThread, MessageAnswered, printNotification, MessageFailed,
         StateShown, SenderStep, SenderPlace, historyVars, listVars
<1> QED BY <1>1, <1>2, <1>3, <1>4, <1>5 DEF ChatsNext

-----------------------------------------------------------------------------
(***************************************************************************)
(* What a history holds after a node is linked or filled                   *)
(***************************************************************************)
LEMMA LinkEntries ==
  ASSUME ListTypes, AdderTypes, NEW a \in Adder, Link(a)
  PROVE  LET c == adder[a].contact IN
         \A i \in DOMAIN history'[c] :
           \/ history'[c][i] = adder[a].message
           \/ \E j \in DOMAIN history[c] : history'[c][i] = history[c][j]
<1> DEFINE c == adder[a].contact
           m == adder[a].message
           h == history[c]
<1> SUFFICES \A i \in DOMAIN history'[c] :
               history'[c][i] = m \/ \E j \in DOMAIN h : history'[c][i] = h[j]
  OBVIOUS
<1>0. /\ c \in Contact /\ h \in Seq(Message) /\ adder[a].last \in Nat /\ m \in Message
      /\ history'[c] = IF adder[a].last > Len(h) THEN h
                        ELSE Append(SubSeq(h, 1, adder[a].last), m)
  BY DEF Link, ListTypes, AdderTypes, Addition, at
<1>1. CASE adder[a].last > Len(h)
  BY <1>0, <1>1
<1>2. CASE adder[a].last <= Len(h)
  <2> DEFINE g == SubSeq(h, 1, adder[a].last)
  <2>0. adder[a].last \in 0 .. Len(h) /\ Len(h) \in Nat
    BY <1>0, <1>2
  <2>1. /\ g \in Seq(Message) /\ Len(g) = adder[a].last
        /\ \A i \in 1 .. Len(g) : g[i] = h[i] /\ i \in 1 .. Len(h)
    <3>1. /\ g \in Seq(Message) /\ Len(g) = adder[a].last
          /\ \A i \in 1 .. adder[a].last : g[i] = h[i]
      BY <1>0, <2>0, Start
    <3> QED BY <2>0, <3>1
  <2>2. history'[c] = Append(g, m)
    BY <1>0, <2>0
  <2>3. /\ DOMAIN Append(g, m) = 1 .. Len(g) + 1 /\ DOMAIN h = 1 .. Len(h)
        /\ Append(g, m)[Len(g) + 1] = m
        /\ \A i \in 1 .. Len(g) : Append(g, m)[i] = g[i]
    BY <1>0, <2>1, AppendProperties
  <2> HIDE DEF g
  <2>4. TAKE i \in DOMAIN history'[c]
  <2>5. i = Len(g) + 1 \/ i \in 1 .. Len(g)
    BY <2>1, <2>2, <2>3
  <2> QED BY <2>1, <2>2, <2>3, <2>5
<1>3. adder[a].last > Len(h) \/ adder[a].last <= Len(h)
  BY <1>0
<1> QED BY <1>1, <1>2, <1>3

LEMMA FillEntries ==
  ASSUME ListTypes, AdderTypes, NEW a \in Adder, Fill(a)
  PROVE  LET c == adder[a].contact IN
         \A i \in DOMAIN history'[c] :
           \E j \in DOMAIN history[c] : history'[c][i] = history[c][j]
<1> DEFINE c == adder[a].contact
           m == adder[a].message
           h == history[c]
<1> SUFFICES \A i \in DOMAIN history'[c] : \E j \in DOMAIN h : history'[c][i] = h[j]
  OBVIOUS
<1>0. /\ c \in Contact /\ h \in Seq(Message) /\ m \in Message
      /\ history'[c] = IF Contains(h, m) THEN SubSeq(h, 1, Place(h, m)) ELSE h
  BY DEF Fill, ListTypes, AdderTypes, at
<1>1. CASE Contains(h, m)
  <2>1. Place(h, m) \in 1 .. Len(h)
    BY <1>0, <1>1, PlaceInside
  <2> DEFINE n == Place(h, m)
             g == SubSeq(h, 1, n)
  <2>0. n \in 0 .. Len(h) /\ Len(h) \in Nat
    BY <1>0, <2>1
  <2>2. /\ g \in Seq(Message) /\ Len(g) = n
        /\ \A i \in 1 .. n : g[i] = h[i] /\ i \in 1 .. Len(h)
    <3>1. /\ g \in Seq(Message) /\ Len(g) = n
          /\ \A i \in 1 .. n : g[i] = h[i]
      BY <1>0, <2>0, Start
    <3> QED BY <2>0, <3>1
  <2>3. DOMAIN g = 1 .. n /\ DOMAIN h = 1 .. Len(h) /\ history'[c] = g
    BY <1>0, <1>1, <2>2
  <2> QED BY <2>2, <2>3
<1> QED BY <1>0, <1>1

-----------------------------------------------------------------------------
(***************************************************************************)
(* A message that is being added is nowhere else                           *)
(***************************************************************************)
Adds(a) == \/ at(a) \in {"find", "link", "fill", "count", "event"}
           \/ a = "socket" /\ at(a) # "idle"

Stored(h, m) == \E c \in Contact : \E i \in DOMAIN h[c] : h[c][i] = m

FreshMessages ==
  /\ \A m \in Message : m > calls => sender[m] = "none" /\ state[m] = "raw" /\ ~Stored(history, m)
  /\ \A a \in Adder : Adds(a) =>
       /\ adder[a].message <= calls /\ sender[adder[a].message] = "none"
       /\ at(a) \notin {"count", "event"} => state[adder[a].message] = "raw"
       /\ at(a) \notin {"fill", "count", "event"} => ~Stored(history, adder[a].message)
  /\ \A a, b \in Adder :
       Adds(a) /\ Adds(b) /\ adder[a].message = adder[b].message => a = b

LEMMA InitFresh == ChatsInit => FreshMessages
BY DEF ChatsInit, HistoriesInit, FreshMessages, Adds, at, Idle, Stored

LEMMA StepFresh ==
  ASSUME ChatsTypes, FreshMessages, ChatsNext
  PROVE  FreshMessages'
<1> USE DEF ChatsTypes
<1>0. calls \in Nat /\ \A m \in Message : m \in Nat
  BY DEF ListTypes
<1>1. CASE QuietStep
  BY <1>1 DEF QuietStep, listVars, FreshMessages, Adds, at, Stored
<1>2. ASSUME NEW m \in Message, SenderStep(m)
      PROVE  FreshMessages'
  <2>1. m <= calls /\ \A a \in Adder : Adds(a) => adder[a].message # m
    BY <1>0, <1>2 DEF SenderStep, FreshMessages
  <2>2. \A n \in Message \ {m} : sender'[n] = sender[n] /\ state'[n] = state[n]
    BY <1>2 DEF SenderStep, ScreenTypes, ListTypes
  <2>3. \A a \in Adder : Adds(a) => adder[a].message \in Message \ {m}
    BY <2>1 DEF Adds, AdderTypes
  <2>4. UNCHANGED <<history, calls, adder>>
    BY <1>2 DEF SenderStep, listVars
  <2> QED BY <1>0, <2>1, <2>2, <2>3, <2>4 DEF FreshMessages, Adds, at, Stored
<1>3. ASSUME NEW a \in Adder, ListStep(a), UNCHANGED sender
      PROVE  FreshMessages'
  <2>1. CASE SetNext(a) \/ SetContacts(a) \/ CountMessage(a)
    <3>1. \E place \in {"contacts", "counted", "event"} :
            adder' = [adder EXCEPT ![a].at = place]
            /\ (place = "event" <=> at(a) = "count") /\ at(a) \in {"next", "contacts", "count"}
      BY <2>1 DEF SetNext, SetContacts, CountMessage, Goto
    <3>2. UNCHANGED <<history, calls, state>>
      BY <2>1 DEF SetNext, SetContacts, CountMessage
    <3>3. /\ \A b \in Adder : adder'[b].message = adder[b].message /\ (Adds(b)' <=> Adds(b))
          /\ \A b \in Adder : b # a => at(b)' = at(b)
          /\ at(a)' \in {"count", "event"} <=> at(a) \in {"count", "event"}
          /\ at(a)' # "fill" /\ at(a) # "fill"
      BY <3>1, GotoFields DEF AdderTypes, Adds, at
    <3> QED BY <1>0, <1>3, <3>2, <3>3 DEF FreshMessages, Stored
  <2>2. CASE CountContact(a)
    <3>1. /\ at(a) = "counted" /\ UNCHANGED <<history, calls, state>>
          /\ adder' = [adder EXCEPT ![a] =
               IF a = "main" THEN Idle ELSE [adder[a] EXCEPT !.at = "find"]]
      BY <2>2 DEF CountContact
    <3>2. CASE a = "main"
      <4>1. at("main")' = "idle" /\ adder'["socket"] = adder["socket"]
        BY <3>1, <3>2 DEF AdderTypes, Idle, at
      <4> QED BY <1>0, <1>3, <3>1, <3>2, <4>1 DEF FreshMessages, Stored, Adds, at
    <3>3. CASE a = "socket"
      <4>1. adder' = [adder EXCEPT ![a].at = "find"]
        BY <3>1, <3>3
      <4>2. /\ at(a)' = "find" /\ adder'[a].message = adder[a].message
            /\ adder'["main"] = adder["main"]
        BY <3>3, <4>1, GotoFields DEF AdderTypes, at
      <4> QED BY <1>0, <1>3, <3>1, <3>3, <4>2 DEF FreshMessages, Stored, Adds, at
    <3> QED BY <3>2, <3>3
  <2>3. CASE FindLast(a)
    <3>1. /\ adder' = [adder EXCEPT ![a].at = "link", ![a].last = Len(target(a))]
          /\ at(a) = "find" /\ Len(target(a)) \in Nat
          /\ UNCHANGED <<history, calls, state>>
      BY <2>3, WalkedType DEF FindLast, AdderTypes
    <3>2. /\ at(a)' = "link" /\ adder'[a].message = adder[a].message
          /\ \A b \in Adder : b # a => adder'[b] = adder[b]
      BY <3>1, FoundFields DEF AdderTypes, at
    <3>3. /\ \A b \in Adder : adder'[b].message = adder[b].message /\ (Adds(b)' <=> Adds(b))
          /\ \A b \in Adder : b # a => at(b)' = at(b)
      BY <3>1, <3>2 DEF Adds, at
    <3>4. \A n \in Message : Stored(history', n) <=> Stored(history, n)
      BY <3>1 DEF Stored
    <3>5. \A b \in Adder : Adds(b) => adder[b].message \in Message
      BY DEF Adds, AdderTypes
    <3> QED
      BY <1>0, <1>3, <3>1, <3>2, <3>3, <3>4, <3>5 DEF FreshMessages
  <2>4. CASE Link(a)
    <3> DEFINE c == adder[a].contact
               m == adder[a].message
               h == history[c]
    <3>1. /\ at(a) = "link" /\ UNCHANGED <<calls, state>>
          /\ adder' = [adder EXCEPT ![a].at = "fill"]
          /\ c \in Contact /\ h \in Seq(Message) /\ adder[a].last \in Nat /\ m \in Message
          /\ \A d \in Contact \ {c} : history'[d] = history[d]
          /\ history'[c] = IF adder[a].last > Len(h) THEN h
                            ELSE Append(SubSeq(h, 1, adder[a].last), m)
      BY <2>4 DEF Link, Goto, ListTypes, AdderTypes, Addition
    <3>2. /\ at(a)' = "fill" /\ adder'[a].message = m
          /\ \A b \in Adder : b # a => adder'[b] = adder[b]
      BY <3>1, GotoFields DEF AdderTypes, at
    <3>3. \A i \in DOMAIN history'[c] :
            history'[c][i] = m \/ \E j \in DOMAIN h : history'[c][i] = h[j]
      BY <2>4, LinkEntries
    <3>4. ASSUME NEW n \in Message, n # m, ~Stored(history, n)
          PROVE  ~Stored(history', n)
      <4>1. \A d \in Contact : d # c => history'[d] = history[d]
        BY <3>1
      <4>2. \A i \in DOMAIN history'[c] : history'[c][i] # n
        BY <3>1, <3>3, <3>4 DEF Stored
      <4> QED BY <3>4, <4>1, <4>2 DEF Stored
    <3>5. m <= calls /\ \A b \in Adder : b # a /\ Adds(b) => adder[b].message # m
      BY <3>1 DEF FreshMessages, Adds
    <3>6. \A b \in Adder : Adds(b) => adder[b].message \in Message
      BY DEF Adds, AdderTypes
    <3> QED
      BY <1>0, <1>3, <3>1, <3>2, <3>4, <3>5, <3>6 DEF FreshMessages, Adds, at
  <2>5. CASE Fill(a)
    <3> DEFINE c == adder[a].contact
               m == adder[a].message
               h == history[c]
    <3>1. /\ at(a) = "fill" /\ UNCHANGED calls
          /\ adder' = [adder EXCEPT ![a].at = "count"]
          /\ c \in Contact /\ h \in Seq(Message) /\ m \in Message
          /\ \A d \in Contact \ {c} : history'[d] = history[d]
          /\ history'[c] = IF Contains(h, m) THEN SubSeq(h, 1, Place(h, m)) ELSE h
          /\ \A n \in Message \ {m} : state'[n] = state[n]
      BY <2>5 DEF Fill, Goto, ListTypes, AdderTypes, Addition
    <3>2. /\ at(a)' = "count" /\ adder'[a].message = m
          /\ \A b \in Adder : b # a => adder'[b] = adder[b]
      BY <3>1, GotoFields DEF AdderTypes, at
    <3>3. \A i \in DOMAIN history'[c] : \E j \in DOMAIN h : history'[c][i] = h[j]
      BY <2>5, FillEntries
    <3>4. \A n \in Message : ~Stored(history, n) => ~Stored(history', n)
      <4> SUFFICES ASSUME NEW n \in Message, NEW d \in Contact,
                          NEW i \in DOMAIN history'[d], history'[d][i] = n
                   PROVE  Stored(history, n)
        BY DEF Stored
      <4>1. CASE d = c
        BY <3>1, <3>3, <4>1 DEF Stored
      <4>2. CASE d # c
        BY <3>1, <4>2 DEF Stored
      <4> QED BY <4>1, <4>2
    <3>5. m <= calls /\ \A b \in Adder : b # a /\ Adds(b) => adder[b].message # m
      BY <3>1 DEF FreshMessages, Adds
    <3>6. \A b \in Adder : Adds(b) => adder[b].message \in Message
      BY DEF Adds, AdderTypes
    <3>7. /\ \A b \in Adder : adder'[b].message = adder[b].message /\ (Adds(b)' <=> Adds(b))
          /\ \A b \in Adder : b # a => at(b)' = at(b)
      BY <3>1, <3>2 DEF Adds, at
    <3>8. \A n \in Message : n > calls' =>
             sender'[n] = "none" /\ state'[n] = "raw" /\ ~Stored(history', n)
      <4> SUFFICES ASSUME NEW n \in Message, n > calls
                   PROVE  sender[n] = "none" /\ state'[n] = "raw" /\ ~Stored(history', n)
        BY <1>3, <3>1
      <4>1. sender[n] = "none" /\ state[n] = "raw" /\ ~Stored(history, n)
        BY DEF FreshMessages
      <4>2. n # m
        BY <1>0, <3>1, <3>5
      <4> QED BY <3>1, <3>4, <4>1, <4>2
    <3>9. \A b \in Adder : Adds(b)' =>
            /\ adder'[b].message <= calls' /\ sender'[adder'[b].message] = "none"
            /\ at(b)' \notin {"count", "event"} => state'[adder'[b].message] = "raw"
      BY <1>3, <3>1, <3>2, <3>5, <3>6, <3>7 DEF FreshMessages
    <3>10. \A b \in Adder : Adds(b)' /\ at(b)' \notin {"fill", "count", "event"} =>
             ~Stored(history', adder'[b].message)
      BY <3>1, <3>2, <3>4, <3>6, <3>7 DEF FreshMessages
    <3>11. \A b, d \in Adder :
             Adds(b)' /\ Adds(d)' /\ adder'[b].message = adder'[d].message => b = d
      BY <3>7 DEF FreshMessages
    <3> QED BY <3>8, <3>9, <3>10, <3>11 DEF FreshMessages
  <2> QED BY <1>3, <2>1, <2>2, <2>3, <2>4, <2>5 DEF ListStep, createContact
<1>4. CASE AddStep
  <2>1. PICK a \in Adder, c \in Contact, v \in MessageState, place \in {"find", "next"} :
          Add(a, c, v, place) /\ (a = "socket" \/ place = "find")
    BY <1>4 DEF AddStep
  <2>2. /\ calls' = calls + 1 /\ calls + 1 \in Message /\ at(a) = "idle"
        /\ at(a)' = place /\ adder'[a].message = calls + 1
        /\ \A b \in Adder : b # a => adder'[b] = adder[b]
        /\ UNCHANGED <<history, state, sender>>
    BY <1>4, <2>1 DEF Add, AddStep, AdderTypes, ListTypes, at
  <2>3. sender[calls + 1] = "none" /\ state[calls + 1] = "raw" /\ ~Stored(history, calls + 1)
    BY <1>0, <2>2 DEF FreshMessages
  <2>4. \A b \in Adder : b # a => /\ Adds(b)' <=> Adds(b) /\ at(b)' = at(b)
                                  /\ adder'[b].message = adder[b].message
    BY <2>2 DEF Adds, at
  <2>5. \A b \in Adder : Adds(b) => adder[b].message \in Message /\ adder[b].message <= calls
    BY DEF Adds, AdderTypes, FreshMessages
  <2> QED BY <1>0, <2>2, <2>3, <2>4, <2>5 DEF FreshMessages, Stored
<1>5. ASSUME NEW c \in Contact, createChat(c), UNCHANGED sender
      PROVE  FreshMessages'
  <2>1. /\ at("main")' = "next" /\ adder'["socket"] = adder["socket"]
        /\ UNCHANGED <<history, calls, state, sender>>
    BY <1>5, FreshFields DEF createChat, AdderTypes, at
  <2> QED BY <1>0, <2>1 DEF FreshMessages, Stored, Adds, at
<1>6. CASE MessageAdded("socket") /\ UNCHANGED sender
  <2>1. /\ at("socket")' = "idle" /\ adder'["main"] = adder["main"]
        /\ UNCHANGED <<history, calls, state, sender>>
    BY <1>6 DEF MessageAdded, AdderTypes, Idle, at
  <2> QED BY <1>0, <2>1 DEF FreshMessages, Stored, Adds, at
<1>7. CASE /\ MessageAdded("main")
           /\ sender' = [sender EXCEPT ![adder["main"].message] = "sent"]
  <2>1. /\ at("main")' = "idle" /\ adder'["socket"] = adder["socket"] /\ at("main") = "event"
        /\ UNCHANGED <<history, calls, state>>
    BY <1>7 DEF MessageAdded, AdderTypes, Idle, at
  <2>2. /\ adder["main"].message \in Message /\ adder["main"].message <= calls
        /\ Adds("socket") => /\ adder["socket"].message # adder["main"].message
                             /\ adder["socket"].message \in Message
        /\ \A n \in Message \ {adder["main"].message} : sender'[n] = sender[n]
    BY <1>7, <2>1 DEF FreshMessages, Adds, AdderTypes, ScreenTypes
  <2> QED BY <1>0, <2>1, <2>2 DEF FreshMessages, Stored, Adds, at
<1> QED BY <1>1, <1>2, <1>3, <1>4, <1>5, <1>6, <1>7, Cases

LEMMA StutterFresh == FreshMessages /\ UNCHANGED allVars => FreshMessages'
BY DEF FreshMessages, Adds, at, Stored, allVars, historyVars, chatVars

-----------------------------------------------------------------------------
(***************************************************************************)
(* Who will have drawn what has been written                               *)
(***************************************************************************)
DrawnInv ==
  crashed = "no" =>
    /\ undrawn =>
         \/ consoleOutSemaphore > 0 \/ drawing \/ ui \in {"clear", "redraw"}
         \/ \E m \in Message : sender[m] = "redraw"
         \/ \E p \in Printer : Printing(p)
    /\ consoleOutMutex # NOBODY =>
         consoleOutMutex \in Printer /\ printer[consoleOutMutex].at = "rows"

LEMMA InitDrawn == ChatsInit => DrawnInv
BY DEF ChatsInit, ConsoleInit, DrawnInv

LEMMA StepDrawn ==
  ASSUME ChatsTypes, FreshMessages, DrawnInv, ChatsNext
  PROVE  DrawnInv'
<1> USE DEF ChatsTypes
<1>0. crashed = "no"
  BY DEF ChatsNext
<1>1. CASE OpenList
  BY <1>0, <1>1 DEF OpenList, DrawnInv, Printing, ScreenTypes, consoleVars, chatVars
<1>2. CASE ScrollList
  BY <1>0, <1>2 DEF ScrollList, DrawnInv, Printing, ScreenTypes, consoleVars,
     chatVars
<1>3. CASE LeaveList
  BY <1>0, <1>3 DEF LeaveList, DrawnInv, Printing, ScreenTypes, consoleVars,
     chatVars
<1>4. ASSUME NEW k \in 0 .. Cardinality(Contact) + 1, ChooseNothing(k)
      PROVE  DrawnInv'
  BY <1>0, <1>4 DEF ChooseNothing, DrawnInv, Printing, ScreenTypes, consoleVars,
     chatVars
<1>5. ASSUME NEW k \in 0 .. Cardinality(Contact) + 1, ChooseChat(k)
      PROVE  DrawnInv'
  BY <1>0, <1>5 DEF ChooseChat, DrawnInv, Printing, ScreenTypes, consoleVars,
     chatVars
<1>6. CASE TerminateThread
  BY <1>0, <1>6 DEF TerminateThread, DrawnInv, Printing, ScreenTypes, consoleVars,
     chatVars
<1>7. CASE ToggleScroll
  BY <1>0, <1>7 DEF ToggleScroll, DrawnInv, Printing, ScreenTypes, consoleVars,
     chatVars
<1>8. CASE Scroll
  BY <1>0, <1>8 DEF Scroll, DrawnInv, Printing, ScreenTypes, consoleVars, chatVars
<1>9. CASE sendMessage
  BY <1>0, <1>9 DEF sendMessage, DrawnInv, Printing, ScreenTypes, consoleVars,
     chatVars, Add
<1>10. CASE UNCHANGED <<consoleVars, chatVars>>
  BY <1>0, <1>10 DEF DrawnInv, Printing, consoleVars, chatVars
<1>11. CASE printContacts
  BY <1>0, <1>11 DEF printContacts, DrawnInv, Printing, ScreenTypes, consoleVars,
     chatVars, Write
<1>12. CASE openChat
  BY <1>0, <1>12 DEF openChat, DrawnInv, Printing, ScreenTypes, consoleVars,
     chatVars, Call
<1>13. ASSUME NEW p \in Printer, PrintFrame(p)
      PROVE  DrawnInv'
  BY <1>0, <1>13, PrinterFields, PrintedFields, Released DEF PrintFrame, DrawnInv,
     Printing, ScreenTypes, consoleVars, chatVars, redrawConsole
<1>14. ASSUME NEW p \in Printer, PrintRows(p)
      PROVE  DrawnInv'
  BY <1>0, <1>14, PrinterFields, PrintedFields, Released DEF PrintRows, DrawnInv,
     Printing, ScreenTypes, consoleVars, chatVars, redrawConsole
<1>15. ASSUME NEW p \in Printer, PrintRedraw(p)
      PROVE  DrawnInv'
  BY <1>0, <1>15, PrinterFields, PrintedFields, Released DEF PrintRedraw, DrawnInv,
     Printing, ScreenTypes, consoleVars, chatVars, redrawConsole
<1>16. CASE CreateThread
  BY <1>0, <1>16, PrinterFields DEF CreateThread, DrawnInv, Printing, ScreenTypes,
     consoleVars, chatVars
<1>17. CASE clearScreen
  BY <1>0, <1>17 DEF clearScreen, DrawnInv, Printing, ScreenTypes, consoleVars,
     chatVars, Write
<1>18. CASE Redraw
  BY <1>0, <1>18, Released DEF Redraw, DrawnInv, Printing, ScreenTypes, consoleVars,
     chatVars, redrawConsole
<1>19. CASE Scrolled
  BY <1>0, <1>19 DEF Scrolled, DrawnInv, Printing, ScreenTypes, consoleVars,
     chatVars
<1>20. CASE MessageSent
  BY <1>0, <1>20 DEF MessageSent, DrawnInv, Printing, ScreenTypes, consoleVars,
     chatVars, FreshMessages, Adds, AdderTypes
<1>21. CASE UpdateWoken
  BY <1>0, <1>21 DEF UpdateWoken, DrawnInv, Printing, ScreenTypes, consoleVars,
     chatVars, Call
<1>22. CASE WaitForRedraw /\ UNCHANGED chatVars
  BY <1>0, <1>22 DEF WaitForRedraw, DrawnInv, Printing, consoleVars, chatVars
<1>23. CASE Draw /\ UNCHANGED chatVars
  BY <1>0, <1>23 DEF Draw, DrawnInv, Printing, consoleVars, chatVars
<1>24. ASSUME NEW m \in Message, MessageAnswered(m)
      PROVE  DrawnInv'
  BY <1>0, <1>24, Released DEF MessageAnswered, DrawnInv, Printing, ScreenTypes,
     consoleVars, chatVars, Write, redrawConsole, SenderPlace
<1>25. ASSUME NEW m \in Message, printNotification(m)
      PROVE  DrawnInv'
  BY <1>0, <1>25, Released DEF printNotification, DrawnInv, Printing, ScreenTypes,
     consoleVars, chatVars, Write, redrawConsole, SenderPlace
<1>26. ASSUME NEW m \in Message, MessageFailed(m)
      PROVE  DrawnInv'
  BY <1>0, <1>26, Released DEF MessageFailed, DrawnInv, Printing, ScreenTypes,
     consoleVars, chatVars, Write, redrawConsole, SenderPlace
<1>27. ASSUME NEW m \in Message, StateShown(m)
      PROVE  DrawnInv'
  BY <1>0, <1>27, Released DEF StateShown, DrawnInv, Printing, ScreenTypes,
     consoleVars, chatVars, Write, redrawConsole, SenderPlace
<1> QED
  BY <1>1, <1>2, <1>3, <1>4, <1>5, <1>6, <1>7, <1>8, <1>9, <1>10, <1>11, <1>12,
     <1>13, <1>14, <1>15, <1>16, <1>17, <1>18, <1>19, <1>20, <1>21, <1>22, <1>23,
     <1>24, <1>25, <1>26, <1>27
  DEF ChatsNext, UserStep, MainStep, SocketStep, DrawStep, chatUpdateThread,
      printChatHistory, createContact, addMessage, sendMessageThread,
      consoleDrawThread

LEMMA StutterDrawn == DrawnInv /\ UNCHANGED allVars => DrawnInv'
BY DEF DrawnInv, Printing, allVars, consoleVars, chatVars

-----------------------------------------------------------------------------
(***************************************************************************)
(* Lists and their counts, as long as no two threads add to one list       *)
(***************************************************************************)
(* Whether a thread has linked a node to c, or a contact, and not counted  *)
(* it yet                                                                  *)
Linked(a, c) == IF adder[a].contact = c /\ at(a) \in {"fill", "count"} THEN 1 ELSE 0
Listed(a) == IF at(a) = "counted" THEN 1 ELSE 0

MessagesCounted ==
  \A c \in Contact :
    messages[c] + Linked("main", c) + Linked("socket", c) = Len(history[c])

ContactsCounted == contactCount + Listed("main") + Listed("socket") = Len(contacts)

(* A node that is not filled is the last of its list, and only there *)
RawIsLast ==
  \A a \in Adder : at(a) = "fill" =>
    LET h == history[adder[a].contact] IN
    /\ Len(h) > 0 /\ h[Len(h)] = adder[a].message
    /\ \A i \in 1 .. Len(h) - 1 : h[i] # adder[a].message

(* Who has walked a list before another thread linked a node to it *)
LastIsBehind ==
  \A a \in Adder : at(a) = "link" =>
    LET h == history[adder[a].contact] IN
    /\ adder[a].last <= Len(h)
    /\ \A b \in Adder : at(b) = "fill" /\ adder[b].contact = adder[a].contact
                          => adder[a].last < Len(h)

CountInv == "add" \notin raced =>
  MessagesCounted /\ ContactsCounted /\ RawIsLast /\ LastIsBehind

LEMMA InitCount == ChatsInit => CountInv
BY DEF ChatsInit, HistoriesInit, CountInv, MessagesCounted, ContactsCounted,
   RawIsLast,
       LastIsBehind, Linked, Listed, at, Idle

(* A step that changes no list and neither starts nor ends a count *)
LEMMA CountsKept ==
  ASSUME CountInv, raced \subseteq raced',
         UNCHANGED <<contacts, contactCount, history, messages>>,
         \A a \in Adder :
           /\ at(a)' \in {"fill", "count"} <=> at(a) \in {"fill", "count"}
           /\ at(a) \in {"fill", "count"} => adder'[a].contact = adder[a].contact
           /\ at(a)' = "counted" <=> at(a) = "counted"
           /\ at(a)' \in {"fill", "link"} => adder'[a] = adder[a]
  PROVE  CountInv'
<1> SUFFICES ASSUME "add" \notin raced'
             PROVE  (MessagesCounted /\ ContactsCounted /\ RawIsLast /\ LastIsBehind)'
  BY DEF CountInv
<1>1. MessagesCounted /\ ContactsCounted /\ RawIsLast /\ LastIsBehind
  BY DEF CountInv
<1>2. MessagesCounted'
  <2>1. \A c \in Contact : /\ Linked("main", c)' = Linked("main", c)
                           /\ Linked("socket", c)' = Linked("socket", c)
    BY DEF Linked
  <2> QED BY <1>1, <2>1 DEF MessagesCounted
<1>3. ContactsCounted'
  BY <1>1 DEF ContactsCounted, Listed
<1>4. RawIsLast' /\ LastIsBehind'
  BY <1>1 DEF RawIsLast, LastIsBehind, at
<1> QED BY <1>2, <1>3, <1>4

LEMMA StepCount ==
  ASSUME ChatsTypes, FreshMessages, CountInv, ChatsNext
  PROVE  CountInv'
<1> USE DEF ChatsTypes
<1>1. CASE QuietStep
  BY <1>1, CountsKept DEF QuietStep, listVars, at
<1>2. ASSUME NEW m \in Message, SenderStep(m)
      PROVE  CountInv'
  BY <1>2, CountsKept DEF SenderStep, listVars, at
<1>3. ASSUME NEW a \in Adder, ListStep(a)
      PROVE  CountInv'
  <2>1. CASE SetNext(a)
    <3>1. at(a)' = "contacts" /\ \A b \in Adder : b # a => adder'[b] = adder[b]
      BY <2>1, GotoFields DEF SetNext, Goto, AdderTypes, at
    <3> QED BY <2>1, <3>1, CountsKept DEF SetNext, at
  <2>2. CASE SetContacts(a)
    <3> SUFFICES ASSUME "add" \notin raced'
                 PROVE  (MessagesCounted /\ ContactsCounted /\ RawIsLast /\ LastIsBehind)'
      BY DEF CountInv
    <3> DEFINE c == adder[a].contact
    <3>1. /\ at(a) = "contacts" /\ after[c] = contacts /\ raced' = raced
          /\ contacts' = From(c) /\ c \in Contact /\ c # NULL /\ contacts \in Seq(Contact)
          /\ UNCHANGED <<contactCount, history, messages>>
      BY <2>2 DEF SetContacts, ListTypes, AdderTypes
    <3>2. /\ at(a)' = "counted" /\ adder'[a].contact = c
          /\ \A b \in Adder : b # a => adder'[b] = adder[b]
      BY <2>2, GotoFields DEF SetContacts, Goto, AdderTypes, at
    <3>3. Len(contacts') = Len(contacts) + 1 /\ Len(contacts) \in Nat
      BY <3>1, ConcatProperties DEF From
    <3>4. MessagesCounted /\ ContactsCounted /\ RawIsLast /\ LastIsBehind
      BY <3>1 DEF CountInv
    <3>5. ContactsCounted'
      BY <3>1, <3>2, <3>3, <3>4 DEF ContactsCounted, Listed, at, ListTypes
    <3>6. MessagesCounted'
      <4>1. \A b \in Adder, d \in Contact : Linked(b, d)' = Linked(b, d)
        BY <3>1, <3>2 DEF Linked, at
      <4> QED BY <3>1, <3>4, <4>1 DEF MessagesCounted
    <3>7. RawIsLast'
      BY <3>1, <3>2, <3>4 DEF RawIsLast, at
    <3>8. LastIsBehind'
      BY <3>1, <3>2, <3>4 DEF LastIsBehind, at
    <3> QED BY <3>5, <3>6, <3>7, <3>8
  <2>3. CASE CountContact(a)
    <3> SUFFICES ASSUME "add" \notin raced'
                 PROVE  (MessagesCounted /\ ContactsCounted /\ RawIsLast /\ LastIsBehind)'
      BY DEF CountInv
    <3>1. /\ at(a) = "counted" /\ raced' = raced /\ contactCount' = contactCount + 1
          /\ adder' = [adder EXCEPT ![a] =
               IF a = "main" THEN Idle ELSE [adder[a] EXCEPT !.at = "find"]]
          /\ UNCHANGED <<contacts, history, messages>> /\ contactCount \in Nat
      BY <2>3 DEF CountContact, ListTypes
    <3>2. /\ at(a)' \in {"idle", "find"}
          /\ \A b \in Adder : b # a => adder'[b] = adder[b]
      <4>1. CASE a = "main"
        BY <3>1, <4>1 DEF AdderTypes, Idle, at
      <4>2. CASE a = "socket"
        <5>1. adder' = [adder EXCEPT ![a].at = "find"]
          BY <3>1, <4>2
        <5> QED BY <5>1, GotoFields DEF AdderTypes, at
      <4> QED BY <4>1, <4>2
    <3>4. MessagesCounted /\ ContactsCounted /\ RawIsLast /\ LastIsBehind
      BY <3>1 DEF CountInv
    <3>5. ContactsCounted'
      BY <3>1, <3>2, <3>4 DEF ContactsCounted, Listed, at
    <3>6. MessagesCounted'
      <4>1. \A b \in Adder, d \in Contact : Linked(b, d)' = Linked(b, d)
        BY <3>1, <3>2 DEF Linked, at
      <4> QED BY <3>1, <3>4, <4>1 DEF MessagesCounted
    <3>7. RawIsLast'
      BY <3>1, <3>2, <3>4 DEF RawIsLast, at
    <3>8. LastIsBehind'
      BY <3>1, <3>2, <3>4 DEF LastIsBehind, at
    <3> QED BY <3>5, <3>6, <3>7, <3>8
  <2>4. CASE FindLast(a)
    <3> SUFFICES ASSUME "add" \notin raced'
                 PROVE  (MessagesCounted /\ ContactsCounted /\ RawIsLast /\ LastIsBehind)'
      BY DEF CountInv
    <3> DEFINE c == adder[a].contact
               h == history[c]
    <3>1. /\ at(a) = "find" /\ "add" \notin raced
          /\ h = <<>> \/ state[Last(h)] # "raw"
          /\ adder' = [adder EXCEPT ![a].at = "link", ![a].last = Len(h)]
          /\ UNCHANGED <<contacts, contactCount, history, messages>>
          /\ c \in Contact /\ h \in Seq(Message) /\ Len(h) \in Nat
      BY <2>4, WalkedType DEF FindLast, target, AdderTypes
    <3>2. /\ at(a)' = "link" /\ adder'[a].contact = c /\ adder'[a].last = Len(h)
          /\ \A b \in Adder : b # a => adder'[b] = adder[b]
      BY <3>1, FoundFields DEF AdderTypes, at
    <3>3. MessagesCounted /\ ContactsCounted /\ RawIsLast /\ LastIsBehind
      BY <3>1 DEF CountInv
    <3>4. \A b \in Adder : at(b) = "fill" => adder[b].contact # c
      <4> SUFFICES ASSUME NEW b \in Adder, at(b) = "fill", adder[b].contact = c
                   PROVE  FALSE
        OBVIOUS
      <4>1. Len(h) > 0 /\ h[Len(h)] = adder[b].message
        BY <3>3 DEF RawIsLast
      <4>2. state[adder[b].message] = "raw"
        BY DEF FreshMessages, Adds
      <4> QED BY <3>1, <4>1, <4>2 DEF Last
    <3>5. MessagesCounted' /\ ContactsCounted'
      BY <3>1, <3>2, <3>3 DEF MessagesCounted, ContactsCounted, Linked, Listed, at
    <3>6. RawIsLast'
      <4> SUFFICES ASSUME NEW b \in Adder, at(b)' = "fill"
                   PROVE  LET g == history'[adder'[b].contact] IN
                          /\ Len(g) > 0 /\ g[Len(g)] = adder'[b].message
                          /\ \A i \in 1 .. Len(g) - 1 : g[i] # adder'[b].message
        BY DEF RawIsLast
      <4>1. b # a /\ adder'[b] = adder[b] /\ at(b) = "fill"
        BY <3>2 DEF at
      <4> QED BY <3>1, <3>3, <4>1 DEF RawIsLast
    <3>7. LastIsBehind'
      <4> SUFFICES ASSUME NEW b \in Adder, at(b)' = "link"
                   PROVE  LET g == history'[adder'[b].contact] IN
                          /\ adder'[b].last <= Len(g)
                          /\ \A d \in Adder : at(d)' = "fill" /\ adder'[d].contact = adder'[b].contact
                                                => adder'[b].last < Len(g)
        BY DEF LastIsBehind
      <4>1. \A d \in Adder : at(d)' = "fill" => adder'[d] = adder[d] /\ at(d) = "fill"
        BY <3>2 DEF at
      <4>2. CASE b = a
        BY <3>1, <3>2, <3>4, <4>1, <4>2
      <4>3. CASE b # a
        <5>1. adder'[b] = adder[b] /\ at(b) = "link"
          BY <3>2, <4>3 DEF at
        <5> QED BY <3>1, <3>3, <4>1, <5>1 DEF LastIsBehind
      <4> QED BY <4>2, <4>3
    <3> QED BY <3>5, <3>6, <3>7
  <2>5. CASE Link(a)
    <3> SUFFICES ASSUME "add" \notin raced'
                 PROVE  (MessagesCounted /\ ContactsCounted /\ RawIsLast /\ LastIsBehind)'
      BY DEF CountInv
    <3> DEFINE c == adder[a].contact
               m == adder[a].message
               h == history[c]
    <3>1. /\ at(a) = "link" /\ "add" \notin raced
          /\ Len(h) = adder[a].last
          /\ adder' = [adder EXCEPT ![a].at = "fill"]
          /\ UNCHANGED <<contacts, contactCount, messages>>
          /\ c \in Contact /\ h \in Seq(Message) /\ Len(h) \in Nat /\ m \in Message
          /\ messages \in [Contact -> Nat]
      BY <2>5 DEF Link, Goto, target, AdderTypes, ListTypes
    <3>2. history' = [history EXCEPT ![c] = Append(h, m)]
      <4>1. SubSeq(h, 1, Len(h)) = h
        BY <3>1, SubSeqFull
      <4>2. ~(adder[a].last > Len(h))
        BY <3>1
      <4>3. history' = [history EXCEPT ![c] = IF adder[a].last > Len(h) THEN h
                          ELSE Append(SubSeq(h, 1, adder[a].last), m)]
        BY <2>5 DEF Link
      <4> QED BY <3>1, <4>1, <4>2, <4>3
    <3>3. /\ at(a)' = "fill" /\ adder'[a].contact = c /\ adder'[a].message = m
          /\ \A b \in Adder : b # a => adder'[b] = adder[b]
      BY <3>1, GotoFields DEF AdderTypes, at
    <3>4. MessagesCounted /\ ContactsCounted /\ RawIsLast /\ LastIsBehind
      BY <3>1 DEF CountInv
    <3>5. /\ history'[c] = Append(h, m)
          /\ \A d \in Contact : d # c => history'[d] = history[d]
      BY <3>1, <3>2 DEF ListTypes
    <3>6. /\ Len(history'[c]) = Len(h) + 1 /\ history'[c][Len(h) + 1] = m
          /\ \A i \in 1 .. Len(h) : history'[c][i] = h[i] /\ i \in DOMAIN h
      <4>1. /\ Len(Append(h, m)) = Len(h) + 1 /\ Append(h, m)[Len(h) + 1] = m
            /\ \A i \in 1 .. Len(h) : Append(h, m)[i] = h[i]
        <5>1. h \in Seq(Message) /\ m \in Message
          BY <3>1
        <5> HIDE DEF h, m
        <5> QED BY <5>1, AppendProperties
      <4>2. DOMAIN h = 1 .. Len(h)
        BY <3>1
      <4> QED BY <3>5, <4>1, <4>2
    <3>7. \A b \in Adder : at(b) = "fill" => adder[b].contact # c
      BY <3>1, <3>4 DEF LastIsBehind
    <3>8. \A i \in 1 .. Len(h) : h[i] # m
      <4>1. ~Stored(history, m)
        BY <3>1 DEF FreshMessages, Adds
      <4> QED BY <3>1, <3>6, <4>1 DEF Stored
    <3>9. ContactsCounted'
      BY <3>1, <3>3, <3>4 DEF ContactsCounted, Listed, at
    <3>10. MessagesCounted'
      <4>1. \A b \in Adder : b # a => \A d \in Contact : Linked(b, d)' = Linked(b, d)
        BY <3>3 DEF Linked, at
      <4>2. \A d \in Contact : /\ Linked(a, d) = 0
                               /\ Linked(a, d)' = IF d = c THEN 1 ELSE 0
        BY <3>1, <3>3 DEF Linked
      <4>3. \A b \in Adder, d \in Contact : Linked(b, d) \in Nat
        BY DEF Linked
      <4> SUFFICES ASSUME NEW d \in Contact
                   PROVE  messages'[d] + Linked("main", d)' + Linked("socket", d)'
                            = Len(history'[d])
        BY DEF MessagesCounted
      <4>4. messages[d] + Linked("main", d) + Linked("socket", d) = Len(history[d])
            /\ messages[d] \in Nat /\ messages'[d] = messages[d]
        BY <3>1, <3>4 DEF MessagesCounted
      <4>5. /\ d = c => Len(history'[d]) = Len(history[d]) + 1
            /\ d # c => Len(history'[d]) = Len(history[d])
            /\ Len(history[d]) \in Nat
        <5>1. history[d] \in Seq(Message)
          BY DEF ListTypes
        <5>2. Len(history[d]) \in Nat
          BY <5>1
        <5> QED BY <3>5, <3>6, <5>2
      <4>6. CASE a = "main"
        <5>1. Linked("socket", d)' = Linked("socket", d)
          BY <4>1, <4>6
        <5>2. /\ Linked("main", d) = 0
              /\ d = c => Linked("main", d)' = 1
              /\ d # c => Linked("main", d)' = 0
          BY <4>2, <4>6
        <5>3. Linked("socket", d) \in Nat
          BY <4>3
        <5> HIDE DEF c, h, m
        <5> QED BY <4>4, <4>5, <5>1, <5>2, <5>3
      <4>7. CASE a = "socket"
        <5>1. Linked("main", d)' = Linked("main", d)
          BY <4>1, <4>7
        <5>2. /\ Linked("socket", d) = 0
              /\ d = c => Linked("socket", d)' = 1
              /\ d # c => Linked("socket", d)' = 0
          BY <4>2, <4>7
        <5>3. Linked("main", d) \in Nat
          BY <4>3
        <5> HIDE DEF c, h, m
        <5> QED BY <4>4, <4>5, <5>1, <5>2, <5>3
      <4> QED BY <4>6, <4>7
    <3>11. RawIsLast'
      <4> SUFFICES ASSUME NEW b \in Adder, at(b)' = "fill"
                   PROVE  LET g == history'[adder'[b].contact] IN
                          /\ Len(g) > 0 /\ g[Len(g)] = adder'[b].message
                          /\ \A i \in 1 .. Len(g) - 1 : g[i] # adder'[b].message
        BY DEF RawIsLast
      <4>1. CASE b = a
        <5>1. history'[adder'[b].contact] = history'[c] /\ adder'[b].message = m
          BY <3>3, <4>1
        <5>2. Len(history'[c]) - 1 = Len(h) /\ Len(history'[c]) > 0
          BY <3>1, <3>6
        <5> QED BY <3>6, <3>8, <5>1, <5>2
      <4>2. CASE b # a
        <5>1. adder'[b] = adder[b] /\ at(b) = "fill"
          BY <3>3, <4>2 DEF at
        <5>2. adder[b].contact # c /\ adder[b].contact \in Contact
          BY <3>7, <5>1 DEF AdderTypes
        <5> QED BY <3>4, <3>5, <5>1, <5>2 DEF RawIsLast
      <4> QED BY <4>1, <4>2
    <3>12. LastIsBehind'
      <4> SUFFICES ASSUME NEW b \in Adder, at(b)' = "link"
                   PROVE  LET g == history'[adder'[b].contact] IN
                          /\ adder'[b].last <= Len(g)
                          /\ \A d \in Adder : at(d)' = "fill" /\ adder'[d].contact = adder'[b].contact
                                                => adder'[b].last < Len(g)
        BY DEF LastIsBehind
      <4>1. b # a /\ adder'[b] = adder[b] /\ at(b) = "link"
        BY <3>3 DEF at
      <4>2. adder[b].contact \in Contact /\ adder[b].last \in Nat
        BY <4>1 DEF AdderTypes, Addition
      <4>3. CASE adder[b].contact = c
        <5>1. adder[b].last <= Len(h)
          BY <3>4, <4>1, <4>3 DEF LastIsBehind
        <5>2. history'[adder'[b].contact] = history'[c] /\ adder'[b].last = adder[b].last
          BY <4>1, <4>3
        <5>3. adder[b].last < Len(history'[c]) /\ adder[b].last <= Len(history'[c])
          BY <3>1, <3>6, <4>2, <5>1
        <5> QED BY <5>2, <5>3
      <4>4. CASE adder[b].contact # c
        <5>1. history'[adder[b].contact] = history[adder[b].contact]
          BY <3>5, <4>2, <4>4
        <5>2. \A d \in Adder : at(d)' = "fill" /\ adder'[d].contact = adder[b].contact
                               => at(d) = "fill" /\ adder[d].contact = adder[b].contact
          BY <3>3, <4>4 DEF at
        <5> QED BY <3>4, <4>1, <5>1, <5>2 DEF LastIsBehind
      <4> QED BY <4>3, <4>4
    <3> QED BY <3>9, <3>10, <3>11, <3>12
  <2>6. CASE Fill(a)
    <3> SUFFICES ASSUME "add" \notin raced'
                 PROVE  (MessagesCounted /\ ContactsCounted /\ RawIsLast /\ LastIsBehind)'
      BY DEF CountInv
    <3> DEFINE c == adder[a].contact
               m == adder[a].message
               h == history[c]
    <3>1. /\ at(a) = "fill" /\ "add" \notin raced
          /\ adder' = [adder EXCEPT ![a].at = "count"]
          /\ UNCHANGED <<contacts, contactCount, messages>>
          /\ c \in Contact /\ h \in Seq(Message) /\ Len(h) \in Nat /\ m \in Message
      BY <2>6 DEF Fill, Goto, AdderTypes, ListTypes
    <3>2. MessagesCounted /\ ContactsCounted /\ RawIsLast /\ LastIsBehind
      BY <3>1 DEF CountInv
    <3>3. history' = history
      <4>1. Contains(h, m) /\ \A i \in 1 .. Len(h) : h[i] = m => i = Len(h)
        <5>1. /\ Len(h) > 0 /\ h[Len(h)] = m
              /\ \A i \in 1 .. Len(h) - 1 : h[i] # m
          BY <3>1, <3>2 DEF RawIsLast
        <5>2. \A i \in 1 .. Len(h) : i = Len(h) \/ i \in 1 .. Len(h) - 1
          BY <3>1
        <5>3. Len(h) \in 1 .. Len(h)
          BY <3>1, <5>1
        <5> QED BY <5>1, <5>2, <5>3 DEF Contains
      <4>2. Place(h, m) = Len(h)
        BY <3>1, <4>1, PlaceInside
      <4>3. SubSeq(h, 1, Len(h)) = h
        BY <3>1, SubSeqFull
      <4>4. history' = [history EXCEPT ![c] = h]
        BY <2>6, <4>1, <4>2, <4>3 DEF Fill
      <4> QED BY <4>4 DEF ListTypes
    <3>4. /\ at(a)' = "count" /\ adder'[a].contact = c
          /\ \A b \in Adder : b # a => adder'[b] = adder[b]
      BY <3>1, GotoFields DEF AdderTypes, at
    <3>5. MessagesCounted' /\ ContactsCounted'
      BY <3>1, <3>2, <3>3, <3>4 DEF MessagesCounted, ContactsCounted, Linked,
         Listed, at
    <3>6. RawIsLast'
      <4> SUFFICES ASSUME NEW b \in Adder, at(b)' = "fill"
                   PROVE  LET g == history'[adder'[b].contact] IN
                          /\ Len(g) > 0 /\ g[Len(g)] = adder'[b].message
                          /\ \A i \in 1 .. Len(g) - 1 : g[i] # adder'[b].message
        BY DEF RawIsLast
      <4>1. adder'[b] = adder[b] /\ at(b) = "fill"
        BY <3>4 DEF at
      <4> QED BY <3>2, <3>3, <4>1 DEF RawIsLast
    <3>7. LastIsBehind'
      <4> SUFFICES ASSUME NEW b \in Adder, at(b)' = "link"
                   PROVE  LET g == history'[adder'[b].contact] IN
                          /\ adder'[b].last <= Len(g)
                          /\ \A d \in Adder : at(d)' = "fill" /\ adder'[d].contact = adder'[b].contact
                                                => adder'[b].last < Len(g)
        BY DEF LastIsBehind
      <4>1. \A d \in Adder : at(d)' = "fill" => adder'[d] = adder[d] /\ at(d) = "fill"
        BY <3>4 DEF at
      <4>2. adder'[b] = adder[b] /\ at(b) = "link"
        BY <3>4 DEF at
      <4> QED BY <3>2, <3>3, <4>1, <4>2 DEF LastIsBehind
    <3> QED BY <3>5, <3>6, <3>7
  <2>7. CASE CountMessage(a)
    <3> SUFFICES ASSUME "add" \notin raced'
                 PROVE  (MessagesCounted /\ ContactsCounted /\ RawIsLast /\ LastIsBehind)'
      BY DEF CountInv
    <3> DEFINE c == adder[a].contact
    <3>1. /\ at(a) = "count" /\ "add" \notin raced
          /\ adder' = [adder EXCEPT ![a].at = "event"]
          /\ messages' = [messages EXCEPT ![c] = messages[c] + 1]
          /\ UNCHANGED <<contacts, contactCount, history>>
          /\ c \in Contact /\ messages \in [Contact -> Nat]
      BY <2>7 DEF CountMessage, Goto, AdderTypes, ListTypes
    <3>2. MessagesCounted /\ ContactsCounted /\ RawIsLast /\ LastIsBehind
      BY <3>1 DEF CountInv
    <3>3. /\ at(a)' = "event" /\ adder'[a].contact = c
          /\ \A b \in Adder : b # a => adder'[b] = adder[b]
      BY <3>1, GotoFields DEF AdderTypes, at
    <3>4. MessagesCounted'
      <4>1. \A b \in Adder : b # a => \A d \in Contact : Linked(b, d)' = Linked(b, d)
        BY <3>3 DEF Linked, at
      <4>2. \A d \in Contact : /\ Linked(a, d)' = 0
                               /\ Linked(a, d) = IF d = c THEN 1 ELSE 0
        BY <3>1, <3>3 DEF Linked
      <4>3. \A b \in Adder, d \in Contact : Linked(b, d) \in Nat
        BY DEF Linked
      <4>4. CASE a = "main"
        BY <3>1, <3>2, <4>1, <4>2, <4>3, <4>4 DEF MessagesCounted
      <4>5. CASE a = "socket"
        BY <3>1, <3>2, <4>1, <4>2, <4>3, <4>5 DEF MessagesCounted
      <4> QED BY <4>4, <4>5
    <3>5. ContactsCounted'
      BY <3>1, <3>2, <3>3 DEF ContactsCounted, Listed, at
    <3>6. RawIsLast'
      BY <3>1, <3>2, <3>3 DEF RawIsLast, at
    <3>7. LastIsBehind'
      BY <3>1, <3>2, <3>3 DEF LastIsBehind, at
    <3> QED BY <3>4, <3>5, <3>6, <3>7
  <2> QED BY <1>3, <2>1, <2>2, <2>3, <2>4, <2>5, <2>6, <2>7 DEF ListStep,
             createContact
<1>4. CASE AddStep
  <2>1. PICK a \in Adder, c \in Contact, v \in MessageState, place \in {"find", "next"} :
          Add(a, c, v, place)
    BY <1>4 DEF AddStep
  <2>2. /\ at(a) = "idle" /\ at(a)' = place
        /\ \A b \in Adder : b # a => adder'[b] = adder[b]
        /\ UNCHANGED <<contacts, contactCount, history, messages, raced>>
    BY <2>1 DEF Add, AdderTypes, at
  <2> QED BY <2>2, CountsKept DEF at
<1>5. ASSUME NEW c \in Contact, createChat(c)
      PROVE  CountInv'
  <2>1. /\ at("main")' = "next" /\ at("main") = "idle" /\ adder'["socket"] = adder["socket"]
        /\ UNCHANGED <<contacts, contactCount, history, messages, raced>>
    BY <1>5, FreshFields DEF createChat, AdderTypes, at
  <2> QED BY <2>1, CountsKept DEF at
<1>6. ASSUME NEW a \in Adder, MessageAdded(a)
      PROVE  CountInv'
  <2>1. /\ at(a)' = "idle" /\ at(a) = "event"
        /\ \A b \in Adder : b # a => adder'[b] = adder[b]
        /\ UNCHANGED <<contacts, contactCount, history, messages, raced>>
    BY <1>6 DEF MessageAdded, AdderTypes, Idle, at
  <2> QED BY <2>1, CountsKept DEF at
<1> QED BY <1>1, <1>2, <1>3, <1>4, <1>5, <1>6, Cases

LEMMA StutterCount == CountInv /\ UNCHANGED allVars => CountInv'
BY DEF CountInv, MessagesCounted, ContactsCounted, RawIsLast, LastIsBehind, Linked,
       Listed, at, allVars, historyVars

-----------------------------------------------------------------------------
(***************************************************************************)
(* What printChatHistory skips is no more than there has been counted      *)
(***************************************************************************)
Skipped ==
  \A p \in Printer : printer[p].at = "frame" => printer[p].skip <= messages[contact]

WalkInv == Skipped /\ (crashed = "history" => raced # {})

LEMMA InitWalk == ChatsInit => WalkInv
BY DEF ChatsInit, WalkInv, Skipped, Asleep

LEMMA SkipBounded ==
  ASSUME ListTypes, NEW c \in Contact, NEW from \in Nat
  PROVE  Call(c, from).at = "frame" /\ Call(c, from).skip <= messages[c]
<1>1. messages[c] \in Nat /\ Height \in Nat
  BY DEF ListTypes
<1>2. Skip(messages[c], from) <= messages[c]
  BY <1>1 DEF Skip
<1> QED BY <1>2, CallType

LEMMA Grow ==
  ASSUME ChatsTypes, ChatsNext
  PROVE  /\ raced \subseteq raced'
         /\ \A c \in Contact : messages'[c] \in Nat /\ messages[c] <= messages'[c]
<1>1. messages \in [Contact -> Nat]
  BY DEF ChatsTypes, ListTypes
<1>2. messages' = messages \/ \E a \in Adder : CountMessage(a)
  BY Cases DEF QuietStep, SenderStep, ListStep, createContact, AddStep, Add,
     createChat,
     MessageAdded, SetNext, SetContacts, CountContact, FindLast, Link, Fill,
     listVars
<1>3. raced \subseteq raced'
  BY Cases DEF QuietStep, SenderStep, ListStep, createContact, AddStep, Add,
     createChat,
     MessageAdded, SetNext, SetContacts, CountContact, FindLast, Link, Fill,
     CountMessage
<1>4. ASSUME NEW a \in Adder, CountMessage(a), NEW c \in Contact
      PROVE  messages'[c] \in Nat /\ messages[c] <= messages'[c]
  BY <1>1, <1>4 DEF CountMessage
<1> QED BY <1>1, <1>2, <1>3, <1>4

LEMMA StepWalk ==
  ASSUME ChatsTypes, CountInv, WalkInv, ChatsNext
  PROVE  WalkInv'
<1> USE DEF ChatsTypes
<1>0. /\ crashed = "no" /\ raced \subseteq raced' /\ Skipped
      /\ \A c \in Contact : messages[c] \in Nat /\ messages'[c] \in Nat
                            /\ messages[c] <= messages'[c]
  BY Grow DEF ChatsNext, WalkInv, ListTypes
<1>01. \A p \in Printer : printer[p].at = "frame" =>
         /\ contact \in Contact /\ printer[p].skip \in Int
         /\ ui \in {"print", "chat", "send", "scroll", "scrolled"}
  BY DEF ScreenTypes, PrinterState
<1>02. ASSUME UNCHANGED crashed, UNCHANGED printer, contact' = contact \/ ui \in {"menu", "list", "keys"}
       PROVE  WalkInv'
  BY <1>0, <1>01, <1>02 DEF WalkInv, Skipped
<1>1. CASE UNCHANGED chatVars
  BY <1>02, <1>1 DEF Skipped, chatVars
<1>2. CASE OpenList \/ ScrollList \/ LeaveList \/ ToggleScroll \/ Scroll \/ sendMessage
  BY <1>02, <1>2 DEF OpenList, ScrollList, LeaveList, ToggleScroll, Scroll,
     sendMessage, chatVars
<1>3. CASE clearScreen \/ Redraw \/ Scrolled \/ MessageSent
  BY <1>02, <1>3 DEF clearScreen, Redraw, Scrolled, MessageSent, chatVars
<1>4. ASSUME NEW m \in Message, sendMessageThread(m)
      PROVE  WalkInv'
  BY <1>02, <1>4 DEF sendMessageThread, MessageAnswered, printNotification,
         MessageFailed, StateShown
<1>5. ASSUME NEW k \in 0 .. Cardinality(Contact) + 1, ChooseNothing(k) \/ ChooseChat(k)
      PROVE  WalkInv'
  BY <1>0, <1>01, <1>5 DEF ChooseNothing, ChooseChat, WalkInv, Skipped
<1>6. CASE printContacts
  BY <1>0, <1>01, <1>6 DEF printContacts, WalkInv, Skipped, historyVars
<1>7. CASE TerminateThread
  BY <1>0, <1>01, <1>7 DEF TerminateThread, WalkInv, Skipped, historyVars, Asleep,
     ScreenTypes
<1>8. CASE openChat
  BY <1>0, <1>01, <1>8, SkipBounded DEF openChat, WalkInv, Skipped, historyVars,
     ScreenTypes
<1>9. CASE CreateThread
  BY <1>0, <1>01, <1>9, PrinterFields DEF CreateThread, WalkInv, Skipped,
     historyVars, ScreenTypes
<1>10. CASE UpdateWoken
  BY <1>0, <1>01, <1>10, SkipBounded DEF UpdateWoken, WalkInv, Skipped, ScreenTypes
<1>11. ASSUME NEW p \in Printer, PrintFrame(p)
      PROVE  WalkInv'
  <2>1. raced = {} => printer[p].skip <= Len(history[contact])
    <3> SUFFICES ASSUME raced = {}
                 PROVE  printer[p].skip <= Len(history[contact])
      OBVIOUS
    <3>1. contact \in Contact /\ printer[p].skip \in Int /\ printer[p].skip <= messages[contact]
      BY <1>0, <1>01, <1>11 DEF PrintFrame, Skipped
    <3>2. messages[contact] + Linked("main", contact) + Linked("socket", contact)
            = Len(history[contact])
      BY <3>1 DEF CountInv, MessagesCounted
    <3>3. Linked("main", contact) \in Nat /\ Linked("socket", contact) \in Nat
          /\ messages[contact] \in Nat
      BY <1>0, <3>1 DEF Linked
    <3> QED BY <3>1, <3>2, <3>3
  <2>2. /\ UNCHANGED <<historyVars, contact>>
        /\ \/ /\ printer[p].skip > Len(history[contact])
              /\ crashed' = "history" /\ printer' = printer
           \/ crashed' = "no" /\ printer' = [printer EXCEPT ![p].at = "rows"]
    BY <1>0, <1>11 DEF PrintFrame
  <2>3. Len(history[contact]) \in Nat /\ printer[p].skip \in Int
    <3>1. contact \in Contact /\ printer[p].skip \in Int
      BY <1>01, <1>11 DEF PrintFrame
    <3>2. history[contact] \in Seq(Message)
      BY <3>1 DEF ListTypes
    <3> QED BY <3>1, <3>2
  <2>4. CASE printer[p].skip > Len(history[contact]) /\ crashed' = "history" /\ printer' = printer
    BY <1>0, <2>1, <2>2, <2>3, <2>4 DEF WalkInv, Skipped, historyVars
  <2>5. CASE crashed' = "no" /\ printer' = [printer EXCEPT ![p].at = "rows"]
    BY <1>0, <2>2, <2>5, PrinterFields DEF WalkInv, Skipped, historyVars,
       ScreenTypes
  <2> QED BY <2>2, <2>4, <2>5
<1>12. ASSUME NEW p \in Printer, PrintRows(p)
      PROVE  WalkInv'
  <2>1. /\ printer' = [printer EXCEPT ![p] = [Asleep EXCEPT !.at = "redraw"]]
        /\ UNCHANGED <<contact, messages>>
        /\ crashed' = "history" => raced' # {}
    BY <1>0, <1>12 DEF PrintRows
  <2> QED BY <1>0, <2>1, PrintedFields DEF WalkInv, Skipped, ScreenTypes
<1>13. ASSUME NEW p \in Printer, PrintRedraw(p)
      PROVE  WalkInv'
  <2>1. /\ UNCHANGED <<contact, messages, crashed>>
        /\ \E place \in {"none", "wait"} : printer' = [printer EXCEPT ![p].at = place]
    BY <1>13 DEF PrintRedraw, historyVars
  <2> QED BY <1>0, <2>1, PrinterFields DEF WalkInv, Skipped, ScreenTypes
<1> QED
  BY <1>1, <1>2, <1>3, <1>4, <1>5, <1>6, <1>7, <1>8, <1>9, <1>10, <1>11, <1>12,
     <1>13
  DEF ChatsNext, UserStep, MainStep, SocketStep, DrawStep, chatUpdateThread,
      printChatHistory, chatVars

LEMMA StutterWalk == WalkInv /\ UNCHANGED allVars => WalkInv'
BY DEF WalkInv, Skipped, allVars, historyVars, chatVars

-----------------------------------------------------------------------------
(***************************************************************************)
(* What the open chat shows                                                *)
(***************************************************************************)
ChatPlace == {"chat", "send", "scroll", "scrolled"}

(* A chat is scrolled only while it is open, and not out of its history. *)
PositionInside ==
  startFrom > 0 => ui \in ChatPlace /\ startFrom + Height <= messages[contact]

LEMMA InitPosition == ChatsInit => PositionInside
BY DEF ChatsInit, PositionInside

(* While a chat is open the main thread scrolls it or leaves it. *)
LEMMA ChatStays ==
  ASSUME ChatsTypes, ChatsNext, ui \in ChatPlace
  PROVE  \/ TerminateThread
         \/ /\ ui' \in ChatPlace /\ contact' = contact
            /\ startFrom' = startFrom \/ Scroll
<1>1. CASE UserStep
  BY <1>1 DEF UserStep, OpenList, ScrollList, LeaveList, ChooseNothing, ChooseChat,
     ToggleScroll, Scroll, sendMessage, ChatPlace, chatVars
<1>2. CASE MainStep
  <2>1. ASSUME printChatHistory("main")
        PROVE  UNCHANGED <<ui, contact, startFrom>>
    BY <2>1 DEF printChatHistory, PrintFrame, PrintRows, PrintRedraw
  <2> QED BY <1>2, <2>1 DEF MainStep, printContacts, openChat, CreateThread, clearScreen,
             Redraw, Scrolled, MessageSent, ChatPlace, chatVars
<1>3. CASE chatUpdateThread \/ SocketStep \/ DrawStep
  BY <1>3 DEF chatUpdateThread, UpdateWoken, printChatHistory, PrintFrame, PrintRows,
     PrintRedraw, SocketStep, DrawStep, chatVars
<1>4. ASSUME NEW m \in Message, sendMessageThread(m)
      PROVE  UNCHANGED <<ui, contact, startFrom>>
  BY <1>4 DEF sendMessageThread, MessageAnswered, printNotification, MessageFailed,
     StateShown
<1> QED BY <1>1, <1>2, <1>3, <1>4 DEF ChatsNext

(* Only scrolling moves the position, and leaving the chat resets it. *)
LEMMA PositionStays ==
  ASSUME ChatsTypes, ChatsNext, ui \notin ChatPlace
  PROVE  startFrom' = startFrom
<1>1. ASSUME NEW p \in Printer, printChatHistory(p)
      PROVE  startFrom' = startFrom
  BY <1>1 DEF printChatHistory, PrintFrame, PrintRows, PrintRedraw
<1>2. ASSUME NEW m \in Message, sendMessageThread(m)
      PROVE  startFrom' = startFrom
  BY <1>2 DEF sendMessageThread, MessageAnswered, printNotification, MessageFailed,
     StateShown
<1>3. CASE UserStep
  BY <1>3 DEF UserStep, OpenList, ScrollList, LeaveList, ChooseNothing, ChooseChat,
     TerminateThread, ToggleScroll, Scroll, sendMessage, ChatPlace, chatVars
<1>4. CASE MainStep
  BY <1>1, <1>4 DEF MainStep, printContacts, openChat, CreateThread, clearScreen,
     Redraw, Scrolled, MessageSent, chatVars
<1>5. CASE chatUpdateThread \/ SocketStep \/ DrawStep
  BY <1>1, <1>5 DEF chatUpdateThread, UpdateWoken, SocketStep, DrawStep, chatVars
<1> QED BY <1>2, <1>3, <1>4, <1>5 DEF ChatsNext

LEMMA StepPosition ==
  ASSUME ChatsTypes, PositionInside, ChatsNext
  PROVE  PositionInside'
<1>1. /\ startFrom \in Nat /\ Height \in Nat
      /\ ui \in ChatPlace => contact \in Contact
      /\ \A c \in Contact : /\ messages[c] \in Nat /\ messages'[c] \in Nat
                            /\ messages[c] <= messages'[c]
  BY Grow DEF ChatsTypes, ListTypes, ScreenTypes, ChatPlace
<1>2. CASE ui \notin ChatPlace
  BY <1>1, <1>2, PositionStays DEF PositionInside
<1>3. CASE TerminateThread
  BY <1>3 DEF TerminateThread, PositionInside
<1>4. CASE Scroll
  <2>1. /\ ui' = "scrolled" /\ contact' = contact /\ contact \in Contact
        /\ UNCHANGED messages
        /\ \/ messages[contact] - startFrom > Height /\ startFrom' = startFrom + 1
           \/ startFrom > 0 /\ startFrom' = startFrom - 1
    BY <1>1, <1>4 DEF Scroll, historyVars, ChatPlace
  <2>2. startFrom' > 0 => startFrom' + Height <= messages[contact]
    BY <1>1, <2>1 DEF PositionInside
  <2> QED BY <2>1, <2>2 DEF PositionInside, ChatPlace
<1>5. CASE ui' \in ChatPlace /\ contact' = contact /\ startFrom' = startFrom /\ ui \in ChatPlace
  BY <1>1, <1>5 DEF PositionInside
<1> QED BY <1>2, <1>3, <1>4, <1>5, ChatStays

LEMMA StutterPosition == PositionInside /\ UNCHANGED allVars => PositionInside'
BY DEF PositionInside, allVars, historyVars, chatVars

(* A node that is not filled is in the history of its contact only. *)
RawAtHome ==
  \A a \in Adder : at(a) = "fill" =>
    \A c \in Contact \ {adder[a].contact} :
      \A i \in DOMAIN history[c] : history[c][i] # adder[a].message

LEMMA InitRaw == ChatsInit => RawAtHome
BY DEF ChatsInit, HistoriesInit, RawAtHome, at, Idle

LEMMA StepRaw ==
  ASSUME ChatsTypes, FreshMessages, RawAtHome, ChatsNext
  PROVE  RawAtHome'
<1> USE DEF ChatsTypes
<1>1. ASSUME history' = history,
             \A a \in Adder : at(a)' = "fill" => adder'[a] = adder[a]
      PROVE  RawAtHome'
  BY <1>1 DEF RawAtHome, at
<1>2. CASE QuietStep
  BY <1>1, <1>2 DEF QuietStep, listVars
<1>3. ASSUME NEW m \in Message, SenderStep(m)
      PROVE  RawAtHome'
  BY <1>1, <1>3 DEF SenderStep, listVars
<1>4. ASSUME NEW a \in Adder, ListStep(a)
      PROVE  RawAtHome'
  <2> DEFINE c == adder[a].contact
             m == adder[a].message
  <2>1. CASE SetNext(a) \/ SetContacts(a) \/ CountMessage(a)
    <3>1. /\ history' = history
          /\ \E place \in {"contacts", "counted", "event"} :
               adder' = [adder EXCEPT ![a].at = place]
      BY <2>1 DEF SetNext, SetContacts, CountMessage, Goto
    <3> QED BY <1>1, <3>1, GotoFields DEF AdderTypes, at
  <2>2. CASE CountContact(a)
    <3>1. history' = history /\ \A b \in Adder : b # a => adder'[b] = adder[b]
      BY <2>2 DEF CountContact, AdderTypes
    <3>2. at(a)' # "fill"
      <4>1. CASE a = "main"
        BY <2>2, <4>1 DEF CountContact, AdderTypes, Idle, at
      <4>2. CASE a = "socket"
        <5>1. adder' = [adder EXCEPT ![a].at = "find"]
          BY <2>2, <4>2 DEF CountContact
        <5> QED BY <5>1, GotoFields DEF AdderTypes, at
      <4> QED BY <4>1, <4>2
    <3> QED BY <1>1, <3>1, <3>2
  <2>3. CASE FindLast(a)
    <3>1. /\ adder' = [adder EXCEPT ![a].at = "link", ![a].last = Len(target(a))]
          /\ Len(target(a)) \in Nat /\ history' = history
      BY <2>3, WalkedType DEF FindLast, AdderTypes
    <3> QED BY <1>1, <3>1, FoundFields DEF AdderTypes, at
  <2>4. CASE Link(a)
    <3>1. /\ at(a) = "link" /\ c \in Contact /\ adder' = [adder EXCEPT ![a].at = "fill"]
          /\ \A d \in Contact \ {c} : history'[d] = history[d]
      BY <2>4 DEF Link, Goto, ListTypes, AdderTypes
    <3>2. /\ adder'[a].contact = c /\ adder'[a].message = m
          /\ \A b \in Adder : b # a => adder'[b] = adder[b]
      BY <3>1, GotoFields DEF AdderTypes
    <3>3. ~Stored(history, m) /\ \A b \in Adder : b # a /\ at(b) = "fill" => adder[b].message # m
      BY <3>1 DEF FreshMessages, Adds
    <3>4. \A i \in DOMAIN history'[c] :
            history'[c][i] = m \/ \E j \in DOMAIN history[c] : history'[c][i] = history[c][j]
      BY <2>4, LinkEntries
    <3> SUFFICES ASSUME NEW b \in Adder, at(b)' = "fill",
                        NEW d \in Contact \ {adder'[b].contact}, NEW i \in DOMAIN history'[d]
                 PROVE  history'[d][i] # adder'[b].message
      BY DEF RawAtHome
    <3>5. CASE b = a
      BY <3>1, <3>2, <3>3, <3>5 DEF Stored
    <3>6. CASE b # a
      <4>1. adder'[b] = adder[b] /\ at(b) = "fill"
        BY <3>2, <3>6 DEF at
      <4>2. \A j \in DOMAIN history[d] : history[d][j] # adder[b].message
        BY <4>1 DEF RawAtHome
      <4> QED BY <3>1, <3>3, <3>4, <3>6, <4>1, <4>2
    <3> QED BY <3>5, <3>6
  <2>5. CASE Fill(a)
    <3>1. /\ c \in Contact /\ adder' = [adder EXCEPT ![a].at = "count"]
          /\ \A d \in Contact \ {c} : history'[d] = history[d]
      BY <2>5 DEF Fill, Goto, ListTypes, AdderTypes
    <3>2. /\ at(a)' = "count" /\ \A b \in Adder : b # a => adder'[b] = adder[b]
      BY <3>1, GotoFields DEF AdderTypes, at
    <3>3. \A i \in DOMAIN history'[c] : \E j \in DOMAIN history[c] : history'[c][i] = history[c][j]
      BY <2>5, FillEntries
    <3> SUFFICES ASSUME NEW b \in Adder, at(b)' = "fill",
                        NEW d \in Contact \ {adder'[b].contact}, NEW i \in DOMAIN history'[d]
                 PROVE  history'[d][i] # adder'[b].message
      BY DEF RawAtHome
    <3>4. b # a /\ adder'[b] = adder[b] /\ at(b) = "fill"
      BY <3>2 DEF at
    <3>5. \A j \in DOMAIN history[d] : history[d][j] # adder[b].message
      BY <3>4 DEF RawAtHome
    <3> QED BY <3>1, <3>3, <3>4, <3>5
  <2> QED BY <1>4, <2>1, <2>2, <2>3, <2>4, <2>5 DEF ListStep, createContact
<1>5. CASE AddStep
  <2>1. PICK a \in Adder, c \in Contact, v \in MessageState, place \in {"find", "next"} :
          Add(a, c, v, place)
    BY <1>5 DEF AddStep
  <2> QED BY <1>1, <2>1 DEF Add, AdderTypes, at
<1>6. ASSUME NEW c \in Contact, createChat(c)
      PROVE  RawAtHome'
  BY <1>1, <1>6, FreshFields DEF createChat, AdderTypes, at
<1>7. ASSUME NEW a \in Adder, MessageAdded(a)
      PROVE  RawAtHome'
  BY <1>1, <1>7 DEF MessageAdded, AdderTypes, Idle, at
<1> QED BY <1>2, <1>3, <1>4, <1>5, <1>6, <1>7, Cases

LEMMA StutterRaw == RawAtHome /\ UNCHANGED allVars => RawAtHome'
BY DEF RawAtHome, at, allVars, historyVars

(* Nothing is about to change the rows but a printer. *)
Calm == ~messageEvent /\ ~changing /\ raced = {}

(* The main thread until it has created the update thread, and this one *)
Active(p) == IF p = "main" THEN ui = "print" ELSE printer[p].at # "none"

(* Before it has printed the rows, a printer knows what to print; then     *)
(* they stand in the buffer.                                               *)
PrinterKnows(p) ==
  IF printer[p].at \in {"frame", "rows"}
    THEN /\ printer[p].skip = Skip(messages[contact], startFrom)
         /\ printer[p].empty <=> history[contact] = <<>>
    ELSE RowsAreCurrent

ScreenInv ==
  crashed = "no" /\ Calm => \A p \in Printer : Active(p) => PrinterKnows(p)

LEMMA InitScreen == ChatsInit => ScreenInv
BY DEF ChatsInit, ScreenInv, Active, Asleep

LEMMA CallFields ==
  ASSUME NEW c, NEW from
  PROVE  /\ Call(c, from).at = "frame"
         /\ Call(c, from).skip = Skip(messages[c], from)
         /\ Call(c, from).empty <=> history[c] = <<>>
<1> DEFINE none == history[c] = <<>>
           skip == Skip(messages[c], from)
           call == [at |-> "frame", skip |-> skip, empty |-> none]
<1>1. Call(c, from) = call
  BY DEF Call
<1> HIDE DEF none, skip
<1>2. call.at = "frame" /\ call.skip = skip /\ call.empty = none
  OBVIOUS
<1> HIDE DEF call
<1> QED BY <1>1, <1>2 DEF none, skip

LEMMA OneActive ==
  ASSUME ChatsTypes, NEW p \in Printer, Active(p)
  PROVE  /\ contact \in Contact /\ ui \in {"print"} \cup ChatPlace
         /\ p = "update" <=> ui \in ChatPlace
         /\ \A q \in Printer : q # p => ~Active(q) /\ printer[q].at = "none"
BY DEF ChatsTypes, ScreenTypes, PrinterState, Active, ChatPlace

(* What ends a change sets the event, and only the update thread resets    *)
(* it: before any other step that leaves things calm they were calm, and   *)
(* the step changes neither the open history nor the states in it.         *)
OpenSame ==
  /\ history'[contact] = history[contact] /\ messages'[contact] = messages[contact]
  /\ \A i \in DOMAIN history[contact] :
       state'[history[contact][i]] = state[history[contact][i]]

LEMMA CalmBefore ==
  ASSUME ChatsTypes, FreshMessages, RawAtHome, ChatsNext, Calm', ~UpdateWoken,
         contact' = contact, contact \in Contact
  PROVE  Calm /\ OpenSame
<1> USE DEF ChatsTypes
<1>0. /\ ~messageEvent' /\ ui' # "scrolled" /\ raced' = {} /\ raced = {}
      /\ \A a \in Adder : adder'[a].contact = contact => adder'[a].at \notin {"fill", "count", "event"}
      /\ \A m \in Message : sender'[m] # "event"
  BY Grow DEF Calm, changing, at
<1>1. ASSUME UNCHANGED <<messageEvent, history, messages, state, sender>>,
             ui = "scrolled" => ui' = "scrolled",
             \A a \in Adder : \/ adder'[a] = adder[a]
                              \/ at(a) \notin {"fill", "count", "event"}
      PROVE  Calm /\ OpenSame
  BY <1>0, <1>1 DEF Calm, changing, at, OpenSame
<1>2. CASE OpenList \/ ScrollList \/ LeaveList \/ TerminateThread \/ ToggleScroll \/ Scroll
  BY <1>1, <1>2 DEF OpenList, ScrollList, LeaveList, TerminateThread, ToggleScroll,
     Scroll, historyVars
<1>3. ASSUME NEW k \in 0 .. Cardinality(Contact) + 1, ChooseNothing(k) \/ ChooseChat(k)
      PROVE  Calm /\ OpenSame
  BY <1>1, <1>3 DEF ChooseNothing, ChooseChat, historyVars
<1>4. CASE printContacts \/ openChat \/ CreateThread \/ clearScreen \/ Redraw
  BY <1>1, <1>4 DEF printContacts, openChat, CreateThread, clearScreen, Redraw, historyVars
<1>5. CASE Scrolled \/ MessageSent
  BY <1>0, <1>5 DEF Scrolled, MessageSent, MessageAdded, SetEvent
<1>6. ASSUME NEW p \in Printer, printChatHistory(p)
      PROVE  Calm /\ OpenSame
  BY <1>1, <1>6 DEF printChatHistory, PrintFrame, PrintRows, PrintRedraw, historyVars
<1>7. CASE DrawStep
  BY <1>1, <1>7 DEF DrawStep, historyVars, chatVars
<1>8. ASSUME NEW m \in Message, sendMessageThread(m)
      PROVE  Calm /\ OpenSame
  <2>1. sender \in [Message -> SenderPlace]
    BY DEF ScreenTypes
  <2>2. CASE MessageAnswered(m)
    <3>1. /\ UNCHANGED <<messageEvent, history, messages, adder, ui>> /\ sender[m] = "sent"
          /\ UNCHANGED state /\ sender' = [sender EXCEPT ![m] = "notice"]
      BY <1>0, <2>1, <2>2 DEF MessageAnswered
    <3>2. \A n \in Message : sender[n] # "event"
      BY <1>0, <2>1, <3>1
    <3> QED BY <1>0, <3>1, <3>2 DEF Calm, changing, at, OpenSame
  <2>3. CASE printNotification(m)
    <3>1. /\ UNCHANGED <<messageEvent, history, messages, adder, ui, state>>
          /\ sender[m] # "event" /\ \E place \in SenderPlace : sender' = [sender EXCEPT ![m] = place]
      BY <2>3 DEF printNotification, historyVars, SenderPlace
    <3>2. \A n \in Message : sender[n] # "event"
      BY <1>0, <2>1, <3>1
    <3> QED BY <1>0, <3>1, <3>2 DEF Calm, changing, at, OpenSame
  <2>4. CASE MessageFailed(m) \/ StateShown(m)
    BY <1>0, <2>1, <2>4 DEF MessageFailed, StateShown, SetEvent
  <2> QED BY <1>8, <2>2, <2>3, <2>4 DEF sendMessageThread
<1>9. CASE sendMessage
  BY <1>1, <1>9 DEF sendMessage, Add, AdderTypes, at
<1>10. CASE handleNewMessage /\ UNCHANGED <<consoleVars, chatVars>>
  BY <1>1, <1>10 DEF handleNewMessage, Add, AdderTypes, at, chatVars
<1>11. ASSUME NEW c \in Contact, createChat(c), UNCHANGED <<consoleVars, chatVars>>
       PROVE  Calm /\ OpenSame
  BY <1>1, <1>11 DEF createChat, AdderTypes, at, chatVars
<1>12. ASSUME NEW a \in Adder, UNCHANGED <<consoleVars, chatVars>>,
              createContact(a) \/ FindLast(a)
       PROVE  Calm /\ OpenSame
  <2>1. /\ UNCHANGED <<messageEvent, history, messages, state>>
        /\ at(a) \notin {"fill", "count", "event"}
        /\ \A b \in Adder : b # a => adder'[b] = adder[b]
    BY <1>12 DEF createContact, SetNext, SetContacts, CountContact, FindLast, Goto, AdderTypes
  <2> QED BY <1>1, <1>12, <2>1 DEF chatVars
<1>13. ASSUME NEW a \in Adder, UNCHANGED <<consoleVars, chatVars>>,
              Link(a) \/ Fill(a) \/ CountMessage(a)
       PROVE  Calm /\ OpenSame
  <2> DEFINE c == adder[a].contact
             m == adder[a].message
  <2>1. \E place \in {"fill", "count", "event"} : adder' = [adder EXCEPT ![a].at = place]
    BY <1>13 DEF Link, Fill, CountMessage, Goto
  <2>2. /\ adder'[a].at \in {"fill", "count", "event"} /\ adder'[a].contact = c
        /\ \A b \in Adder : b # a => adder'[b] = adder[b]
    BY <2>1, GotoFields DEF AdderTypes
  <2>3. c # contact /\ c \in Contact /\ m \in Message
    BY <1>0, <1>13, <2>2 DEF Link, Fill, CountMessage, AdderTypes
  <2>4. /\ UNCHANGED <<messageEvent, sender, ui>>
        /\ history'[contact] = history[contact] /\ messages'[contact] = messages[contact]
    BY <1>13, <2>3 DEF Link, Fill, CountMessage, chatVars, ListTypes
  <2>5. \A i \in DOMAIN history[contact] :
          state'[history[contact][i]] = state[history[contact][i]]
    <3>1. CASE Fill(a)
      <4>0. history[contact] \in Seq(Message)
        BY DEF ListTypes
      <4>1. \A i \in DOMAIN history[contact] :
              history[contact][i] # m /\ history[contact][i] \in Message
        BY <2>3, <3>1, <4>0 DEF RawAtHome, Fill
      <4>2. state' = [state EXCEPT ![m] = adder[a].state]
        BY <3>1 DEF Fill
      <4> QED BY <4>1, <4>2 DEF ListTypes
    <3>2. CASE state' = state
      BY <3>2
    <3> QED BY <1>13, <3>1, <3>2 DEF Link, CountMessage
  <2>6. ~changing
    BY <1>0, <2>2, <2>3, <2>4 DEF changing, at
  <2> QED BY <1>0, <2>4, <2>5, <2>6 DEF Calm, OpenSame
<1>14. ASSUME NEW a \in Adder, MessageAdded(a)
       PROVE  Calm /\ OpenSame
  BY <1>0, <1>14 DEF MessageAdded, SetEvent
<1> QED
  BY <1>2, <1>3, <1>4, <1>5, <1>6, <1>7, <1>8, <1>9, <1>10, <1>11, <1>12, <1>13, <1>14
  DEF ChatsNext, UserStep, MainStep, SocketStep, chatUpdateThread, addMessage

(* What printChatHistory skips is not negative. *)
LEMMA SkipNatural ==
  ASSUME ChatsTypes, PositionInside, contact \in Contact
  PROVE  Skip(messages[contact], startFrom) \in Nat
BY DEF ChatsTypes, ListTypes, ScreenTypes, PositionInside, Skip

(* A step that prints nothing leaves what a printer knows, and the rows. *)
LEMMA KnowsStill ==
  ASSUME ChatsTypes, PositionInside, NEW p \in Printer, PrinterKnows(p), OpenSame, contact \in Contact,
         UNCHANGED <<contact, startFrom>>, printer'[p] = printer[p],
         \A l \in Line : l > 1 => consoleBuffer'[l] = consoleBuffer[l]
  PROVE  PrinterKnows(p)'
<1> DEFINE h == history[contact]
           s == Skip(messages[contact], startFrom)
<1>1. /\ h' = h /\ s' = s /\ Visible' = Visible
  BY DEF OpenSame, Skip, Visible
<1>2. CASE printer[p].at \in {"frame", "rows"}
  BY <1>1, <1>2 DEF PrinterKnows
<1>3. CASE printer[p].at \notin {"frame", "rows"}
  <2>1. RowsAreCurrent
    BY <1>3 DEF PrinterKnows
  <2>2. h \in Seq(Message) /\ s \in Nat /\ Height \in Nat
    BY SkipNatural DEF ChatsTypes, ListTypes
  <2>3. ASSUME NEW j \in Visible
        PROVE  consoleBuffer'[j + 1] = <<h[s + j], state'[h[s + j]]>>
    <3>1. j \in 1 .. Height /\ s + j <= Len(h)
      BY DEF Visible
    <3>2. s + j \in DOMAIN h
      BY <2>2, <3>1
    <3>3. state'[h[s + j]] = state[h[s + j]]
      BY <3>2 DEF OpenSame
    <3>4. j + 1 \in Line /\ j + 1 > 1
      BY <2>2, <3>1 DEF Line
    <3> QED BY <2>1, <3>3, <3>4 DEF RowsAreCurrent
  <2> QED BY <1>1, <1>3, <2>3 DEF PrinterKnows, RowsAreCurrent
<1> QED BY <1>2, <1>3

(* The rows that are printed are those of the history. *)
LEMMA RowsPrinted ==
  ASSUME ChatsTypes, PositionInside, NEW p \in Printer, PrintRows(p), PrinterKnows(p),
         contact \in Contact, raced' = {}
  PROVE  RowsAreCurrent'
<1> DEFINE h == history[contact]
           s == Skip(messages[contact], startFrom)
<1>1. /\ h \in Seq(Message) /\ s \in Nat /\ Height \in Nat
      /\ printer[p].skip = s /\ (printer[p].empty <=> h = <<>>)
  BY SkipNatural DEF ChatsTypes, ListTypes, PrintRows, PrinterKnows
<1>2. UNCHANGED <<history, messages, contact, startFrom, state>>
  BY DEF PrintRows
<1>3. ASSUME NEW j \in Visible
      PROVE  consoleBuffer'[j + 1] = <<h[s + j], state[h[s + j]]>>
  <2>1. j \in 1 .. Height /\ s + j <= Len(h) /\ Len(h) \in Nat
    BY <1>1 DEF Visible
  <2>2. ~printer[p].empty
    BY <1>1, <2>1
  <2>3. shown(p) = SubSeq(h, s + 1, Len(h))
    BY <1>1, <2>2 DEF shown
  <2>4. j \in DOMAIN shown(p) /\ shown(p)[j] = h[s + j]
    <3> DEFINE first == s + 1
               last == Len(h)
               g == SubSeq(h, first, last)
    <3>1. /\ first \in 1 .. last /\ first \in Int /\ last \in Int
          /\ j \in 1 .. last - first + 1 /\ first + j - 1 = s + j
      BY <1>1, <2>1
    <3>2. ASSUME NEW i \in first .. last PROVE h[i] \in Message
      <4>1. i \in 1 .. Len(h)
        BY <1>1, <3>1, <3>2
      <4> QED BY <1>1, <4>1, ElementOfSeq
    <3> HIDE DEF first, last
    <3>3. /\ Len(g) = last - first + 1 /\ g \in Seq(Message)
          /\ \A i \in 1 .. last - first + 1 : g[i] = h[first + i - 1]
      BY <3>1, <3>2, SubSeqProperties
    <3>4. j \in DOMAIN g /\ g[j] = h[s + j]
      BY <3>1, <3>3
    <3> QED BY <2>3, <3>4 DEF first, last
  <2>5. j + 1 \in Line /\ (j + 1) - 1 = j
    BY <1>1, <2>1 DEF Line
  <2>6. consoleBuffer'[j + 1] = <<shown(p)[j], state[shown(p)[j]]>>
    BY <1>1, <2>1, <2>4, <2>5 DEF PrintRows
  <2> QED BY <2>4, <2>6
<1>4. Visible' = Visible /\ Skip(messages[contact], startFrom)' = s
  BY <1>2 DEF Visible, Skip
<1> QED BY <1>2, <1>3, <1>4 DEF RowsAreCurrent

LEMMA StepScreen ==
  ASSUME ChatsTypes, OtherTypes, FreshMessages, PositionInside, RawAtHome, ScreenInv,
         ChatsNext
  PROVE  ScreenInv'
<1> SUFFICES ASSUME crashed' = "no", Calm', NEW p \in Printer, Active(p)'
             PROVE  PrinterKnows(p)'
  BY DEF ScreenInv
<1>0. crashed = "no"
  BY DEF ChatsNext
<1>00. /\ printer["update"].at # "none" <=> ui \in ChatPlace
       /\ printer \in [Printer -> PrinterState] /\ then \in {"menu", "list", "keys"}
       /\ printer["main"].at \in {"frame", "rows", "redraw"} => ui = "print"
  BY DEF ChatsTypes, ScreenTypes, ChatPlace
(* Steps after which no chat is open *)
<1>1. CASE OpenList \/ ScrollList \/ LeaveList
  BY <1>00, <1>1 DEF OpenList, ScrollList, LeaveList, Active, ChatPlace
<1>2. ASSUME NEW k \in 0 .. Cardinality(Contact) + 1, ChooseNothing(k) \/ ChooseChat(k)
      PROVE  PrinterKnows(p)'
  BY <1>00, <1>0, <1>2 DEF ChooseNothing, ChooseChat, Active, ChatPlace
<1>3. CASE printContacts \/ clearScreen \/ Redraw
  BY <1>00, <1>3 DEF printContacts, clearScreen, Redraw, Active, ChatPlace
<1>4. CASE TerminateThread
  BY <1>00, <1>4 DEF TerminateThread, Active, ChatPlace, Asleep
(* The calls of printChatHistory *)
<1>5. CASE openChat
  <2>1. contact \in Contact /\ startFrom = 0 /\ printer["update"].at = "none"
    BY <1>00, <1>5 DEF openChat, ChatsTypes, ScreenTypes, PositionInside, ChatPlace
  <2>2. /\ printer' = [printer EXCEPT !["main"] = Call(contact, 0)]
        /\ UNCHANGED <<history, messages, contact, startFrom>>
    BY <1>5 DEF openChat, historyVars
  <2>3. p = "main"
    BY <1>00, <2>1, <2>2 DEF Active
  <2>4. printer'[p] = Call(contact, startFrom)
    BY <1>00, <2>1, <2>2, <2>3
  <2>5. /\ printer'[p].at = "frame" /\ (printer'[p].empty <=> history[contact] = <<>>)
        /\ printer'[p].skip = Skip(messages[contact], startFrom)
    BY <2>4, CallFields
  <2>6. Skip(messages[contact], startFrom)' = Skip(messages[contact], startFrom)
    BY <2>2 DEF Skip
  <2> QED BY <2>2, <2>5, <2>6 DEF PrinterKnows
<1>6. CASE UpdateWoken
  <2>1. /\ printer' = [printer EXCEPT !["update"] = Call(contact, startFrom)]
        /\ printer["update"].at = "wait"
        /\ UNCHANGED <<history, messages, contact, startFrom, ui>>
    BY <1>6 DEF UpdateWoken
  <2>2. p = "update"
    BY <1>00, <2>1 DEF Active, ChatPlace
  <2>3. printer'[p] = Call(contact, startFrom)
    BY <1>00, <2>1, <2>2
  <2>5. /\ printer'[p].at = "frame" /\ (printer'[p].empty <=> history[contact] = <<>>)
        /\ printer'[p].skip = Skip(messages[contact], startFrom)
    BY <2>3, CallFields
  <2>6. Skip(messages[contact], startFrom)' = Skip(messages[contact], startFrom)
    BY <2>1 DEF Skip
  <2> QED BY <2>1, <2>5, <2>6 DEF PrinterKnows
(* What the printers do *)
<1>7. ASSUME NEW q \in Printer, printChatHistory(q)
      PROVE  PrinterKnows(p)'
  <2>1. UNCHANGED <<history, messages, contact, startFrom, ui>>
    BY <1>7 DEF printChatHistory, PrintFrame, PrintRows, PrintRedraw, historyVars
  <2>2. /\ printer[q].at \in {"frame", "rows", "redraw"}
        /\ \A r \in Printer : r # q => printer'[r] = printer[r]
    BY <1>00, <1>7, PrinterFields DEF printChatHistory, PrintFrame, PrintRows, PrintRedraw
  <2>3. Active(q)
    BY <1>00, <2>2 DEF Active
  <2>4. p = q /\ contact \in Contact
    BY <2>1, <2>2, <2>3, OneActive DEF Active
  <2>5. ~UpdateWoken
    BY <2>2, <2>3, <2>4, <1>7, <1>00 DEF UpdateWoken, printChatHistory, PrintFrame, PrintRows,
       PrintRedraw, Active, ChatPlace
  <2>6. Calm /\ OpenSame
    BY <2>1, <2>4, <2>5, CalmBefore
  <2>7. PrinterKnows(q)
    BY <1>0, <2>3, <2>6 DEF ScreenInv
  <2>8. CASE PrintFrame(q)
    <3>1. printer' = [printer EXCEPT ![q].at = "rows"] /\ printer[q].at = "frame"
      BY <1>0, <2>8 DEF PrintFrame
    <3>2. /\ printer'[q].at = "rows" /\ printer'[q].skip = printer[q].skip
          /\ printer'[q].empty = printer[q].empty
      BY <1>00, <3>1, PrinterFields
    <3> QED BY <2>1, <2>4, <2>7, <3>1, <3>2 DEF PrinterKnows
  <2>9. CASE PrintRows(q)
    <3>1. printer'[q].at = "redraw"
      BY <1>00, <2>9, PrintedFields DEF PrintRows
    <3>2. RowsAreCurrent'
      BY <2>4, <2>7, <2>9, RowsPrinted DEF Calm
    <3> QED BY <2>4, <3>1, <3>2 DEF PrinterKnows
  <2>10. CASE PrintRedraw(q)
    <3>1. /\ \E place \in {"none", "wait"} : printer' = [printer EXCEPT ![q].at = place]
          /\ printer[q].at = "redraw" /\ UNCHANGED <<consoleBuffer, state>>
      BY <2>10 DEF PrintRedraw, redrawConsole, historyVars
    <3>2. printer'[q].at \in {"none", "wait"}
      BY <1>00, <3>1, PrinterFields
    <3>3. RowsAreCurrent'
      BY <2>1, <2>7, <3>1 DEF PrinterKnows, RowsAreCurrent, Visible
    <3> QED BY <2>4, <3>2, <3>3 DEF PrinterKnows
  <2> QED BY <1>7, <2>8, <2>9, <2>10 DEF printChatHistory
<1>8. CASE CreateThread
  <2>1. /\ ui = "print" /\ printer["main"].at = "none" /\ ui' = "chat"
        /\ printer' = [printer EXCEPT !["update"].at = "wait"]
        /\ UNCHANGED <<history, messages, state, consoleBuffer, contact, startFrom>>
    BY <1>8 DEF CreateThread, historyVars, consoleVars
  <2>2. p = "update" /\ printer'[p].at = "wait"
    BY <1>00, <2>1, PrinterFields DEF Active
  <2>3. Active("main") /\ contact \in Contact /\ ~UpdateWoken
    BY <1>00, <2>1 DEF Active, UpdateWoken, ChatsTypes, ScreenTypes, ChatPlace
  <2>4. RowsAreCurrent
    <3>1. Calm
      BY <2>1, <2>3, CalmBefore
    <3>2. PrinterKnows("main")
      BY <1>0, <2>3, <3>1 DEF ScreenInv
    <3> QED BY <2>1, <3>2 DEF PrinterKnows
  <2>5. RowsAreCurrent'
    BY <2>1, <2>4 DEF RowsAreCurrent, Visible
  <2> QED BY <2>2, <2>5 DEF PrinterKnows
(* Everything else *)
<1>9. ASSUME UNCHANGED <<printer, contact, startFrom>>, ~UpdateWoken,
             ui' = "print" => ui = "print",
             \A l \in Line : l > 1 => consoleBuffer'[l] = consoleBuffer[l]
      PROVE  PrinterKnows(p)'
  <2>1. Active(p)
    BY <1>9 DEF Active
  <2>2. contact \in Contact
    BY <2>1, OneActive
  <2>3. Calm /\ OpenSame
    BY <1>9, <2>2, CalmBefore
  <2>4. PrinterKnows(p)
    BY <1>0, <2>1, <2>3 DEF ScreenInv
  <2> QED BY <1>9, <2>2, <2>3, <2>4, KnowsStill
<1>10. CASE ToggleScroll \/ sendMessage \/ MessageSent \/ Scrolled
  <2>1. /\ UNCHANGED <<printer, contact, startFrom, consoleBuffer>>
        /\ ui' = "print" => ui = "print"
    BY <1>10 DEF ToggleScroll, sendMessage, MessageSent, Scrolled, consoleVars
  <2>2. CASE UpdateWoken
    BY <1>6, <2>2
  <2> QED BY <1>9, <2>1, <2>2
<1>11. CASE Scroll
  BY <1>11 DEF Scroll, Calm, changing
<1>12. ASSUME NEW m \in Message, sendMessageThread(m)
       PROVE  PrinterKnows(p)'
  <2>1. UNCHANGED <<printer, contact, startFrom, ui>>
    BY <1>12 DEF sendMessageThread, MessageAnswered, printNotification, MessageFailed,
       StateShown
  <2>2. \/ consoleBuffer' = consoleBuffer
        \/ consoleBuffer' = [consoleBuffer EXCEPT ![0] = NOTICE]
    BY <1>12 DEF sendMessageThread, MessageAnswered, printNotification, MessageFailed,
       StateShown, Write, redrawConsole, consoleVars
  <2>3. \A l \in Line : l > 1 => consoleBuffer'[l] = consoleBuffer[l]
    BY <2>2 DEF OtherTypes, Line
  <2>4. CASE UpdateWoken
    BY <1>6, <2>4
  <2> QED BY <1>9, <2>1, <2>3, <2>4
<1>13. CASE DrawStep \/ UNCHANGED <<consoleVars, chatVars>>
  <2>1. UNCHANGED <<printer, contact, startFrom, ui, consoleBuffer>>
    BY <1>13 DEF DrawStep, consoleDrawThread, WaitForRedraw, Draw, consoleVars, chatVars
  <2>2. CASE UpdateWoken
    BY <1>6, <2>2
  <2> QED BY <1>9, <2>1, <2>2
<1> QED
  BY <1>1, <1>2, <1>3, <1>4, <1>5, <1>6, <1>7, <1>8, <1>10, <1>11, <1>12, <1>13
  DEF ChatsNext, UserStep, MainStep, SocketStep, chatUpdateThread

LEMMA StutterScreen == ScreenInv /\ UNCHANGED allVars => ScreenInv'
BY DEF ScreenInv, Calm, changing, at, Active, PrinterKnows, RowsAreCurrent, Visible,
       allVars, historyVars, consoleVars, chatVars

-----------------------------------------------------------------------------
ChatsInv ==
  /\ ChatsTypes /\ OtherTypes /\ FreshMessages /\ DrawnInv /\ CountInv /\ WalkInv
  /\ PositionInside /\ RawAtHome /\ ScreenInv

LEMMA ChatsCorrect == ChatsSpec => []ChatsInv
<1>1. ChatsInit => ChatsInv
  BY InitTypes, InitOthers, InitFresh, InitDrawn, InitCount, InitWalk, InitPosition,
     InitRaw, InitScreen DEF ChatsInv
<1>2. ChatsInv /\ ChatsNext => ChatsInv'
  BY StepTypes, StepOthers, StepFresh, StepDrawn, StepCount, StepWalk, StepPosition,
     StepRaw, StepScreen DEF ChatsInv
<1>3. ChatsInv /\ UNCHANGED allVars => ChatsInv'
  BY StutterTypes, StutterOthers, StutterFresh, StutterDrawn, StutterCount, StutterWalk,
     StutterPosition, StutterRaw, StutterScreen DEF ChatsInv
<1> QED BY <1>1, <1>2, <1>3, PTL DEF ChatsSpec

(* Every variable of the lists, the console and the chats keeps its type,  *)
(* races included; no position and no start of the list gets negative      *)
(* (chatsManager.c:180).                                                   *)
THEOREM ScreenTypesCorrect == ChatsSpec => []ChatsTypeOK
<1>1. ChatsInv => ChatsTypeOK
  BY DEF ChatsInv, ChatsTypes, OtherTypes, ListTypes, AdderTypes, ScreenTypes, SenderPlace,
         PrinterState, ChatsTypeOK, HistoriesTypeOK
<1> QED BY <1>1, ChatsCorrect, PTL

(* How many there are of two *)
LEMMA CountAdders ==
  ASSUME NEW S \in SUBSET Adder
  PROVE  Cardinality(S) = (IF "main" \in S THEN 1 ELSE 0) + (IF "socket" \in S THEN 1 ELSE 0)
<1>1. S = {} \/ S = {"main"} \/ S = {"socket"} \/ S = {"main"} \cup {"socket"}
  OBVIOUS
<1>2. Cardinality({}) = 0 /\ IsFiniteSet({})
  BY FS_EmptySet
<1>3. /\ Cardinality({"main"}) = 1 /\ IsFiniteSet({"main"})
      /\ Cardinality({"socket"}) = 1
  BY FS_Singleton
<1>4. "socket" \notin {"main"}
  OBVIOUS
<1>5. Cardinality({"main"} \cup {"socket"}) = 2
  <2> DEFINE M == {"main"}
  <2>1. IsFiniteSet(M) /\ Cardinality(M) = 1 /\ "socket" \notin M
    BY <1>3, <1>4
  <2> HIDE DEF M
  <2>2. Cardinality(M \cup {"socket"}) = (IF "socket" \in M THEN Cardinality(M) ELSE Cardinality(M) + 1)
    BY <2>1, FS_AddElement
  <2>3. Cardinality(M \cup {"socket"}) = 2
    BY <2>1, <2>2
  <2> QED BY <2>3 DEF M
<1>6. CASE S = {}
  BY <1>2, <1>6
<1>7. CASE S = {"main"}
  BY <1>3, <1>7
<1>8. CASE S = {"socket"}
  BY <1>3, <1>8
<1>9. CASE S = {"main"} \cup {"socket"}
  BY <1>5, <1>9
<1> QED BY <1>1, <1>6, <1>7, <1>8, <1>9

(* As long as no two threads add to a list at a time, every addition stays *)
(* in it and is counted, the latter after it has been linked, whatever the *)
(* other threads read and change (contactsManager.c:17-19, :70-80).        *)
THEOREM ListsAreCounted == ChatsSpec => []ListsCounted
<1>1. ChatsInv => ListsCounted
  <2> SUFFICES ASSUME ChatsInv, "add" \notin raced
               PROVE  /\ \A c \in Contact : messages[c] + Uncounted(c) = Len(history[c])
                      /\ contactCount + Cardinality({a \in Adder : at(a) = "counted"})
                           = Len(contacts)
    BY DEF ListsCounted
  <2>1. MessagesCounted /\ ContactsCounted
    BY DEF ChatsInv, CountInv
  <2>2. ASSUME NEW c \in Contact
        PROVE  messages[c] + Uncounted(c) = Len(history[c])
    <3> DEFINE S == {a \in Adder : adder[a].contact = c /\ at(a) \in {"fill", "count"}}
    <3>1. S \in SUBSET Adder
      OBVIOUS
    <3>2. /\ Linked("main", c) = IF "main" \in S THEN 1 ELSE 0
          /\ Linked("socket", c) = IF "socket" \in S THEN 1 ELSE 0
      BY DEF Linked
    <3>3. Linked("main", c) \in Nat /\ Linked("socket", c) \in Nat /\ messages[c] \in Nat
      BY DEF Linked, ChatsInv, ChatsTypes, ListTypes
    <3>4. Uncounted(c) = Linked("main", c) + Linked("socket", c)
      BY <3>1, <3>2, CountAdders DEF Uncounted
    <3> QED BY <2>1, <3>3, <3>4 DEF MessagesCounted
  <2>3. contactCount + Cardinality({a \in Adder : at(a) = "counted"}) = Len(contacts)
    <3> DEFINE S == {a \in Adder : at(a) = "counted"}
    <3>1. S \in SUBSET Adder
      OBVIOUS
    <3>2. /\ Listed("main") = IF "main" \in S THEN 1 ELSE 0
          /\ Listed("socket") = IF "socket" \in S THEN 1 ELSE 0
      BY DEF Listed
    <3>3. Listed("main") \in Nat /\ Listed("socket") \in Nat /\ contactCount \in Nat
      BY DEF Listed, ChatsInv, ChatsTypes, ListTypes
    <3>4. Cardinality(S) = Listed("main") + Listed("socket")
      BY <3>1, <3>2, CountAdders
    <3> QED BY <2>1, <3>3, <3>4 DEF ContactsCounted
  <2> QED BY <2>2, <2>3
<1> QED BY <1>1, ChatsCorrect, PTL

(* A walk of printChatHistory leaves a history, or meets a node that is    *)
(* not filled, only where two threads have used the list at a time         *)
(* (consoleOutput.c:128).                                                  *)
THEOREM WalksStayInside == ChatsSpec => []WalksInside
<1>1. ChatsInv => WalksInside
  BY DEF ChatsInv, WalkInv, WalksInside
<1> QED BY <1>1, ChatsCorrect, PTL

(* What has been written is drawn, whoever has been terminated while it    *)
(* printed, and the mutex the draw thread waits for is given back          *)
(* (consoleOutput.c:224, chatsManager.c:155).                              *)
THEOREM RedrawsFollow == ChatsSpec => []WillBeDrawn
<1>1. ChatsInv => WillBeDrawn
  BY DEF ChatsInv, DrawnInv, WillBeDrawn, Printing
<1> QED BY <1>1, ChatsCorrect, PTL

(* No wakeup of the update thread is lost: when it sleeps with no event    *)
(* set and nobody is between a change and its SetEvent, the rows are the   *)
(* messages there are, with their states (chatsManager.c:287).             *)
THEOREM OpenChatIsCurrent == ChatsSpec => []ShownIsCurrent
<1>1. ChatsInv => ShownIsCurrent
  BY DEF ChatsInv, ScreenInv, ShownIsCurrent, Calm, Active, PrinterKnows
<1> QED BY <1>1, ChatsCorrect, PTL
=============================================================================
