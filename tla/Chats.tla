-------------------------------- MODULE Chats --------------------------------
(***************************************************************************)
(* The chats on the screen (client/chatsManager.c): the main thread that   *)
(* lists the contacts, opens a chat, scrolls and sends, the thread that    *)
(* updates the open chat and is terminated when the user leaves it, the    *)
(* threads that learn what became of a message, and the socket thread that *)
(* adds messages meanwhile.                                                *)
(*                                                                         *)
(* The rows are those of the main area below the chat's name, line 1 to    *)
(* Height + 1, and line 0 for the notification bar.  Prompts and the input *)
(* line, which only the main thread writes, are left out.  A function that *)
(* writes several rows, one after another, is one write and one redraw.    *)
(***************************************************************************)
EXTENDS Histories, Console

CONSTANTS
  Height,                  (* getMainAreaHeight(): the rows for messages   *)
  BLANK, BORDER, NOTICE    (* rows: empty, a separator, a notification     *)

ASSUME ChatsAssumption == Height \in Nat \ {0}

VARIABLES
  ui,          (* where the main thread is                                 *)
  then,        (* where it goes after the redraw it asks for               *)
  contact,     (* showPrivateChats' variable                               *)
  start,       (* showPrivateChats' variable                               *)
  startFrom,   (* chatUpdateArg.startFrom                                  *)
  printer,     (* printChatHistory in the main and in the update thread    *)
  sender,      (* sendMessageThread of every message                       *)
  crashed      (* "no", or the list whose end a walk has left              *)

chatVars == <<ui, then, contact, start, startFrom, printer, sender, crashed>>
allVars == <<historyVars, consoleVars, chatVars>>

Line == 0 .. Height + 1
Blank == [l \in Line |-> BLANK]

Printer == {"main", "update"}
Asleep == [at |-> "none", skip |-> 0, empty |-> TRUE]

ChatsTypeOK ==
  /\ HistoriesTypeOK
  /\ ui \in {"menu", "list", "keys", "open", "print", "chat", "send",
             "scroll", "scrolled", "clear", "redraw"}
  /\ then \in {"menu", "list", "keys"}
  /\ contact \in Contact \cup {NULL}
  /\ start \in Nat
  /\ startFrom \in Nat
  /\ printer \in [Printer -> [at : {"none", "wait", "frame", "rows", "redraw"},
                              skip : Int, empty : BOOLEAN]]
  /\ sender \in [Message -> {"none", "sent", "notice", "redraw", "failed", "event"}]
  /\ crashed \in {"no", "contacts", "history"}
  /\ consoleOutSemaphore \in 0 .. MaxRedraws
  /\ consoleOutMutex \in Printer \cup {NOBODY}

ChatsInit ==
  /\ HistoriesInit
  /\ ConsoleInit(Blank)
  /\ ui = "menu" /\ then = "menu"
  /\ contact = NULL /\ start = 0 /\ startFrom = 0
  /\ printer = [p \in Printer |-> Asleep]
  /\ sender = [m \in Message |-> "none"]
  /\ crashed = "no"

-----------------------------------------------------------------------------
(* printChatHistory, whose arguments are copied when it is called: how     *)
(* many messages to skip, and whether the list had a head                  *)
Skip(count, from) == IF Height < count THEN count - Height - from ELSE 0

Call(c, from) == [at |-> "frame", skip |-> Skip(messages[c], from),
                  empty |-> history[c] = <<>>]

shown(p) == IF printer[p].empty THEN <<>>
            ELSE SubSeq(history[contact], printer[p].skip + 1, Len(history[contact]))

(* With the mutex: the walk to the first message, the separator and, when  *)
(* there is a message to show, empty rows                                  *)
PrintFrame(p) ==
  /\ printer[p].at = "frame"
  /\ consoleOutMutex = NOBODY
  /\ IF printer[p].skip > Len(history[contact])
       THEN /\ crashed' = "history"
            /\ UNCHANGED <<consoleVars, printer>>
       ELSE /\ consoleOutMutex' = p
            /\ consoleBuffer' = [l \in Line |->
                 CASE l = 1 -> BORDER
                   [] l > 1 /\ shown(p) # <<>> -> BLANK
                   [] OTHER -> consoleBuffer[l]]
            /\ undrawn' = TRUE
            /\ printer' = [printer EXCEPT ![p].at = "rows"]
            /\ UNCHANGED <<consoleOutSemaphore, drawing, crashed>>
  /\ UNCHANGED <<historyVars, ui, then, contact, start, startFrom, sender>>

(* The rows.  To read a node that is not filled shows anything, or ends    *)
(* the process.                                                            *)
PrintRows(p) ==
  /\ printer[p].at = "rows"
  /\ LET read == {j \in DOMAIN shown(p) : j <= Height}
     IN  /\ consoleBuffer' = [l \in Line |-> IF l - 1 \in read
                                THEN <<shown(p)[l - 1], state[shown(p)[l - 1]]>>
                                ELSE consoleBuffer[l]]
         /\ IF \E j \in read : state[shown(p)[j]] = "raw"
              THEN /\ raced' = raced \cup {"read"}
                   /\ crashed' \in {"no", "history"}
              ELSE UNCHANGED <<raced, crashed>>
  /\ consoleOutMutex' = NOBODY
  /\ undrawn' = TRUE
  /\ printer' = [printer EXCEPT ![p] = [Asleep EXCEPT !.at = "redraw"]]
  /\ UNCHANGED <<contacts, after, contactCount, history, messages, calls, state,
                 messageEvent, adder, consoleOutSemaphore, drawing,
                 ui, then, contact, start, startFrom, sender>>

(* Fault: no redraw is asked for *)
PrintWithoutRedraw(p) ==
  /\ printer[p].at = "redraw"
  /\ printer' = [printer EXCEPT ![p].at = IF p = "main" THEN "none" ELSE "wait"]
  /\ UNCHANGED <<historyVars, consoleVars, ui, then, contact, start, startFrom,
                 sender, crashed>>

PrintRedraw(p) ==
  /\ printer[p].at = "redraw"
  /\ redrawConsole
  /\ printer' = [printer EXCEPT ![p].at = IF p = "main" THEN "none" ELSE "wait"]
  /\ UNCHANGED <<historyVars, ui, then, contact, start, startFrom, sender, crashed>>

printChatHistory(p) == PrintFrame(p) \/ PrintRows(p) \/ PrintRedraw(p)

(* chatUpdateThread: the event, and the arguments of printChatHistory *)
UpdateWoken ==
  /\ printer["update"].at = "wait"
  /\ messageEvent
  /\ messageEvent' = FALSE
  /\ printer' = [printer EXCEPT !["update"] = Call(contact, startFrom)]
  /\ UNCHANGED <<contacts, after, contactCount, history, messages, calls, state,
                 adder, raced, consoleVars, ui, then, contact, start, startFrom,
                 sender, crashed>>

chatUpdateThread == UpdateWoken \/ printChatHistory("update")

-----------------------------------------------------------------------------
(* The main thread: showPrivateChats *)

(* `1' in the menu *)
OpenList ==
  /\ ui = "menu" /\ at("main") = "idle"
  /\ contacts # <<>>
  /\ ui' = "list"
  /\ contact' = contacts[1]
  /\ start' = 0
  /\ UNCHANGED <<historyVars, consoleVars, then, startFrom, printer, sender, crashed>>

(* printContacts walks `start' contacts from `contact' on, and numbers the *)
(* rows from `start'                                                       *)
printContacts ==
  /\ ui = "list"
  /\ IF start > Len(From(contact))
       THEN crashed' = "contacts" /\ UNCHANGED <<consoleVars, ui, then>>
       ELSE /\ Write([l \in Line |->
                 IF l > 0 /\ l + start <= Len(From(contact))
                   THEN <<start + l - 1, From(contact)[l + start]>>
                   ELSE consoleBuffer[l]])
            /\ ui' = "redraw" /\ then' = "keys"
            /\ UNCHANGED crashed
  /\ UNCHANGED <<historyVars, contact, start, startFrom, printer, sender>>

(* `d' and `u', where they move the list *)
ScrollList ==
  /\ ui = "keys"
  /\ \/ contactCount - start > Height /\ start' = start + 1
     \/ start > 0 /\ start' = start - 1
  /\ ui' = "list"
  /\ UNCHANGED <<historyVars, consoleVars, then, contact, startFrom, printer,
                 sender, crashed>>

LeaveList ==
  /\ ui = "keys"
  /\ ui' = "clear" /\ then' = "menu"
  /\ contact' = NULL /\ start' = 0
  /\ UNCHANGED <<historyVars, consoleVars, startFrom, printer, sender, crashed>>

(* `i', and a number that is no option *)
ChooseNothing(selected) ==
  /\ ui = "keys"
  /\ selected > contactCount
  /\ ui' = "list"
  /\ UNCHANGED <<historyVars, consoleVars, then, contact, start, startFrom,
                 printer, sender, crashed>>

(* `i', and a number: openChat gets the contact so many nodes from the     *)
(* head, and reads its nickname                                            *)
ChooseChat(selected) ==
  /\ ui = "keys"
  /\ selected <= contactCount
  /\ IF selected < Len(contacts)
       THEN /\ contact' = contacts[selected + 1]
            /\ ui' = "open"
            /\ UNCHANGED crashed
       ELSE crashed' = "contacts" /\ UNCHANGED <<contact, ui>>
  /\ UNCHANGED <<historyVars, consoleVars, then, start, startFrom, printer, sender>>

-----------------------------------------------------------------------------
(* openChat *)

(* The call of printChatHistory, and the thread once it has returned *)
openChat ==
  /\ ui = "open"
  /\ printer' = [printer EXCEPT !["main"] = Call(contact, 0)]
  /\ ui' = "print"
  /\ UNCHANGED <<historyVars, consoleVars, then, contact, start, startFrom, sender,
                 crashed>>

CreateThread ==
  /\ ui = "print" /\ printer["main"].at = "none"
  /\ printer' = [printer EXCEPT !["update"].at = "wait"]
  /\ ui' = "chat"
  /\ UNCHANGED <<historyVars, consoleVars, then, contact, start, startFrom,
                 sender, crashed>>

(* /quit: TerminateThread at whatever point the thread has reached.  The   *)
(* system abandons the mutex the thread owns to the next that waits.       *)
TerminateThread ==
  /\ ui = "chat"
  /\ printer' = [printer EXCEPT !["update"] = Asleep]
  /\ startFrom' = 0
  /\ consoleOutMutex' = IF consoleOutMutex = "update" THEN NOBODY
                                                      ELSE consoleOutMutex
  /\ ui' = "clear" /\ then' = "list"
  /\ UNCHANGED <<historyVars, consoleBuffer, undrawn, consoleOutSemaphore, drawing,
                 contact, start, sender, crashed>>

clearScreen ==
  /\ ui = "clear"
  /\ Write(Blank)
  /\ ui' = "redraw"
  /\ UNCHANGED <<historyVars, then, contact, start, startFrom, printer, sender,
                 crashed>>

Redraw ==
  /\ ui = "redraw"
  /\ redrawConsole
  /\ ui' = then /\ then' = "menu"
  /\ UNCHANGED <<historyVars, contact, start, startFrom, printer, sender,
                 crashed>>

(* /scroll, `i', and `u' and `d' where they move the messages: startFrom,  *)
(* and then the event                                                      *)
ToggleScroll ==
  /\ ui \in {"chat", "scroll"}
  /\ ui' = IF ui = "chat" THEN "scroll" ELSE "chat"
  /\ UNCHANGED <<historyVars, consoleVars, then, contact, start, startFrom,
                 printer, sender, crashed>>

(* Fault: `d' at the last message *)
ScrollFurther ==
  /\ ui = "scroll"
  /\ \/ messages[contact] - startFrom > Height /\ startFrom' = startFrom + 1
     \/ startFrom' = startFrom - 1
  /\ ui' = "scrolled"
  /\ UNCHANGED <<historyVars, consoleVars, then, contact, start, printer, sender,
                 crashed>>

Scroll ==
  /\ ui = "scroll"
  /\ \/ messages[contact] - startFrom > Height /\ startFrom' = startFrom + 1
     \/ startFrom > 0 /\ startFrom' = startFrom - 1
  /\ ui' = "scrolled"
  /\ UNCHANGED <<historyVars, consoleVars, then, contact, start, printer, sender,
                 crashed>>

Scrolled ==
  /\ ui = "scrolled"
  /\ SetEvent
  /\ ui' = "scroll"
  /\ UNCHANGED <<contacts, after, contactCount, history, messages, calls, state,
                 adder, raced, consoleVars, then, contact, start, startFrom,
                 printer, sender, crashed>>

(* sendMessage: addMessage, the event once more, and a thread for the      *)
(* message                                                                 *)
sendMessage ==
  /\ ui = "chat"
  /\ Add("main", contact, "PENDING", "find")
  /\ ui' = "send"
  /\ UNCHANGED <<consoleVars, then, contact, start, startFrom, printer, sender,
                 crashed>>

MessageSent ==
  /\ ui = "send"
  /\ at("main") = "event"
  /\ MessageAdded("main")
  /\ sender' = [sender EXCEPT ![adder["main"].message] = "sent"]
  /\ ui' = "chat"
  /\ UNCHANGED <<consoleVars, then, contact, start, startFrom, printer, crashed>>

-----------------------------------------------------------------------------
(* sendMessageThread, once its request is answered: the state of the       *)
(* message, a notification when it failed, and the event                   *)
MessageAnswered(m) ==
  /\ sender[m] = "sent"
  /\ \/ /\ state' = [state EXCEPT ![m] = "SUCCESS"]
        /\ sender' = [sender EXCEPT ![m] = "event"]
     \/ /\ sender' = [sender EXCEPT ![m] = "notice"]
        /\ UNCHANGED state
  /\ UNCHANGED <<contacts, after, contactCount, history, messages, calls,
                 messageEvent, adder, raced, consoleVars, ui, then, contact,
                 start, startFrom, printer, crashed>>

printNotification(m) ==
  /\ \/ /\ sender[m] = "notice"
        /\ Write([consoleBuffer EXCEPT ![0] = NOTICE])
        /\ sender' = [sender EXCEPT ![m] = "redraw"]
     \/ /\ sender[m] = "redraw"
        /\ redrawConsole
        /\ sender' = [sender EXCEPT ![m] = "failed"]
  /\ UNCHANGED <<historyVars, ui, then, contact, start, startFrom, printer, crashed>>

MessageFailed(m) ==
  /\ sender[m] = "failed"
  /\ state' = [state EXCEPT ![m] = "FAILED"]
  /\ sender' = [sender EXCEPT ![m] = "event"]
  /\ UNCHANGED <<contacts, after, contactCount, history, messages, calls,
                 messageEvent, adder, raced, consoleVars, ui, then, contact,
                 start, startFrom, printer, crashed>>

(* Fault: the event is not set *)
StateNotShown(m) ==
  /\ sender[m] = "event"
  /\ sender' = [sender EXCEPT ![m] = "none"]
  /\ UNCHANGED <<historyVars, consoleVars, ui, then, contact, start, startFrom,
                 printer, crashed>>

StateShown(m) ==
  /\ sender[m] = "event"
  /\ SetEvent
  /\ sender' = [sender EXCEPT ![m] = "none"]
  /\ UNCHANGED <<contacts, after, contactCount, history, messages, calls, state,
                 adder, raced, consoleVars, ui, then, contact, start, startFrom,
                 printer, crashed>>

sendMessageThread(m) ==
  MessageAnswered(m) \/ printNotification(m) \/ MessageFailed(m) \/ StateShown(m)

-----------------------------------------------------------------------------
UserStep ==
  \/ OpenList \/ ScrollList \/ LeaveList
  \/ \E n \in 0 .. Cardinality(Contact) + 1 : ChooseNothing(n) \/ ChooseChat(n)
  \/ TerminateThread \/ ToggleScroll \/ Scroll \/ sendMessage
  \/ /\ ui = "menu"
     /\ \E c \in Contact : createChat(c)
     /\ UNCHANGED <<consoleVars, chatVars>>

MainStep ==
  \/ printContacts \/ openChat \/ printChatHistory("main") \/ CreateThread
  \/ clearScreen \/ Redraw \/ Scrolled \/ MessageSent
  \/ /\ createContact("main") \/ FindLast("main") \/ Link("main") \/ Fill("main")
       \/ CountMessage("main")
     /\ UNCHANGED <<consoleVars, chatVars>>

SocketStep ==
  /\ handleNewMessage \/ createContact("socket") \/ addMessage("socket")
  /\ UNCHANGED <<consoleVars, chatVars>>

DrawStep == consoleDrawThread /\ UNCHANGED <<historyVars, chatVars>>

ChatsNext ==
  /\ crashed = "no"
  /\ \/ UserStep \/ MainStep \/ chatUpdateThread \/ SocketStep \/ DrawStep
     \/ \E m \in Message : sendMessageThread(m)

ChatsSpec == ChatsInit /\ [][ChatsNext]_allVars

-----------------------------------------------------------------------------
(* A walk of printChatHistory leaves a history, or meets a node that is    *)
(* not filled, only where two threads have used the list at a time: the    *)
(* number of messages it skips, from a count, a position and a head that   *)
(* are read at different moments, stays inside (consoleOutput.c:128).      *)
WalksInside == crashed = "history" => raced # {}

(* While the update thread of a chat sleeps with no event set, and nobody  *)
(* is between a change and its SetEvent, the rows of a chat that has       *)
(* messages are the messages there are, with their states: no wakeup is    *)
(* lost between the threads that share the event (chatsManager.c:287).     *)
changing ==
  \/ \E a \in Adder : adder[a].contact = contact /\ at(a) \in {"fill", "count", "event"}
  \/ \E m \in Message : sender[m] = "event"
  \/ ui = "scrolled"

Visible ==
  LET s == Skip(messages[contact], startFrom)
  IN  {j \in 1 .. Height : s + j <= Len(history[contact])}

RowsAreCurrent ==
  \A j \in Visible :
    LET m == history[contact][Skip(messages[contact], startFrom) + j]
    IN  consoleBuffer[j + 1] = <<m, state[m]>>

ShownIsCurrent ==
  /\ printer["update"].at = "wait" /\ ~messageEvent /\ ~changing
  /\ raced = {} /\ crashed = "no"
  => RowsAreCurrent

(* What has been written and not yet drawn will be: a redraw is counted,   *)
(* the draw thread is awake, or who has written is about to ask for it;    *)
(* and who owns the mutex the draw thread needs is alive, although a       *)
(* thread that printed may be terminated (consoleOutput.c:224, :238,       *)
(* chatsManager.c:155).                                                    *)
Printing(p) == printer[p].at \in {"rows", "redraw"}

WillBeDrawn ==
  crashed = "no" =>
    /\ undrawn =>
         \/ consoleOutSemaphore > 0 \/ drawing
         \/ ui \in {"clear", "redraw"}
         \/ \E m \in Message : sender[m] = "redraw"
         \/ \E p \in Printer : Printing(p)
    /\ consoleOutMutex # NOBODY => Printing(consoleOutMutex)
=============================================================================
