------------------------------- MODULE Console -------------------------------
(***************************************************************************)
(* The console of the client (lib/utils/consoleOut/consoleOutput.c):       *)
(* consoleBuffer under a mutex, a semaphore that counts the redraws asked  *)
(* for, and the thread that copies the buffer to the screen.               *)
(*                                                                         *)
(* Every printing function takes the mutex, writes rows of the buffer,     *)
(* gives the mutex back and then releases the semaphore.  What holds the   *)
(* mutex for one write is one step here (Write); printChatHistory, whose   *)
(* thread may be terminated while it holds it, takes several.              *)
(***************************************************************************)
EXTENDS Naturals

CONSTANTS
  MaxRedraws,   (* the maximum count of consoleOutSemaphore: 100           *)
  NOBODY        (* owner of a mutex that is free                           *)

ASSUME ConsoleAssumption == MaxRedraws \in Nat \ {0}

VARIABLES
  consoleBuffer,
  undrawn,              (* it has been written since it was last drawn     *)
  consoleOutMutex,      (* the thread that owns it, or NOBODY              *)
  consoleOutSemaphore,
  drawing               (* the draw thread has taken the semaphore         *)

consoleVars ==
  <<consoleBuffer, undrawn, consoleOutMutex, consoleOutSemaphore, drawing>>

ConsoleInit(blank) ==
  /\ consoleBuffer = blank
  /\ undrawn = FALSE
  /\ consoleOutMutex = NOBODY
  /\ consoleOutSemaphore = 0
  /\ drawing = FALSE

(* One of the functions that write rows: writeToConsoleBuffer,             *)
(* vprintToConsoleBuffer, clearLine, drawSeparatorLine, clearScreen        *)
Write(rows) ==
  /\ consoleOutMutex = NOBODY
  /\ consoleBuffer' = rows
  /\ undrawn' = TRUE
  /\ UNCHANGED <<consoleOutMutex, consoleOutSemaphore, drawing>>

(* ReleaseSemaphore fails, and nobody looks, at the maximum *)
ReleaseSemaphore ==
  consoleOutSemaphore' = IF consoleOutSemaphore < MaxRedraws
                           THEN consoleOutSemaphore + 1
                           ELSE consoleOutSemaphore

redrawConsole ==
  /\ ReleaseSemaphore
  /\ UNCHANGED <<consoleBuffer, undrawn, consoleOutMutex, drawing>>

(* consoleDrawThread *)
WaitForRedraw ==
  /\ ~drawing
  /\ consoleOutSemaphore > 0
  /\ consoleOutSemaphore' = consoleOutSemaphore - 1
  /\ drawing' = TRUE
  /\ UNCHANGED <<consoleBuffer, undrawn, consoleOutMutex>>

Draw ==
  /\ drawing
  /\ consoleOutMutex = NOBODY
  /\ undrawn' = FALSE
  /\ drawing' = FALSE
  /\ UNCHANGED <<consoleBuffer, consoleOutMutex, consoleOutSemaphore>>

consoleDrawThread == WaitForRedraw \/ Draw
=============================================================================
