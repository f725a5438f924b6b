-------------------------- MODULE ClipboardService --------------------------
(***************************************************************************)
(* What pasting the Android clipboard in X promises, without the cache,    *)
(* the sockets and the queues that provide it.  The texts the Android      *)
(* clipboard goes through are numbered; the X server has been told of one  *)
(* of them.  A client that asks may be answered at once or later, with a   *)
(* text that is no older than the one the server has been told of, and one *)
(* answer serves everybody who waits and has not exited.                   *)
(***************************************************************************)
EXTENDS Naturals

CONSTANTS
  Clients,  \* the clients that paste
  NULL,     \* no answer yet
  Empty     \* the empty text, the answer when the clipboard is not shared

VARIABLES
  clip,     \* the number of the text in the Android clipboard
  told,     \* the newest text the X server has been told of
  waiting,  \* clients that wait for an answer
  gone,     \* clients that have exited
  answer    \* what each client got last

vars == <<clip, told, waiting, gone, answer>>

\* The texts the server may hand out.
Current == (told..clip) \union {Empty}

Init ==
  /\ clip = 0
  /\ told = 0
  /\ waiting = {}
  /\ gone = {}
  /\ answer = [c \in Clients |-> NULL]

\* The Android clipboard gets another text.
Change ==
  /\ clip' = clip + 1
  /\ UNCHANGED <<told, waiting, gone, answer>>

\* The server is told that the clipboard has changed.
Tell ==
  /\ told' \in told..clip
  /\ UNCHANGED <<clip, waiting, gone, answer>>

\* A client asks and has to wait.
Ask(c) ==
  /\ c \notin waiting \union gone
  /\ waiting' = waiting \union {c}
  /\ UNCHANGED <<clip, told, gone, answer>>

\* A client asks and is answered at once.
AskKnown(c) ==
  /\ c \notin waiting \union gone
  /\ \E t \in Current : answer' = [answer EXCEPT ![c] = t]
  /\ UNCHANGED <<clip, told, waiting, gone>>

\* A client exits.
Leave(c) ==
  /\ gone' = gone \union {c}
  /\ UNCHANGED <<clip, told, waiting, answer>>

\* Everybody who waits, and is still there, gets the same text.
Reply ==
  /\ \E t \in Current :
       answer' = [c \in Clients |-> IF c \in waiting \ gone THEN t ELSE answer[c]]
  /\ waiting' = {}
  /\ UNCHANGED <<clip, told, gone>>

Next ==
  \/ Change \/ Tell \/ Reply
  \/ \E c \in Clients : Ask(c) \/ AskKnown(c) \/ Leave(c)

Spec == Init /\ [][Next]_vars
=============================================================================
