------------------------------ MODULE Connection ------------------------------
(***************************************************************************)
(* The connection between the X server and the activity: how it is set up, *)
(* how the root pixmap's buffer is shared over it, how the activity's      *)
(* window size comes back, and what is left when either end goes away.     *)
(*                                                                         *)
(* In the X server the binder thread creates connections, the main thread  *)
(* installs them and registers buffers, and the input thread reads events  *)
(* and handles hang-ups; conn_fd and registeredBuffers are theirs without  *)
(* a lock.  handleLorieEvents runs under the input thread's lock, which    *)
(* InputThreadRegisterDev takes as well.  At most one connection has a     *)
(* living activity at its other end, so one queue for each direction is    *)
(* enough: whatever is written to a closed socket is lost.                 *)
(*                                                                         *)
(* Present's flips are left out: loriePresentFlip compares the screen's    *)
(* width with the pixmap's height, so that it refuses them, and where the  *)
(* screen is a square present_execute calls after_flip, which is NULL.     *)
(***************************************************************************)
EXTENDS Naturals, Sequences, SequencesExt

CONSTANTS
  MaxConns,    \* bound: connections
  MaxBuffers,  \* bound: root pixmaps of one X server
  MaxSizes,    \* bound: sizes of the activity's window, the first one is 1
  MaxDeaths    \* bound: restarts of the X server

ASSUME ConnectionAssumption ==
  /\ MaxConns \in Nat /\ MaxBuffers \in Nat \ {0} /\ MaxSizes \in Nat \ {0}
  /\ MaxDeaths \in Nat

Conns   == 1..MaxConns
Buffers == Nat \ {0}            \* ids of buffers, counted from 1
Sizes   == 1..MaxSizes
NoConn  == 0                    \* conn_fd is -1, no connection
NoSize  == 0

VARIABLES
  made,        \* how many connections getXConnection has made
  connFd,      \* conn_fd of the X server
  watched,     \* connections the input thread reads from
  registered,  \* registeredBuffers
  workq,       \* the X server's work queue: connections to add and sizes to set
  mainPc,      \* where the main thread is
  mainConn,    \* the connection addFd is at work on, or the buffer was sent to
  inputPc,     \* where the input thread is in the handling of a hang-up
  inputConn,   \* the connection that hung up
  root,        \* the root pixmap's buffer; all earlier ones are freed
  screen,      \* the size of the screen
  activityFd,  \* conn_fd of the activity
  hungUp,      \* has the X server's end of the activity's connection been closed?
  state,       \* does the activity have the shared state?
  buffers,     \* the buffers its renderer has
  told,        \* the last size sent on this connection, NoSize if there was none
  toActivity,  \* events under way to the activity
  toServer,    \* sizes under way to the X server
  notice,      \* will the activity be told of the death of its X server?
  deaths,      \* restarts of the X server
  tangled      \* history: have the threads of the X server interfered since
               \* the last hang-up that left nothing behind?

serverVars   == <<connFd, registered, root, screen>>
inputVars    == <<watched, inputPc, inputConn>>
mainVars     == <<mainPc, mainConn>>
activityVars == <<activityFd, hungUp, state, buffers, told, notice>>
netVars      == <<toActivity, toServer>>
countVars    == <<made, deaths>>
vars == <<serverVars, inputVars, mainVars, workq, activityVars, netVars, countVars, tangled>>

AddFd(k)  == [type |-> "addFd", arg |-> k]
Resize(s) == [type |-> "size", arg |-> s]
Work      == [type : {"addFd"}, arg : Conns] \cup [type : {"size"}, arg : Sizes]

SharedState == [type |-> "state", arg |-> 0]
AddBuffer(b)    == [type |-> "add", arg |-> b]
RemoveBuffer(b) == [type |-> "remove", arg |-> b]
Event == {SharedState} \cup [type : {"add", "remove"}, arg : Buffers]

-----------------------------------------------------------------------------
\* What a write to the connection fd does: it arrives when the activity holds
\* the other end.
Written(fd, event) ==
  IF fd # NoConn /\ fd = activityFd /\ ~hungUp THEN Append(toActivity, event) ELSE toActivity

ServerInit ==
  /\ connFd = NoConn /\ watched = {} /\ registered = {} /\ workq = <<>>
  /\ mainPc = "idle" /\ mainConn = NoConn
  /\ inputPc = "idle" /\ inputConn = NoConn
  /\ root = 1 /\ screen = NoSize

Init ==
  /\ ServerInit
  /\ made = 0 /\ deaths = 0
  /\ activityFd = NoConn /\ hungUp = FALSE /\ state = FALSE /\ buffers = {}
  /\ told = NoSize /\ notice = FALSE
  /\ toActivity = <<>> /\ toServer = <<>>
  /\ tangled = FALSE

-----------------------------------------------------------------------------
(***************************************************************************)
(* The X server's main thread.                                             *)
(***************************************************************************)
\* addFd: InputThreadRegisterDev waits for the input thread's lock.
addFd ==
  /\ mainPc = "idle" /\ workq # <<>> /\ Head(workq).type = "addFd"
  /\ inputPc = "idle"
  /\ mainPc' = "install"
  /\ mainConn' = Head(workq).arg
  /\ watched' = watched \cup {Head(workq).arg}
  /\ workq' = Tail(workq)
  /\ UNCHANGED <<serverVars, inputPc, inputConn, activityVars, netVars, countVars, tangled>>

\* conn_fd is overwritten, also when it still holds an earlier connection, when
\* this one has hung up meanwhile or while the input thread empties the list.
InstallFd ==
  /\ mainPc = "install"
  /\ mainPc' = "state"
  /\ connFd' = mainConn
  /\ tangled' = (tangled \/ connFd # NoConn \/ mainConn \notin watched \/ inputPc = "empty")
  /\ UNCHANGED <<registered, root, screen, inputVars, mainConn, workq, activityVars,
                 netVars, countVars>>

lorieSendSharedServerState ==
  /\ mainPc = "state"
  /\ mainPc' = "register"
  /\ toActivity' = Written(connFd, SharedState)
  /\ UNCHANGED <<serverVars, inputVars, mainConn, workq, activityVars, toServer,
                 countVars, tangled>>

\* The root pixmap's buffer is written to the socket unless it is on the list.
lorieRegisterBuffer ==
  /\ mainPc = "register"
  /\ IF connFd = NoConn \/ root \in registered
     THEN mainPc' = "idle" /\ mainConn' = NoConn /\ UNCHANGED toActivity
     ELSE /\ mainPc' = "list" /\ mainConn' = connFd
          /\ toActivity' = Written(connFd, AddBuffer(root))
  /\ UNCHANGED <<serverVars, inputVars, workq, activityVars, toServer, countVars, tangled>>

\* LorieBuffer_addToList, after whatever the input thread has done meanwhile.
LorieBuffer_addToList ==
  /\ mainPc = "list"
  /\ mainPc' = "idle" /\ mainConn' = NoConn
  /\ registered' = registered \cup {root}
  /\ tangled' = (tangled \/ connFd # mainConn)
  /\ UNCHANGED <<connFd, root, screen, inputVars, workq, activityVars, netVars, countVars>>

(***************************************************************************)
(* sendConfigureNotify, lorieConfigureNotify and lorieRRScreenSetSize: a   *)
(* new root pixmap replaces the old one, whose buffer is unregistered and  *)
(* freed, which takes it off the list; then the new one is registered.     *)
(***************************************************************************)
\* A bug: the buffer that is freed is taken off the list by
\* lorieUnregisterBuffer only, which does so only when there is a connection.
ReplaceRootMutant ==
  /\ root' = root + 1
  /\ registered' = IF connFd = NoConn THEN registered ELSE registered \ {root}
  /\ toActivity' = IF root \in registered THEN Written(connFd, RemoveBuffer(root)) ELSE toActivity
  /\ mainPc' = "register"

ReplaceRoot ==
  /\ root' = root + 1
  /\ registered' = registered \ {root}
  /\ toActivity' = IF root \in registered THEN Written(connFd, RemoveBuffer(root)) ELSE toActivity
  /\ mainPc' = "register"

\* A bug: the new root pixmap is not registered.
lorieConfigureNotifyMutant ==
  /\ mainPc = "idle" /\ workq # <<>> /\ Head(workq).type = "size"
  /\ workq' = Tail(workq)
  /\ screen' = Head(workq).arg
  /\ root' = IF screen' = screen THEN root ELSE root + 1
  /\ registered' = IF screen' = screen THEN registered ELSE registered \ {root}
  /\ toActivity' = IF screen' # screen /\ root \in registered
                   THEN Written(connFd, RemoveBuffer(root)) ELSE toActivity
  /\ UNCHANGED <<connFd, mainVars, inputVars, activityVars, toServer, countVars, tangled>>

lorieConfigureNotify ==
  /\ mainPc = "idle" /\ workq # <<>> /\ Head(workq).type = "size"
  /\ workq' = Tail(workq)
  /\ screen' = Head(workq).arg
  /\ IF Head(workq).arg = screen
     THEN UNCHANGED <<root, registered, toActivity, mainPc>>
     ELSE ReplaceRoot
  /\ UNCHANGED <<connFd, inputVars, mainConn, activityVars, toServer, countVars, tangled>>

-----------------------------------------------------------------------------
(***************************************************************************)
(* The X server's input thread.                                            *)
(***************************************************************************)
\* EVENT_SCREEN_SIZE; an event is read before the activity's end is closed.
SizesQueued == SelectSeq(workq, LAMBDA w : w.type = "size")

\* A bug: a size is dropped while another one waits.
ReadScreenSizeMutant ==
  /\ inputPc = "idle" /\ activityFd \in watched /\ ~hungUp /\ toServer # <<>>
  /\ workq' = IF SizesQueued = <<>> THEN Append(workq, Resize(Head(toServer))) ELSE workq
  /\ toServer' = Tail(toServer)
  /\ UNCHANGED <<serverVars, inputVars, mainVars, activityVars, toActivity, countVars, tangled>>

ReadScreenSize ==
  /\ inputPc = "idle" /\ activityFd \in watched /\ ~hungUp /\ toServer # <<>>
  /\ workq' = Append(workq, Resize(Head(toServer)))
  /\ toServer' = Tail(toServer)
  /\ UNCHANGED <<serverVars, inputVars, mainVars, activityVars, toActivity, countVars, tangled>>

\* X_NOTIFY_ERROR: InputThreadUnregisterDev and close.
HangUp(k) ==
  /\ inputPc = "idle" /\ k \in watched /\ k # activityFd
  /\ inputPc' = "reset"
  /\ inputConn' = k
  /\ watched' = watched \ {k}
  /\ UNCHANGED <<serverVars, mainVars, workq, activityVars, netVars, countVars, tangled>>

\* conn_fd = -1, whichever connection it holds by now.
ResetFd ==
  /\ inputPc = "reset"
  /\ inputPc' = "empty"
  /\ connFd' = NoConn
  /\ tangled' = (tangled \/ connFd \notin {NoConn, inputConn})
  /\ UNCHANGED <<registered, root, screen, watched, inputConn, mainVars, workq,
                 activityVars, netVars, countVars>>

\* A bug: the list is left as it is.
EmptyListMutant ==
  /\ inputPc = "empty"
  /\ inputPc' = "idle" /\ inputConn' = NoConn
  /\ tangled' = (tangled /\ ~(connFd = NoConn /\ watched = {} /\ mainPc = "idle"))
  /\ UNCHANGED <<serverVars, watched, mainVars, workq, activityVars, netVars, countVars>>

EmptyList ==
  /\ inputPc = "empty"
  /\ registered' = {}
  /\ inputPc' = "idle" /\ inputConn' = NoConn
  /\ tangled' = (tangled /\ ~(connFd = NoConn /\ watched = {} /\ mainPc = "idle"))
  /\ UNCHANGED <<connFd, root, screen, watched, mainVars, workq, activityVars, netVars,
                 countVars>>

-----------------------------------------------------------------------------
(***************************************************************************)
(* The activity's main thread.                                             *)
(***************************************************************************)
\* What closing the connection, or the death of the process, leaves.
NotConnected ==
  /\ activityFd' = NoConn /\ hungUp' = FALSE /\ state' = FALSE /\ buffers' = {}
  /\ told' = NoSize
  /\ toActivity' = <<>> /\ toServer' = <<>>

\* tryConnect: getXConnection makes a pair of sockets and queues addFd.
tryConnect ==
  /\ activityFd = NoConn /\ made < MaxConns
  /\ made' = made + 1
  /\ workq' = Append(workq, AddFd(made + 1))
  /\ activityFd' = made + 1
  /\ UNCHANGED <<serverVars, inputVars, mainVars, hungUp, state, buffers, told, notice,
                 netVars, deaths, tangled>>

\* xcallback: EVENT_SHARED_SERVER_STATE, EVENT_ADD_BUFFER, EVENT_REMOVE_BUFFER.
Applied(set, event) ==
  CASE event.type = "add"    -> set \cup {event.arg}
    [] event.type = "remove" -> set \ {event.arg}
    [] OTHER                 -> set

xcallback ==
  /\ activityFd # NoConn /\ ~hungUp /\ toActivity # <<>>
  /\ toActivity' = Tail(toActivity)
  /\ state' = (state \/ Head(toActivity) = SharedState)
  /\ buffers' = Applied(buffers, Head(toActivity))
  /\ UNCHANGED <<serverVars, inputVars, mainVars, workq, activityFd, hungUp, told, notice,
                 toServer, countVars, tangled>>

\* ALOOPER_EVENT_HANGUP: whatever had not been read is lost.
xcallbackHangUp ==
  /\ activityFd # NoConn /\ hungUp
  /\ NotConnected
  /\ UNCHANGED <<serverVars, inputVars, mainVars, workq, notice, countVars, tangled>>

\* The bound on root pixmaps bounds the sizes sent.
sendWindowChange(s) ==
  /\ activityFd # NoConn /\ ~hungUp /\ root + Len(toServer) + Len(SizesQueued) < MaxBuffers
  /\ told' = s
  /\ toServer' = Append(toServer, s)
  /\ UNCHANGED <<serverVars, inputVars, mainVars, workq, activityFd, hungUp, state, buffers,
                 notice, toActivity, countVars, tangled>>

\* The process dies, or nativeInit of a new view closes the connection.
ActivityGone ==
  /\ activityFd # NoConn
  /\ NotConnected
  /\ notice' \in {FALSE, notice}
  /\ UNCHANGED <<serverVars, inputVars, mainVars, workq, countVars, tangled>>

\* The binder's death recipient posts connect(-1), whatever is connected by now.
DeathNotice ==
  /\ notice /\ notice' = FALSE
  /\ NotConnected
  /\ UNCHANGED <<serverVars, inputVars, mainVars, workq, countVars, tangled>>

\* The X server dies and is started again; its ids start again as well.
ServerRestart ==
  /\ deaths < MaxDeaths /\ deaths' = deaths + 1
  /\ connFd' = NoConn /\ watched' = {} /\ registered' = {} /\ workq' = <<>>
  /\ mainPc' = "idle" /\ mainConn' = NoConn /\ inputPc' = "idle" /\ inputConn' = NoConn
  /\ root' = 1 /\ screen' = NoSize
  /\ hungUp' = (activityFd # NoConn)
  /\ notice' = TRUE
  /\ toActivity' = <<>> /\ toServer' = <<>>
  /\ tangled' = FALSE
  /\ UNCHANGED <<activityFd, state, buffers, told, made>>

-----------------------------------------------------------------------------
MainStep ==
  \/ addFd \/ InstallFd \/ lorieSendSharedServerState \/ lorieRegisterBuffer
  \/ LorieBuffer_addToList \/ lorieConfigureNotify
InputStep == ReadScreenSize \/ (\E k \in Conns : HangUp(k)) \/ ResetFd \/ EmptyList
ActivityStep == xcallback \/ xcallbackHangUp \/ DeathNotice

Next ==
  \/ MainStep \/ InputStep \/ ActivityStep
  \/ tryConnect \/ ActivityGone \/ ServerRestart
  \/ \E s \in Sizes : sendWindowChange(s)

\* Each thread goes on while it has something to do.
Fairness == WF_vars(MainStep) /\ WF_vars(InputStep) /\ WF_vars(ActivityStep)

Spec == Init /\ [][Next]_vars /\ Fairness
-----------------------------------------------------------------------------
(***************************************************************************)
(* The types of the variables, and which of them go together: there is a   *)
(* connection at hand exactly while a thread is at work on one, nothing    *)
(* but the root pixmap's buffer is on the list, and only an existing       *)
(* connection can have been hung up.                                       *)
(***************************************************************************)
TypeOK ==
  /\ made \in 0..MaxConns /\ deaths \in 0..MaxDeaths
  /\ connFd \in 0..made /\ activityFd \in {NoConn, made}
  /\ watched \subseteq 1..made
  /\ root \in Buffers /\ registered \subseteq {root}
  /\ screen \in {NoSize} \cup Sizes /\ told \in {NoSize} \cup Sizes
  /\ workq \in Seq(Work)
  /\ mainPc \in {"idle", "install", "state", "register", "list"}
  /\ mainConn \in 0..made
  /\ inputPc \in {"idle", "reset", "empty"} /\ inputConn \in 0..made
  /\ (inputPc = "idle") = (inputConn = NoConn)
  /\ hungUp \in BOOLEAN /\ state \in BOOLEAN /\ notice \in BOOLEAN /\ tangled \in BOOLEAN
  /\ hungUp => activityFd # NoConn
  /\ buffers \subseteq Buffers
  /\ toActivity \in Seq(Event) /\ toServer \in Seq(Sizes)

\* The ends of a connection that both know of, and that the X server's
\* threads have not interfered with.
Established == connFd # NoConn /\ connFd = activityFd /\ ~hungUp /\ ~tangled

\* Is b one of the buffers, once the events are applied to set?
EndsWith(set, events, b) ==
  \/ b \in set /\ \A i \in DOMAIN events : events[i] # RemoveBuffer(b)
  \/ \E i \in DOMAIN events :
       events[i] = AddBuffer(b) /\ \A j \in DOMAIN events : j > i => events[j] # RemoveBuffer(b)

Received == {b \in buffers \cup {toActivity[i].arg : i \in DOMAIN toActivity} :
               EndsWith(buffers, toActivity, b)}

(***************************************************************************)
(* The renderer of the activity will have exactly the buffers the X server *)
(* thinks it has, once it has read what is under way: no buffer is skipped *)
(* because an earlier connection had it, and none is kept that is freed.   *)
(* (lorieRegisterBuffer and lorieUnregisterBuffer rely on registeredBuffers*)
(* to say what the present activity has been sent.)  Whenever the main     *)
(* thread is done with its work, the buffer of the root pixmap, which      *)
(* lorieRedraw tells the renderer to draw, is one of them.                 *)
(***************************************************************************)
PeersAgree ==
  /\ Established /\ mainPc # "list" => Received = registered
  /\ Established /\ mainPc = "idle" => root \in registered

\* Is s the size of the screen, once the work of q is done?
Settles(size, q, s) ==
  \/ size = s /\ \A i \in DOMAIN q : q[i].type # "size"
  \/ \E i \in DOMAIN q : q[i] = Resize(s) /\ \A j \in DOMAIN q : j > i => q[j].type # "size"

(***************************************************************************)
(* The last size of its window that the activity has sent on a connection  *)
(* is the one the screen gets last, whatever was sent on earlier ones and  *)
(* even when the X server has lost track of conn_fd.                       *)
(***************************************************************************)
SizeCovered ==
  told # NoSize /\ ~hungUp =>
    IF toServer = <<>> THEN Settles(screen, workq, told) ELSE Last(toServer) = told

(***************************************************************************)
(* An activity that connects gets the shared state and the buffer of the   *)
(* root pixmap, also after the pixmap is replaced, unless the connection   *)
(* ends or the X server's threads interfere: then it may wait for ever,    *)
(* since neither side finds the connection broken.                         *)
(***************************************************************************)
ScreenArrives ==
  \A k \in Conns : activityFd = k ~> (state /\ root \in buffers) \/ activityFd # k \/ tangled
===============================================================================
