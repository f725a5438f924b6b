------------------------------ MODULE SharedLock ------------------------------
(***************************************************************************)
(* The process-shared mutex of struct lorie_shared_server_state, taken by  *)
(* the X server around CPU access to the root window and by the renderer   *)
(* thread of the Android activity around a frame.  lorie.h replaces the    *)
(* robust mutex bionic lacks: a thread that times out asks whether its     *)
(* socket to the other process is alive, and reinitialises the mutex when  *)
(* it is not.  Whether that is right depends on when each side learns of   *)
(* the other's death, so the module carries the life cycle of the socket   *)
(* (getXConnection, addFd, hang-ups on both sides) next to the mutex.      *)
(*                                                                         *)
(* cursor.lock is used through the same two functions and never together   *)
(* with this mutex by the server, so it is one more instance of the        *)
(* module.  A restarted server allocates a new shared state, which is a    *)
(* fresh instance too: here the server process dies at most once.          *)
(***************************************************************************)
EXTENDS Naturals, Sequences, FiniteSets

CONSTANTS
  Pids,         \* the process ids of successive incarnations of the activity
  Server,       \* the process id of the X server
  Nobody,       \* no owner / pid 0 / fd -1
  MaxConn,      \* bound: socket pairs getXConnection may create
  MaxFailures,  \* bound: LorieBuffer_lock failures in loriePrepareAccess
  FdReuse       \* may a closed descriptor number be reused by the process?

ASSUME SharedLockAssumption ==
  /\ Server \notin Pids
  /\ Nobody \notin Pids \cup {Server}
  /\ Nobody \notin Nat
  /\ MaxConn \in Nat
  /\ MaxFailures \in Nat
  /\ FdReuse \in BOOLEAN

VARIABLES
  mutex,      \* state->lock: its owner and its recursion depth
  lockingPid, \* state->lockingPid
  pc,         \* where the thread of each process that uses the lock is
  activity,   \* the running activity process, Nobody between incarnations
  used,       \* the pids of all activity processes started so far
  serverUp,   \* is the server process running?
  nextConn,   \* the next socket pair
  workQueue,  \* addFd work procs queued for the server's main thread
  inputDevs,  \* server descriptors polled by the X server's input thread
  srvConn,    \* conn_fd of the server process
  srvClosed,  \* socket pairs whose server end is closed
  actConn,    \* conn_fd of the running activity process
  actClosed,  \* socket pairs whose activity end is closed
  fdReused,   \* conn_fd of the activity names somebody else's open file
  inbox,      \* socket pairs carrying an unread EVENT_SHARED_SERVER_STATE
  gui,        \* what the activity's main thread is doing
  mapped,     \* does the activity's renderer thread have the state mapped?
  failures    \* how often LorieBuffer_lock has failed

lockVars == <<mutex, lockingPid, pc>>
connVars == <<nextConn, workQueue, inputDevs, srvConn, srvClosed,
              actConn, actClosed, fdReused, inbox>>
procVars == <<activity, used, serverUp>>
vars == <<lockVars, connVars, procVars, gui, mapped, failures>>

Procs == Pids \cup {Server}
Conns == 0 .. MaxConn - 1
Steps == {"idle", "timedlock", "timedout", "reinit", "record",
          "locked", "clear", "unlock", "dead"}

Free == [owner |-> Nobody, depth |-> 0]

Running == (IF serverUp THEN {Server} ELSE {})
             \cup (IF activity = Nobody THEN {} ELSE {activity})

\* A bug: the descriptor is tested, poll() is not called.
lorieConnectionAliveMutant(p) == (IF p = Server THEN srvConn ELSE actConn) # Nobody

(***************************************************************************)
(* lorieConnectionAlive: the descriptor is set and poll() reports neither  *)
(* a hang-up by the peer nor a closed descriptor.                          *)
(***************************************************************************)
lorieConnectionAlive(p) ==
  IF p = Server
  THEN srvConn # Nobody /\ srvConn \notin actClosed
  ELSE /\ actConn # Nobody
       /\ \/ fdReused
          \/ actConn \notin actClosed /\ actConn \notin srvClosed /\ serverUp

Goto(p, from, to) ==
  /\ p \in Running
  /\ pc[p] = from
  /\ pc' = [pc EXCEPT ![p] = to]

(***************************************************************************)
(* lorie_mutex_lock.  The deadline is read from CLOCK_MONOTONIC but        *)
(* pthread_mutex_timedlock measures CLOCK_REALTIME, so a held mutex times  *)
(* out without waiting; a free one is taken whatever the deadline says.    *)
(***************************************************************************)
TimedlockAcquire(p) ==
  /\ Goto(p, "timedlock", "record")
  /\ mutex.owner \in {Nobody, p}
  /\ mutex' = [owner |-> p, depth |-> mutex.depth + 1]
  /\ UNCHANGED <<lockingPid, connVars, procVars, gui, mapped, failures>>

TimedlockTimeout(p) ==
  /\ Goto(p, "timedlock", "timedout")
  /\ mutex.owner \notin {Nobody, p}
  /\ UNCHANGED <<mutex, lockingPid, connVars, procVars, gui, mapped, failures>>

\* Bugs: the connection is not asked; any recorded owner is waited for.
KeepWaitingMutant(p) == lockingPid = p

KeepWaitingForOwnerMutant(p) == lockingPid # Nobody \/ lorieConnectionAlive(p)

KeepWaiting(p) == lockingPid = p \/ lorieConnectionAlive(p)

CheckOther(p) ==
  /\ Goto(p, "timedout", IF KeepWaiting(p) THEN "timedlock" ELSE "reinit")
  /\ UNCHANGED <<mutex, lockingPid, connVars, procVars, gui, mapped, failures>>

ReinitMutex(p) ==
  /\ Goto(p, "reinit", "timedlock")
  /\ mutex' = Free
  /\ UNCHANGED <<lockingPid, connVars, procVars, gui, mapped, failures>>

RecordPid(p) ==
  /\ Goto(p, "record", "locked")
  /\ lockingPid' = p
  /\ UNCHANGED <<mutex, connVars, procVars, gui, mapped, failures>>

(***************************************************************************)
(* lorie_mutex_unlock.  Unlocking a recursive mutex somebody else owns     *)
(* returns EPERM and leaves it alone.                                      *)
(***************************************************************************)
\* A bug: lockingPid is left behind.
ClearPidMutant(p) ==
  /\ Goto(p, "clear", "unlock")
  /\ UNCHANGED <<mutex, lockingPid, connVars, procVars, gui, mapped, failures>>

ClearPid(p) ==
  /\ Goto(p, "clear", "unlock")
  /\ lockingPid' = Nobody
  /\ UNCHANGED <<mutex, connVars, procVars, gui, mapped, failures>>

\* A bug: a mutex without error checks, unlocked by whoever calls.
MutexUnlockMutant(p) ==
  /\ Goto(p, "unlock", "idle")
  /\ mutex' = [mutex EXCEPT !.depth = @ - 1]
  /\ UNCHANGED <<lockingPid, connVars, procVars, gui, mapped, failures>>

MutexUnlock(p) ==
  /\ Goto(p, "unlock", "idle")
  /\ mutex' = IF mutex.owner # p THEN mutex
              ELSE IF mutex.depth > 1 THEN [owner |-> p, depth |-> mutex.depth - 1]
              ELSE Free
  /\ UNCHANGED <<lockingPid, connVars, procVars, gui, mapped, failures>>

(***************************************************************************)
(* The users of the lock: EXA's access to the root pixmap in the server,   *)
(* a frame in the renderer thread.  When LorieBuffer_lock fails,           *)
(* loriePrepareAccess returns FALSE without unlocking.                     *)
(***************************************************************************)
loriePrepareAccess ==
  /\ Goto(Server, "idle", "timedlock")
  /\ UNCHANGED <<mutex, lockingPid, connVars, procVars, gui, mapped, failures>>

loriePrepareAccessFails ==
  /\ failures < MaxFailures
  /\ Goto(Server, "locked", "idle")
  /\ failures' = failures + 1
  /\ UNCHANGED <<mutex, lockingPid, connVars, procVars, gui, mapped>>

lorieFinishAccess ==
  /\ Goto(Server, "locked", "clear")
  /\ UNCHANGED <<mutex, lockingPid, connVars, procVars, gui, mapped, failures>>

rendererRedrawBegin(a) ==
  /\ mapped
  /\ Goto(a, "idle", "timedlock")
  /\ UNCHANGED <<mutex, lockingPid, connVars, procVars, gui, mapped, failures>>

rendererRedrawEnd(a) ==
  /\ Goto(a, "locked", "clear")
  /\ UNCHANGED <<mutex, lockingPid, connVars, procVars, gui, mapped, failures>>

(***************************************************************************)
(* The server's side of the socket.  addFd runs on the main thread, which  *)
(* is the thread that takes the lock; the error callback runs on the input *)
(* thread and resets conn_fd whichever descriptor failed.                  *)
(***************************************************************************)
\* A bug: the binder thread calls addFd itself instead of QueueWorkProc.
addFdMutant ==
  /\ serverUp
  /\ workQueue # <<>>
  /\ LET c == Head(workQueue) IN
       /\ inputDevs' = inputDevs \cup {c}
       /\ srvConn' = c
       /\ inbox' = inbox \cup {c}
  /\ workQueue' = Tail(workQueue)
  /\ UNCHANGED <<lockVars, nextConn, srvClosed, actConn, actClosed,
                 fdReused, procVars, gui, mapped, failures>>

addFd ==
  /\ serverUp /\ pc[Server] = "idle"
  /\ workQueue # <<>>
  /\ LET c == Head(workQueue) IN
       /\ inputDevs' = inputDevs \cup {c}
       /\ srvConn' = c
       /\ inbox' = inbox \cup {c}
  /\ workQueue' = Tail(workQueue)
  /\ UNCHANGED <<lockVars, nextConn, srvClosed, actConn, actClosed,
                 fdReused, procVars, gui, mapped, failures>>

handleLorieEventsError(c) ==
  /\ serverUp
  /\ c \in inputDevs \cap actClosed
  /\ inputDevs' = inputDevs \ {c}
  /\ srvClosed' = srvClosed \cup {c}
  /\ srvConn' = Nobody
  /\ UNCHANGED <<lockVars, nextConn, workQueue, actConn, actClosed,
                 fdReused, inbox, procVars, gui, mapped, failures>>

(***************************************************************************)
(* The activity's side, on its main thread.                                *)
(***************************************************************************)

\* MainActivity.tryConnect: getXConnection over binder, then LorieView.connect.
tryConnect ==
  /\ activity # Nobody /\ gui = "run"
  /\ actConn = Nobody
  /\ serverUp
  /\ nextConn < MaxConn
  /\ nextConn' = nextConn + 1
  /\ workQueue' = Append(workQueue, nextConn)
  /\ actConn' = nextConn
  /\ UNCHANGED <<lockVars, inputDevs, srvConn, srvClosed, actClosed,
                 fdReused, inbox, procVars, gui, mapped, failures>>

\* xcallback, EVENT_SHARED_SERVER_STATE: rendererSetSharedState(state).
xcallbackState ==
  /\ activity # Nobody /\ gui = "run"
  /\ actConn \in inbox
  /\ pc[activity] = "idle"
  /\ inbox' = inbox \ {actConn}
  /\ mapped' = TRUE
  /\ UNCHANGED <<lockVars, nextConn, workQueue, inputDevs, srvConn, srvClosed,
                 actConn, actClosed, fdReused, procVars, gui, failures>>

\* xcallback, ALOOPER_EVENT_HANGUP: conn_fd is reset before the renderer is told.
xcallbackHangup ==
  /\ activity # Nobody /\ gui = "run"
  /\ actConn # Nobody
  /\ actConn \in srvClosed \/ ~serverUp
  /\ actClosed' = actClosed \cup {actConn}
  /\ actConn' = Nobody
  /\ gui' = "unmap"
  /\ UNCHANGED <<lockVars, nextConn, workQueue, inputDevs, srvConn, srvClosed,
                 fdReused, inbox, procVars, mapped, failures>>

\* connect_(-1), from nativeInit or the binder's death: the descriptor is
\* closed first, and conn_fd keeps its number until the renderer has answered.
connect_Close ==
  /\ activity # Nobody /\ gui = "run"
  /\ actConn # Nobody
  /\ actClosed' = actClosed \cup {actConn}
  /\ gui' = "unmap"
  /\ UNCHANGED <<lockVars, nextConn, workQueue, inputDevs, srvConn, srvClosed,
                 actConn, fdReused, inbox, procVars, mapped, failures>>

\* Another thread of the activity opens a file and gets the closed number.
ReuseDescriptor ==
  /\ FdReuse
  /\ activity # Nobody /\ gui = "unmap"
  /\ actConn # Nobody
  /\ ~fdReused
  /\ fdReused' = TRUE
  /\ UNCHANGED <<lockVars, nextConn, workQueue, inputDevs, srvConn, srvClosed,
                 actConn, actClosed, inbox, procVars, gui, mapped, failures>>

\* rendererSetSharedState(NULL) returns once the renderer thread is between
\* two frames and has dropped the state; connect_ then sets conn_fd to -1.
rendererSetSharedStateNull ==
  /\ activity # Nobody /\ gui = "unmap"
  /\ pc[activity] = "idle"
  /\ mapped' = FALSE
  /\ gui' = "run"
  /\ actConn' = Nobody
  /\ fdReused' = FALSE
  /\ UNCHANGED <<lockVars, nextConn, workQueue, inputDevs, srvConn, srvClosed,
                 actClosed, inbox, procVars, failures>>

(***************************************************************************)
(* Processes start and are killed; the kernel closes their descriptors and *)
(* leaves the shared mutex as it is.                                       *)
(***************************************************************************)
ActivityStart(a) ==
  /\ activity = Nobody
  /\ a \notin used
  /\ activity' = a
  /\ used' = used \cup {a}
  /\ pc' = [pc EXCEPT ![a] = "idle"]
  /\ UNCHANGED <<mutex, lockingPid, connVars, serverUp, gui, mapped, failures>>

ActivityDies ==
  /\ activity # Nobody
  /\ pc' = [pc EXCEPT ![activity] = "dead"]
  /\ activity' = Nobody
  /\ actClosed' = IF actConn = Nobody THEN actClosed ELSE actClosed \cup {actConn}
  /\ actConn' = Nobody
  /\ fdReused' = FALSE
  /\ gui' = "run"
  /\ mapped' = FALSE
  /\ UNCHANGED <<mutex, lockingPid, nextConn, workQueue, inputDevs, srvConn,
                 srvClosed, inbox, used, serverUp, failures>>

ServerDies ==
  /\ serverUp
  /\ serverUp' = FALSE
  /\ pc' = [pc EXCEPT ![Server] = "dead"]
  /\ UNCHANGED <<mutex, lockingPid, connVars, activity, used, gui, mapped, failures>>

-----------------------------------------------------------------------------
Init ==
  /\ mutex = Free
  /\ lockingPid = Nobody
  /\ pc = [p \in Procs |-> IF p = Server THEN "idle" ELSE "dead"]
  /\ activity = Nobody
  /\ used = {}
  /\ serverUp = TRUE
  /\ nextConn = 0
  /\ workQueue = <<>>
  /\ inputDevs = {}
  /\ srvConn = Nobody
  /\ srvClosed = {}
  /\ actConn = Nobody
  /\ actClosed = {}
  /\ fdReused = FALSE
  /\ inbox = {}
  /\ gui = "run"
  /\ mapped = FALSE
  /\ failures = 0

\* The steps of lorie_mutex_lock and lorie_mutex_unlock.
LockStep(p) ==
  \/ TimedlockAcquire(p)
  \/ TimedlockTimeout(p)
  \/ CheckOther(p)
  \/ ReinitMutex(p)
  \/ RecordPid(p)
  \/ ClearPid(p)
  \/ MutexUnlock(p)

ServerStep ==
  \/ loriePrepareAccess
  \/ loriePrepareAccessFails
  \/ lorieFinishAccess
  \/ addFd
  \/ \E c \in Conns : handleLorieEventsError(c)

ActivityStep ==
  \/ \E a \in Pids : rendererRedrawBegin(a) \/ rendererRedrawEnd(a)
  \/ tryConnect
  \/ xcallbackState
  \/ xcallbackHangup
  \/ connect_Close
  \/ ReuseDescriptor
  \/ rendererSetSharedStateNull

ProcessStep ==
  \/ \E a \in Pids : ActivityStart(a)
  \/ ActivityDies
  \/ ServerDies

Next ==
  \/ \E p \in Procs : LockStep(p)
  \/ ServerStep
  \/ ActivityStep
  \/ ProcessStep

Spec == Init /\ [][Next]_vars

(***************************************************************************)
(* Fairness: the kernel schedules every thread, a frame and a CPU access   *)
(* end, and hang-ups are delivered.  Nothing obliges anybody to connect,   *)
(* to draw or to die.                                                      *)
(***************************************************************************)
Fairness ==
  /\ \A p \in Procs : WF_vars(LockStep(p))
  /\ WF_vars(lorieFinishAccess)
  /\ \A a \in Pids : WF_vars(rendererRedrawEnd(a))
  /\ \A c \in Conns : WF_vars(handleLorieEventsError(c))
  /\ WF_vars(xcallbackHangup)
  /\ WF_vars(rendererSetSharedStateNull)

FairSpec == Spec /\ Fairness

-----------------------------------------------------------------------------
LockType ==
  /\ mutex \in [owner : Procs \cup {Nobody}, depth : Nat]
  /\ lockingPid \in Procs \cup {Nobody}
  /\ pc \in [Procs -> Steps]

ConnType ==
  /\ nextConn \in Nat
  /\ workQueue \in Seq(Nat)
  /\ inputDevs \in SUBSET Nat
  /\ srvConn \in Nat \cup {Nobody}
  /\ srvClosed \in SUBSET Nat
  /\ actConn \in Nat \cup {Nobody}
  /\ actClosed \in SUBSET Nat
  /\ inbox \in SUBSET Nat

ProcType ==
  /\ activity \in Pids \cup {Nobody}
  /\ used \in SUBSET Pids
  /\ serverUp \in BOOLEAN
  /\ fdReused \in BOOLEAN
  /\ gui \in {"run", "unmap"}
  /\ mapped \in BOOLEAN
  /\ failures \in Nat

\* Every variable stays in the range the C declarations give it.
TypeOK == LockType /\ ConnType /\ ProcType

\* Between the successful pthread_mutex_timedlock and pthread_mutex_unlock.
Holding(p) == p \in Running /\ pc[p] \in {"record", "locked", "clear", "unlock"}

\* In the loop of lorie_mutex_lock.
Waiting(p) == p \in Running /\ pc[p] \in {"timedlock", "timedout", "reinit"}

\* Both ends are open and each process uses this very socket as conn_fd.
Connected ==
  /\ serverUp /\ activity # Nobody
  /\ srvConn # Nobody /\ srvConn = actConn
  /\ srvConn \notin actClosed \cup srvClosed

\* "We should block X server while we are drawing" (lorie.h): while the two
\* processes share a healthy connection, the X server and the renderer are
\* never both between lorie_mutex_lock and lorie_mutex_unlock, whatever
\* deaths, hang-ups and reinitialisations happened before.
ExclusionWhileConnected ==
  Connected => ~(Holding(Server) /\ Holding(activity))

\* A running holder loses the mutex only by unlocking it itself or after the
\* connection broke: lorie_mutex_lock never reinitialises the mutex under a
\* peer it is connected to.
StolenOnlyAfterLoss ==
  [][\A p \in Procs :
       (Holding(p) /\ mutex.owner = p /\ mutex'.owner # p /\ p \in Running')
         => pc[p] = "unlock" \/ ~Connected]_vars

\* The `*lockingPid == getpid()` test of lorie_mutex_lock, which makes the
\* caller wait without looking at the connection, never fires for a thread
\* that waits for somebody else, unless a failed LorieBuffer_lock left the
\* mutex locked.
NeverWaitsForItself ==
  failures = 0 => \A p \in Procs : Waiting(p) => lockingPid # p

\* The mutex is owned by a process that is gone.
Orphaned == mutex.owner \in Procs \ Running

\* "In the case if renderer or X server process unexpectedly die with locked
\* mutex we will simply reinitialize it" (lorie_mutex_lock): an X server that
\* waits for a mutex left behind by a killed activity gets it out of the way.
ServerSurvivesActivityDeath ==
  (Waiting(Server) /\ Orphaned) ~> (~serverUp \/ ~Orphaned)

\* What the code achieves of it: the X server recovers the mutex unless another
\* activity connects first, or a failed LorieBuffer_lock left its own pid behind.
ServerRecoversLock ==
  (Waiting(Server) /\ Orphaned) ~>
    (~serverUp \/ ~Orphaned \/ Connected \/ failures > 0)

\* The same for a renderer thread that waits for the mutex of a dead X server,
\* unless its closed descriptor number was reused.
LeftByServer == ~serverUp /\ mutex.owner = Server

RendererSurvivesServerDeath ==
  \A a \in Pids : (Waiting(a) /\ LeftByServer) ~>
                    (pc[a] = "dead" \/ ~LeftByServer \/ fdReused)
=============================================================================
