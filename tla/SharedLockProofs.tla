--------------------------- MODULE SharedLockProofs ---------------------------
(***************************************************************************)
(* Proofs about SharedLock, for every set of activity processes and every  *)
(* bound on connections: type correctness, mutual exclusion while the two  *)
(* processes are connected, that a connected peer never loses the mutex it *)
(* holds, and that no waiting thread finds its own pid in lockingPid.      *)
(***************************************************************************)
EXTENDS SharedLock, TLAPS

USE SharedLockAssumption

\* The socket pairs whose addFd has not run yet.
Queued == {workQueue[i] : i \in 1 .. Len(workQueue)}

\* Socket pairs are numbered in the order of their creation, and the server
\* answers on one only after its addFd has left the queue.
QueueInv ==
  /\ \A i \in 1 .. Len(workQueue) : workQueue[i] < nextConn
  /\ \A i, j \in 1 .. Len(workQueue) : i < j => workQueue[i] # workQueue[j]
  /\ \A c \in inbox : c < nextConn
  /\ srvConn # Nobody => srvConn < nextConn
  /\ inbox \cap Queued = {}

\* The renderer thread touches the mutex only while the state is mapped, and
\* the state is mapped only over a connection the server has taken up.
HandshakeInv ==
  /\ activity = Nobody => actConn = Nobody /\ ~mapped /\ gui = "run"
  /\ actConn = Nobody /\ gui = "run" => ~mapped
  /\ mapped /\ actConn # Nobody => actConn \notin Queued
  /\ activity # Nobody /\ ~mapped => pc[activity] = "idle"

\* Over a healthy connection whoever is between lock and unlock owns the
\* mutex, and nobody is about to reinitialise it.
OwnerInv ==
  Connected =>
    /\ \A p \in Running : Holding(p) => mutex.owner = p
    /\ \A p \in Running : pc[p] # "reinit"

IInv == TypeOK /\ QueueInv /\ HandshakeInv /\ OwnerInv

-----------------------------------------------------------------------------
\* Every reachable state is well typed.
THEOREM TypeCorrect == Spec => []TypeOK
<1>1. Init => TypeOK
  <2> SUFFICES ASSUME Init PROVE LockType /\ ConnType /\ ProcType
    BY DEF TypeOK
  <2>1. LockType BY DEF Init, LockType, Free, Procs, Steps
  <2>2. ConnType BY DEF Init, ConnType
  <2>3. ProcType BY DEF Init, ProcType
  <2> QED BY <2>1, <2>2, <2>3
<1>2. TypeOK /\ [Next]_vars => TypeOK'
  <2> SUFFICES ASSUME TypeOK, [Next]_vars PROVE LockType' /\ ConnType' /\ ProcType'
    BY DEF TypeOK
  <2> USE DEF TypeOK, connVars, procVars, lockVars, Goto
  <2>1. ASSUME NEW p \in Procs, LockStep(p) PROVE LockType' /\ ConnType' /\ ProcType'
    <3>1. UNCHANGED <<connVars, procVars, gui, mapped, failures>>
      BY <2>1 DEF LockStep, TimedlockAcquire, TimedlockTimeout, CheckOther, ReinitMutex,
                  RecordPid, ClearPid, MutexUnlock
    <3>2. ConnType' /\ ProcType'
      BY <3>1 DEF ConnType, ProcType
    <3>3. LockType'
      <4> USE DEF LockType, Procs, Steps
      <4>1. CASE TimedlockAcquire(p) BY <4>1 DEF TimedlockAcquire
      <4>2. CASE TimedlockTimeout(p) BY <4>2 DEF TimedlockTimeout
      <4>3. CASE CheckOther(p) BY <4>3 DEF CheckOther
      <4>4. CASE ReinitMutex(p) BY <4>4 DEF ReinitMutex, Free
      <4>5. CASE RecordPid(p) BY <4>5 DEF RecordPid
      <4>6. CASE ClearPid(p) BY <4>6 DEF ClearPid
      <4>7. CASE MutexUnlock(p)
        <5>1. pc' \in [Procs -> Steps] /\ lockingPid' = lockingPid
          BY <4>7 DEF MutexUnlock
        <5>2. mutex' \in [owner : Procs \cup {Nobody}, depth : Nat]
          BY <4>7 DEF MutexUnlock, Free
        <5> QED BY <5>1, <5>2
      <4> QED
        BY <2>1, <4>1, <4>2, <4>3, <4>4, <4>5, <4>6, <4>7 DEF LockStep
    <3> QED BY <3>2, <3>3
  <2>2. CASE ServerStep
    <3> USE DEF LockType, ConnType, ProcType, Procs, Steps, Conns
    <3>1. CASE loriePrepareAccess BY <3>1 DEF loriePrepareAccess
    <3>2. CASE loriePrepareAccessFails BY <3>2 DEF loriePrepareAccessFails
    <3>3. CASE lorieFinishAccess BY <3>3 DEF lorieFinishAccess
    <3>4. CASE addFd
      <4>1. Head(workQueue) \in Nat /\ Tail(workQueue) \in Seq(Nat)
        BY <3>4 DEF addFd
      <4> QED BY <3>4, <4>1 DEF addFd
    <3>5. ASSUME NEW c \in Conns, handleLorieEventsError(c) PROVE LockType' /\ ConnType' /\ ProcType'
      BY <3>5 DEF handleLorieEventsError
    <3> QED
      BY <2>2, <3>1, <3>2, <3>3, <3>4, <3>5 DEF ServerStep
  <2>3. CASE ActivityStep
    <3> USE DEF LockType, ConnType, ProcType, Procs, Steps, Conns
    <3>1. ASSUME NEW a \in Pids, rendererRedrawBegin(a) PROVE LockType' /\ ConnType' /\ ProcType'
      BY <3>1 DEF rendererRedrawBegin
    <3>2. ASSUME NEW a \in Pids, rendererRedrawEnd(a) PROVE LockType' /\ ConnType' /\ ProcType'
      BY <3>2 DEF rendererRedrawEnd
    <3>3. CASE tryConnect BY <3>3 DEF tryConnect
    <3>4. CASE xcallbackState BY <3>4 DEF xcallbackState
    <3>5. CASE xcallbackHangup BY <3>5 DEF xcallbackHangup
    <3>6. CASE connect_Close BY <3>6 DEF connect_Close
    <3>7. CASE ReuseDescriptor BY <3>7 DEF ReuseDescriptor
    <3>8. CASE rendererSetSharedStateNull BY <3>8 DEF rendererSetSharedStateNull
    <3> QED
      BY <2>3, <3>1, <3>2, <3>3, <3>4, <3>5, <3>6, <3>7, <3>8 DEF ActivityStep
  <2>4. CASE ProcessStep
    <3> USE DEF LockType, ConnType, ProcType, Procs, Steps, Conns
    <3>1. ASSUME NEW a \in Pids, ActivityStart(a) PROVE LockType' /\ ConnType' /\ ProcType'
      BY <3>1 DEF ActivityStart
    <3>2. CASE ActivityDies BY <3>2 DEF ActivityDies
    <3>3. CASE ServerDies BY <3>3 DEF ServerDies
    <3> QED
      BY <2>4, <3>1, <3>2, <3>3 DEF ProcessStep
  <2>5. CASE UNCHANGED vars
    BY <2>5 DEF vars, LockType, ConnType, ProcType
  <2> QED
    BY <2>1, <2>2, <2>3, <2>4, <2>5 DEF Next
<1> QED
  BY <1>1, <1>2, PTL DEF Spec

-----------------------------------------------------------------------------
\* The queue of socket pairs keeps creation order without repetition, and the
\* server never answers on a pair that is still queued (addFd).
LEMMA QueueStep == TypeOK /\ QueueInv /\ [Next]_vars => QueueInv'
<1> SUFFICES ASSUME TypeOK, QueueInv, [Next]_vars PROVE QueueInv'
  OBVIOUS
<1> USE DEF TypeOK, ConnType
<1>1. CASE UNCHANGED <<workQueue, nextConn, inbox, srvConn>>
  BY <1>1 DEF QueueInv, Queued
<1>2. CASE addFd
  <2> USE <1>2 DEF addFd
  <2>1. workQueue \in Seq(Nat) /\ Len(workQueue) > 0
    OBVIOUS
  <2>2. /\ Tail(workQueue) \in Seq(Nat)
        /\ Len(Tail(workQueue)) = Len(workQueue) - 1
        /\ \A i \in 1 .. Len(workQueue) - 1 : Tail(workQueue)[i] = workQueue[i + 1]
        /\ Head(workQueue) = workQueue[1]
    BY <2>1
  <2>3. /\ \A i \in 1 .. Len(workQueue)' : workQueue'[i] < nextConn'
        /\ \A i, j \in 1 .. Len(workQueue)' : i < j => workQueue'[i] # workQueue'[j]
    BY <2>1, <2>2 DEF QueueInv
  <2>4. workQueue[1] < nextConn
    BY <2>1 DEF QueueInv
  <2>5. /\ inbox' = inbox \cup {workQueue[1]} /\ srvConn' = workQueue[1]
        /\ nextConn' = nextConn
    BY <2>2
  <2>6. /\ \A c \in inbox' : c < nextConn'
        /\ srvConn' # Nobody => srvConn' < nextConn'
    BY <2>4, <2>5 DEF QueueInv
  <2>7. inbox' \cap Queued' = {}
    BY <2>1, <2>2 DEF QueueInv, Queued
  <2> QED BY <2>3, <2>6, <2>7 DEF QueueInv
<1>3. CASE tryConnect
  <2> USE <1>3 DEF tryConnect
  <2>1. /\ Len(workQueue)' = Len(workQueue) + 1
        /\ \A i \in 1 .. Len(workQueue) : workQueue'[i] = workQueue[i]
        /\ workQueue'[Len(workQueue) + 1] = nextConn
        /\ nextConn' = nextConn + 1
    OBVIOUS
  <2>2. /\ \A i \in 1 .. Len(workQueue)' : workQueue'[i] < nextConn'
        /\ \A i, j \in 1 .. Len(workQueue)' : i < j => workQueue'[i] # workQueue'[j]
    BY <2>1 DEF QueueInv
  <2>3. /\ \A c \in inbox' : c < nextConn'
        /\ srvConn' # Nobody => srvConn' < nextConn'
    BY <2>1 DEF QueueInv
  <2>4. inbox' \cap Queued' = {}
    BY <2>1 DEF QueueInv, Queued
  <2> QED BY <2>2, <2>3, <2>4 DEF QueueInv
<1>4. CASE xcallbackState
  BY <1>4 DEF xcallbackState, QueueInv, Queued
<1>5. ASSUME NEW c \in Conns, handleLorieEventsError(c) PROVE QueueInv'
  BY <1>5 DEF handleLorieEventsError, QueueInv, Queued
<1>6. ASSUME NEW p \in Procs, LockStep(p)
      PROVE UNCHANGED <<workQueue, nextConn, inbox, srvConn>>
  BY <1>6 DEF LockStep, TimedlockAcquire, TimedlockTimeout, CheckOther, ReinitMutex,
              RecordPid, ClearPid, MutexUnlock, connVars
<1>7. CASE ServerStep
  BY <1>1, <1>2, <1>5, <1>7 DEF ServerStep, loriePrepareAccess,
     loriePrepareAccessFails, lorieFinishAccess, connVars
<1>8. CASE ActivityStep
  BY <1>1, <1>3, <1>4, <1>8 DEF ActivityStep, rendererRedrawBegin, rendererRedrawEnd,
     xcallbackHangup, connect_Close, ReuseDescriptor, rendererSetSharedStateNull, connVars
<1>9. CASE ProcessStep
  BY <1>1, <1>9 DEF ProcessStep, ActivityStart, ActivityDies, ServerDies, connVars
<1>10. CASE UNCHANGED vars
  BY <1>1, <1>10 DEF vars, connVars
<1> QED
  BY <1>1, <1>6, <1>7, <1>8, <1>9, <1>10 DEF Next

\* The steps of lorie_mutex_lock and lorie_mutex_unlock touch the mutex and
\* the program counter of their own process only.
LEMMA LockStepFrame ==
  ASSUME NEW p \in Procs, LockStep(p)
  PROVE  /\ p \in Running
         /\ UNCHANGED <<connVars, procVars, gui, mapped, failures>>
         /\ pc[p] # "idle"
         /\ \E to \in Steps : pc' = [pc EXCEPT ![p] = to]
BY DEF LockStep, TimedlockAcquire, TimedlockTimeout, CheckOther, ReinitMutex,
       RecordPid, ClearPid, MutexUnlock, Goto, Steps

\* The state stays unmapped while the activity has no connection the server
\* answers on, and an unmapped renderer is idle (rendererSetSharedState).
LEMMA HandshakeStep ==
  TypeOK /\ QueueInv /\ HandshakeInv /\ [Next]_vars => HandshakeInv'
<1> SUFFICES ASSUME TypeOK, QueueInv, HandshakeInv, [Next]_vars PROVE HandshakeInv'
  OBVIOUS
<1> USE DEF TypeOK, LockType, ConnType, ProcType, Procs
<1>1. ASSUME NEW p \in Procs, LockStep(p) PROVE HandshakeInv'
  BY <1>1, LockStepFrame DEF HandshakeInv, Queued, Running, connVars, procVars
<1>2. ASSUME Queued' \subseteq Queued,
             UNCHANGED <<activity, actConn, gui, mapped>>,
             activity # Nobody => pc'[activity] = pc[activity]
      PROVE HandshakeInv'
  BY <1>2 DEF HandshakeInv
<1>3. CASE ServerStep
  <2>1. UNCHANGED <<activity, actConn, gui, mapped>>
    BY <1>3 DEF ServerStep, loriePrepareAccess, loriePrepareAccessFails,
       lorieFinishAccess, addFd, handleLorieEventsError, connVars, procVars
  <2>2. activity # Nobody => pc'[activity] = pc[activity]
    BY <1>3 DEF ServerStep, loriePrepareAccess, loriePrepareAccessFails,
       lorieFinishAccess, addFd, handleLorieEventsError, lockVars, Goto
  <2>3. CASE addFd
    <3>1. workQueue \in Seq(Nat) /\ Len(workQueue) > 0
      BY <2>3 DEF addFd
    <3>2. /\ Len(Tail(workQueue)) = Len(workQueue) - 1
          /\ \A i \in 1 .. Len(workQueue) - 1 : Tail(workQueue)[i] = workQueue[i + 1]
      BY <3>1
    <3>3. Queued' \subseteq Queued
      BY <2>3, <3>1, <3>2 DEF Queued, addFd
    <3> QED BY <2>1, <2>2, <3>3, <1>2
  <2>4. CASE ~addFd
    <3>1. workQueue' = workQueue
      BY <1>3, <2>4 DEF ServerStep, loriePrepareAccess, loriePrepareAccessFails,
         lorieFinishAccess, handleLorieEventsError, connVars
    <3> QED BY <2>1, <2>2, <3>1, <1>2 DEF Queued
  <2> QED BY <2>3, <2>4
<1>4. CASE ActivityStep
  <2>1. ASSUME NEW a \in Pids, rendererRedrawBegin(a) PROVE HandshakeInv'
    BY <2>1 DEF rendererRedrawBegin, HandshakeInv, Queued, Goto, Running, connVars, procVars
  <2>2. ASSUME NEW a \in Pids, rendererRedrawEnd(a) PROVE HandshakeInv'
    BY <2>2 DEF rendererRedrawEnd, HandshakeInv, Queued, Goto, Running, connVars, procVars
  <2>3. CASE tryConnect
    BY <2>3 DEF tryConnect, HandshakeInv, lockVars, procVars
  <2>4. CASE xcallbackState
    BY <2>4 DEF xcallbackState, HandshakeInv, QueueInv, Queued, lockVars, procVars
  <2>5. CASE xcallbackHangup
    BY <2>5 DEF xcallbackHangup, HandshakeInv, lockVars, procVars
  <2>6. CASE connect_Close
    BY <2>6 DEF connect_Close, HandshakeInv, Queued, lockVars, procVars
  <2>7. CASE ReuseDescriptor
    BY <2>7 DEF ReuseDescriptor, HandshakeInv, Queued, lockVars, procVars
  <2>8. CASE rendererSetSharedStateNull
    BY <2>8 DEF rendererSetSharedStateNull, HandshakeInv, lockVars, procVars
  <2> QED
    BY <1>4, <2>1, <2>2, <2>3, <2>4, <2>5, <2>6, <2>7, <2>8 DEF ActivityStep
<1>5. CASE ProcessStep
  <2>1. ASSUME NEW a \in Pids, ActivityStart(a) PROVE HandshakeInv'
    BY <2>1 DEF ActivityStart, HandshakeInv, connVars
  <2>2. CASE ActivityDies
    BY <2>2 DEF ActivityDies, HandshakeInv
  <2>3. CASE ServerDies
    BY <2>3 DEF ServerDies, HandshakeInv, Queued, connVars
  <2> QED BY <1>5, <2>1, <2>2, <2>3 DEF ProcessStep
<1>6. CASE UNCHANGED vars
  BY <1>6 DEF vars, lockVars, connVars, procVars, HandshakeInv, Queued
<1> QED
  BY <1>1, <1>3, <1>4, <1>5, <1>6 DEF Next

\* Unless a step establishes the connection, whoever holds the mutex over a
\* healthy connection keeps owning it (lorie_mutex_lock, lorie_mutex_unlock).
LEMMA OwnerStep == IInv /\ [Next]_vars => OwnerInv'
<1> SUFFICES ASSUME IInv, [Next]_vars, Connected'
             PROVE  /\ \A p \in Running' : Holding(p)' => mutex'.owner = p
                    /\ \A p \in Running' : pc'[p] # "reinit"
  BY DEF OwnerInv
<1> USE DEF IInv, TypeOK, LockType, ConnType, ProcType, Procs
<1>1. Running \subseteq Procs /\ Running' \subseteq Procs
  <2>1. Running \subseteq Procs
    BY DEF Running
  <2>2. activity' \in Pids \cup {Nobody}
    <3>1. ASSUME NEW p \in Procs, LockStep(p) PROVE activity' = activity
      BY <3>1, LockStepFrame DEF procVars
    <3>2. CASE ServerStep
      BY <3>2 DEF ServerStep, loriePrepareAccess, loriePrepareAccessFails,
         lorieFinishAccess, addFd, handleLorieEventsError, procVars
    <3>3. CASE ActivityStep
      BY <3>3 DEF ActivityStep, rendererRedrawBegin, rendererRedrawEnd, tryConnect,
         xcallbackState, xcallbackHangup, connect_Close, ReuseDescriptor,
         rendererSetSharedStateNull, procVars
    <3>4. CASE ProcessStep
      BY <3>4 DEF ProcessStep, ActivityStart, ActivityDies, ServerDies
    <3>5. CASE UNCHANGED vars
      BY <3>5 DEF vars, procVars
    <3> QED BY <3>1, <3>2, <3>3, <3>4, <3>5 DEF Next
  <2> QED BY <2>1, <2>2 DEF Running
<1>2. ASSUME Connected, UNCHANGED <<mutex, pc>>, Running' \subseteq Running
      PROVE  /\ \A p \in Running' : Holding(p)' => mutex'.owner = p
             /\ \A p \in Running' : pc'[p] # "reinit"
  BY <1>2 DEF OwnerInv, Holding
<1>3. ASSUME NEW p \in Procs, LockStep(p)
      PROVE  /\ \A q \in Running' : Holding(q)' => mutex'.owner = q
             /\ \A q \in Running' : pc'[q] # "reinit"
  <2>1. Connected /\ Running' = Running /\ p \in Running
    BY <1>3, LockStepFrame DEF Connected, Running, connVars, procVars
  <2>2. /\ \A q \in Running : Holding(q) => mutex.owner = q
        /\ \A q \in Running : pc[q] # "reinit"
    BY <2>1 DEF OwnerInv
  <2>3. lorieConnectionAlive(p)
    BY <2>1 DEF Connected, Running, lorieConnectionAlive
  <2>4. CASE TimedlockAcquire(p)
    BY <2>1, <2>2, <2>4, <1>1 DEF TimedlockAcquire, Goto, Holding
  <2>5. CASE TimedlockTimeout(p)
    BY <2>1, <2>2, <2>5, <1>1 DEF TimedlockTimeout, Goto, Holding
  <2>6. CASE CheckOther(p)
    BY <2>1, <2>2, <2>3, <2>6, <1>1 DEF CheckOther, KeepWaiting, Goto, Holding
  <2>7. CASE ReinitMutex(p)
    BY <2>1, <2>2, <2>7 DEF ReinitMutex, Goto
  <2>8. CASE RecordPid(p)
    BY <2>1, <2>2, <2>8, <1>1 DEF RecordPid, Goto, Holding
  <2>9. CASE ClearPid(p)
    BY <2>1, <2>2, <2>9, <1>1 DEF ClearPid, Goto, Holding
  <2>10. CASE MutexUnlock(p)
    BY <2>1, <2>2, <2>10, <1>1 DEF MutexUnlock, Goto, Holding
  <2> QED
    BY <1>3, <2>4, <2>5, <2>6, <2>7, <2>8, <2>9, <2>10 DEF LockStep
<1>4. ASSUME NEW p \in Procs, NEW from \in {"idle", "locked"},
             NEW to \in {"idle", "timedlock", "clear"},
             Goto(p, from, to), UNCHANGED <<mutex, connVars, procVars>>,
             to = "clear" => from = "locked"
      PROVE  /\ \A q \in Running' : Holding(q)' => mutex'.owner = q
             /\ \A q \in Running' : pc'[q] # "reinit"
  <2>1. Connected /\ Running' = Running /\ p \in Running
    BY <1>4 DEF Connected, Running, connVars, procVars, Goto
  <2>2. /\ \A q \in Running : Holding(q) => mutex.owner = q
        /\ \A q \in Running : pc[q] # "reinit"
    BY <2>1 DEF OwnerInv
  <2> QED BY <1>1, <1>4, <2>1, <2>2 DEF Goto, Holding
<1>5. CASE ServerStep
  <2>1. CASE addFd
    <3>1. activity # Nobody /\ actConn = Head(workQueue) /\ pc' = pc
          /\ Running' = Running
      BY <2>1 DEF addFd, Connected, Running, procVars, lockVars
    <3>2. workQueue \in Seq(Nat) /\ Len(workQueue) > 0 /\ Head(workQueue) = workQueue[1]
      BY <2>1 DEF addFd
    <3>3. Head(workQueue) \in Queued /\ Head(workQueue) # Nobody
      BY <3>2 DEF Queued
    <3>4. pc[activity] = "idle"
      BY <3>1, <3>3 DEF HandshakeInv
    <3>5. \A p \in Running : pc[p] = "idle"
      BY <2>1, <3>4 DEF addFd, Running
    <3> QED BY <3>1, <3>5 DEF Holding
  <2>2. ASSUME NEW c \in Conns, handleLorieEventsError(c) PROVE FALSE
    BY <2>2 DEF handleLorieEventsError, Connected
  <2>3. CASE loriePrepareAccess
    BY <2>3, <1>4 DEF loriePrepareAccess
  <2>4. CASE loriePrepareAccessFails
    BY <2>4, <1>4 DEF loriePrepareAccessFails
  <2>5. CASE lorieFinishAccess
    BY <2>5, <1>4 DEF lorieFinishAccess
  <2> QED BY <1>5, <2>1, <2>2, <2>3, <2>4, <2>5 DEF ServerStep
<1>6. CASE ActivityStep
  <2>1. ASSUME NEW a \in Pids, rendererRedrawBegin(a)
        PROVE  /\ \A q \in Running' : Holding(q)' => mutex'.owner = q
               /\ \A q \in Running' : pc'[q] # "reinit"
    BY <2>1, <1>4 DEF rendererRedrawBegin
  <2>2. ASSUME NEW a \in Pids, rendererRedrawEnd(a)
        PROVE  /\ \A q \in Running' : Holding(q)' => mutex'.owner = q
               /\ \A q \in Running' : pc'[q] # "reinit"
    BY <2>2, <1>4 DEF rendererRedrawEnd
  <2>3. ~tryConnect
    BY DEF tryConnect, Connected, QueueInv
  <2>4. CASE xcallbackState
    BY <2>4, <1>2 DEF xcallbackState, Connected, Running, lockVars, procVars
  <2>5. ~xcallbackHangup
    BY DEF xcallbackHangup, Connected
  <2>6. ~connect_Close
    BY DEF connect_Close, Connected
  <2>7. CASE ReuseDescriptor
    BY <2>7, <1>2 DEF ReuseDescriptor, Connected, Running, lockVars, procVars
  <2>8. ~rendererSetSharedStateNull
    BY DEF rendererSetSharedStateNull, Connected
  <2> QED
    BY <1>6, <2>1, <2>2, <2>3, <2>4, <2>5, <2>6, <2>7, <2>8 DEF ActivityStep
<1>7. ~ProcessStep
  BY DEF ProcessStep, ActivityStart, ActivityDies, ServerDies, Connected, HandshakeInv, connVars
<1>8. CASE UNCHANGED vars
  BY <1>8, <1>2 DEF vars, lockVars, connVars, procVars, Connected, Running
<1> QED
  BY <1>3, <1>5, <1>6, <1>7, <1>8 DEF Next

-----------------------------------------------------------------------------
\* IInv is an invariant: types, the order of connections, the handshake with
\* the renderer thread, and ownership over a healthy connection.
THEOREM InductiveInvariant == Spec => []IInv
<1>1. Init => IInv
  <2> SUFFICES ASSUME Init, TypeOK PROVE QueueInv /\ HandshakeInv /\ OwnerInv
    <3>1. Init => TypeOK
      <4> SUFFICES ASSUME Init PROVE LockType /\ ConnType /\ ProcType
        BY DEF TypeOK
      <4>1. LockType BY DEF Init, LockType, Free, Procs, Steps
      <4>2. ConnType BY DEF Init, ConnType
      <4>3. ProcType BY DEF Init, ProcType
      <4> QED BY <4>1, <4>2, <4>3
    <3> QED BY <3>1 DEF IInv
  <2> USE DEF Init
  <2>1. QueueInv BY DEF QueueInv, Queued
  <2>2. HandshakeInv BY DEF HandshakeInv
  <2>3. OwnerInv BY DEF OwnerInv, Connected
  <2> QED BY <2>1, <2>2, <2>3
<1>2. TypeOK' /\ IInv /\ [Next]_vars => IInv'
  BY QueueStep, HandshakeStep, OwnerStep DEF IInv
<1> QED
  BY <1>1, <1>2, TypeCorrect, PTL DEF Spec

\* While the X server and the activity share a healthy connection, the two
\* are never both inside the region protected by state->lock.
THEOREM Exclusion == Spec => []ExclusionWhileConnected
<1>1. IInv => ExclusionWhileConnected
  BY DEF IInv, OwnerInv, ExclusionWhileConnected, Connected, Running, Holding,
         TypeOK, ProcType
<1> QED
  BY <1>1, InductiveInvariant, PTL

\* lorie_mutex_lock never takes the mutex away from a running process that
\* holds it and is connected: only its own unlock makes it lose the mutex.
THEOREM NotStolen == Spec => StolenOnlyAfterLoss
<1>1. IInv /\ [Next]_vars =>
        [\A p \in Procs :
           (Holding(p) /\ mutex.owner = p /\ mutex'.owner # p /\ p \in Running')
              => pc[p] = "unlock" \/ ~Connected]_vars
  <2> SUFFICES ASSUME IInv, [Next]_vars, NEW p \in Procs,
                      Holding(p), mutex.owner = p, mutex'.owner # p,
                      pc[p] # "unlock", Connected
               PROVE  FALSE
    OBVIOUS
  <2> USE DEF IInv, TypeOK, LockType, Procs
  <2>1. ASSUME NEW q \in Procs, LockStep(q) PROVE FALSE
    <3>1. pc[q] # "reinit"
      BY <2>1, LockStepFrame DEF OwnerInv
    <3> QED
      BY <2>1, <3>1 DEF LockStep, TimedlockAcquire, TimedlockTimeout, CheckOther,
         ReinitMutex, RecordPid, ClearPid, MutexUnlock, Goto
  <2>2. CASE ServerStep
    BY <2>2 DEF ServerStep, loriePrepareAccess, loriePrepareAccessFails,
       lorieFinishAccess, addFd, handleLorieEventsError, lockVars
  <2>3. CASE ActivityStep
    BY <2>3 DEF ActivityStep, rendererRedrawBegin, rendererRedrawEnd, tryConnect,
       xcallbackState, xcallbackHangup, connect_Close, ReuseDescriptor,
       rendererSetSharedStateNull, lockVars
  <2>4. CASE ProcessStep
    BY <2>4 DEF ProcessStep, ActivityStart, ActivityDies, ServerDies
  <2>5. CASE UNCHANGED vars
    BY <2>5 DEF vars, lockVars
  <2> QED
    BY <2>1, <2>2, <2>3, <2>4, <2>5 DEF Next
<1> QED
  BY <1>1, InductiveInvariant, PTL DEF StolenOnlyAfterLoss, Spec

-----------------------------------------------------------------------------
\* The pid in lockingPid was given to some process, and without a failed
\* LorieBuffer_lock a running process finds its own pid there only between
\* its lorie_mutex_lock and its lorie_mutex_unlock.
PidInv ==
  /\ activity # Nobody => activity \in used
  /\ lockingPid \in Pids => lockingPid \in used
  /\ failures = 0 =>
       \A p \in Running : lockingPid = p => pc[p] \in {"locked", "clear"}

\* lockingPid is the pid of a process that is done waiting: recorded after the
\* mutex is taken, cleared before it is given back, and never that of a
\* process that has yet to start.
LEMMA PidStep == TypeOK /\ PidInv /\ [Next]_vars => PidInv'
<1> SUFFICES ASSUME TypeOK, PidInv, [Next]_vars PROVE PidInv'
  OBVIOUS
<1> USE DEF TypeOK, LockType, ProcType, Procs, PidInv
<1>1. ASSUME NEW p \in Procs, LockStep(p) PROVE PidInv'
  <2> USE DEF Goto, Running, procVars
  <2>1. CASE TimedlockAcquire(p) BY <2>1 DEF TimedlockAcquire
  <2>2. CASE TimedlockTimeout(p) BY <2>2 DEF TimedlockTimeout
  <2>3. CASE CheckOther(p) BY <2>3 DEF CheckOther
  <2>4. CASE ReinitMutex(p) BY <2>4 DEF ReinitMutex
  <2>5. CASE RecordPid(p) BY <2>5 DEF RecordPid
  <2>6. CASE ClearPid(p) BY <2>6 DEF ClearPid
  <2>7. CASE MutexUnlock(p) BY <2>7 DEF MutexUnlock
  <2> QED
    BY <1>1, <2>1, <2>2, <2>3, <2>4, <2>5, <2>6, <2>7 DEF LockStep
<1>2. ASSUME UNCHANGED <<lockingPid, pc, procVars, failures>> PROVE PidInv'
  BY <1>2 DEF procVars, Running
<1>3. CASE ServerStep
  <2>1. CASE loriePrepareAccess
    BY <2>1 DEF loriePrepareAccess, Goto, Running, procVars
  <2>2. CASE loriePrepareAccessFails
    BY <2>2 DEF loriePrepareAccessFails, Goto, Running, procVars
  <2>3. CASE lorieFinishAccess
    BY <2>3 DEF lorieFinishAccess, Goto, Running, procVars
  <2> QED
    BY <1>2, <1>3, <2>1, <2>2, <2>3
       DEF ServerStep, addFd, handleLorieEventsError, lockVars
<1>4. CASE ActivityStep
  <2>1. ASSUME NEW a \in Pids, rendererRedrawBegin(a) PROVE PidInv'
    BY <2>1 DEF rendererRedrawBegin, Goto, Running, procVars
  <2>2. ASSUME NEW a \in Pids, rendererRedrawEnd(a) PROVE PidInv'
    BY <2>2 DEF rendererRedrawEnd, Goto, Running, procVars
  <2> QED
    BY <1>2, <1>4, <2>1, <2>2
       DEF ActivityStep, tryConnect, xcallbackState, xcallbackHangup, connect_Close,
           ReuseDescriptor, rendererSetSharedStateNull, lockVars
<1>5. CASE ProcessStep
  <2>1. ASSUME NEW a \in Pids, ActivityStart(a) PROVE PidInv'
    BY <2>1 DEF ActivityStart, Running
  <2>2. CASE ActivityDies BY <2>2 DEF ActivityDies, Running
  <2>3. CASE ServerDies BY <2>3 DEF ServerDies, Running
  <2> QED BY <1>5, <2>1, <2>2, <2>3 DEF ProcessStep
<1>6. CASE UNCHANGED vars
  BY <1>2, <1>6 DEF vars, lockVars
<1> QED
  BY <1>1, <1>3, <1>4, <1>5, <1>6 DEF Next

\* As long as no LorieBuffer_lock has failed, no thread in the loop of
\* lorie_mutex_lock finds its own pid in lockingPid: whether it keeps waiting
\* is decided by the connection alone.
THEOREM NoSelfWait == Spec => []NeverWaitsForItself
<1>1. Init => PidInv
  BY DEF Init, PidInv, Running
<1>2. PidInv => NeverWaitsForItself
  BY DEF PidInv, NeverWaitsForItself, Waiting
<1> QED
  BY <1>1, <1>2, PidStep, TypeCorrect, PTL DEF Spec
=============================================================================
