---------------------------- MODULE RendererProofs ----------------------------
(***************************************************************************)
(* Proofs about Renderer, for any shared states, windows and buffers.      *)
(***************************************************************************)
EXTENDS Renderer, TLAPS

USE RendererAssumption

-----------------------------------------------------------------------------
\* The updates of one shared state that the actions make are well typed.
LEMMA ShmUpdate ==
  ASSUME NEW f \in [States -> SharedState], NEW s \in States,
         NEW b \in BOOLEAN, NEW c \in BOOLEAN, NEW id \in Ids \cup {NULL}
  PROVE  /\ [f EXCEPT ![s].request = b] \in [States -> SharedState]
         /\ [f EXCEPT ![s].surfaceAvailable = b] \in [States -> SharedState]
         /\ [f EXCEPT ![s].waitForNextFrame = b] \in [States -> SharedState]
         /\ [f EXCEPT ![s].waitForNextFrame = b, ![s].request = c, ![s].root = id]
              \in [States -> SharedState]
         /\ [f EXCEPT ![s].request = b, ![s].waitForNextFrame = c] \in [States -> SharedState]
         /\ [f EXCEPT ![s].surfaceAvailable = b, ![s].request = @ \/ c]
              \in [States -> SharedState]
<1>1. f[s] \in SharedState
  OBVIOUS
<1>2. /\ [f[s] EXCEPT !.request = b] \in SharedState
      /\ [f[s] EXCEPT !.surfaceAvailable = b] \in SharedState
      /\ [f[s] EXCEPT !.waitForNextFrame = b] \in SharedState
      /\ [f[s] EXCEPT !.waitForNextFrame = b, !.request = c, !.root = id] \in SharedState
      /\ [f[s] EXCEPT !.request = b, !.waitForNextFrame = c] \in SharedState
  BY <1>1 DEF SharedState
<1>3. f[s].request \/ c \in BOOLEAN
  BY <1>1 DEF SharedState
<1>4. [f[s] EXCEPT !.surfaceAvailable = b, !.request = @ \/ c] \in SharedState
  BY <1>1, <1>3 DEF SharedState
<1> QED BY <1>1, <1>2, <1>4

\* Every step keeps the types.
LEMMA TypeStep == TypeOK /\ [Next]_vars => TypeOK'
<1> SUFFICES ASSUME TypeOK, [Next]_vars PROVE GuiType' /\ RenderType' /\ ProxyType'
  BY DEF TypeOK
<1> USE DEF TypeOK, GuiType, RenderType, ProxyType, guiVars, handVars, renderVars,
            winVars, proxyVars, memVars, SignalStateCond, WakeProxy
<1>1. CASE \E new \in (States \ mapped) \cup {NULL} : rendererSetSharedState(new)
  <2>1. GuiType' BY <1>1 DEF rendererSetSharedState
  <2>2. RenderType' BY <1>1 DEF SharedState, rendererSetSharedState
  <2>3. ProxyType' BY <1>1 DEF SharedState, rendererSetSharedState
  <2> QED BY <2>1, <2>2, <2>3
<1>2. CASE \E new \in Windows \cup {NULL} : rendererSetWindow(new)
  <2>1. GuiType' BY <1>2 DEF rendererSetWindow
  <2>2. RenderType'
    <3>1. \A new : Acquired(new) \in [Windows -> Int] BY DEF Acquired
    <3> QED BY <1>2, <3>1 DEF rendererSetWindow
  <2>3. ProxyType' BY <1>2 DEF rendererSetWindow
  <2> QED BY <2>1, <2>2, <2>3
<1>3. CASE \E b \in Buffers : rendererAddBuffer(b)
  <2>1. GuiType' BY <1>3 DEF rendererAddBuffer, Buffers
  <2>2. RenderType' BY <1>3 DEF rendererAddBuffer, Buffers
  <2>3. ProxyType' BY <1>3 DEF rendererAddBuffer, Buffers
  <2> QED BY <2>1, <2>2, <2>3
<1>4. CASE \E id \in Ids : rendererRemoveBuffer(id)
  <2>1. GuiType' BY <1>4 DEF rendererRemoveBuffer, WithId, On, Buffers
  <2>2. RenderType' BY <1>4 DEF rendererRemoveBuffer, WithId, On, Buffers
  <2>3. ProxyType' BY <1>4 DEF rendererRemoveBuffer, WithId, On, Buffers
  <2> QED BY <2>1, <2>2, <2>3
<1>5. CASE rendererRemoveAllBuffers
  <2>1. GuiType' BY <1>5 DEF rendererRemoveAllBuffers
  <2>2. RenderType' BY <1>5 DEF rendererRemoveAllBuffers
  <2>3. ProxyType' BY <1>5 DEF rendererRemoveAllBuffers
  <2> QED BY <2>1, <2>2, <2>3
<1>6. CASE GuiCheckFinished
  <2>1. GuiType' BY <1>6 DEF GuiCheckFinished, HandoverPending
  <2>2. RenderType' BY <1>6 DEF GuiCheckFinished, HandoverPending
  <2>3. ProxyType' BY <1>6 DEF GuiCheckFinished, HandoverPending
  <2> QED BY <2>1, <2>2, <2>3
<1>7. CASE GuiRelock
  <2>1. GuiType' BY <1>7 DEF GuiRelock
  <2>2. RenderType' BY <1>7 DEF GuiRelock
  <2>3. ProxyType' BY <1>7 DEF GuiRelock
  <2> QED BY <2>1, <2>2, <2>3
<1>8. CASE rendererShouldWait
  <2>1. GuiType' BY <1>8 DEF rendererShouldWait, Pending, FrameWanted
  <2>2. RenderType' BY <1>8 DEF SharedState, rendererShouldWait, Pending, FrameWanted
  <2>3. ProxyType' BY <1>8 DEF SharedState, rendererShouldWait, Pending, FrameWanted
  <2> QED BY <2>1, <2>2, <2>3
<1>9. CASE RenderSleep
  <2>1. GuiType' BY <1>9 DEF RenderSleep
  <2>2. RenderType' BY <1>9 DEF RenderSleep
  <2>3. ProxyType' BY <1>9 DEF RenderSleep
  <2> QED BY <2>1, <2>2, <2>3
<1>10. CASE RenderRelock
  <2>1. GuiType' BY <1>10 DEF RenderRelock
  <2>2. RenderType' BY <1>10 DEF RenderRelock
  <2>3. ProxyType' BY <1>10 DEF RenderRelock
  <2> QED BY <2>1, <2>2, <2>3
<1>11. CASE ApplyState
  <2>1. GuiType' BY <1>11 DEF ApplyState
  <2>2. RenderType' BY <1>11 DEF ApplyState
  <2>3. ProxyType'
    <3>1. shm \in [States -> SharedState] /\ pendingState \in States \cup {NULL}
      BY DEF TypeOK, ProxyType, GuiType
    <3>2. (win # Default) \in BOOLEAN
      OBVIOUS
    <3>3. \/ shm' = shm
          \/ /\ pendingState # NULL
             /\ shm' = [shm EXCEPT ![pendingState].surfaceAvailable = (win # Default)]
      BY <1>11 DEF ApplyState
    <3>4. CASE shm' = shm
      BY <1>11, <3>4 DEF TypeOK, ProxyType, ApplyState
    <3>5. CASE shm' # shm
      <4>1. pendingState \in States
        BY <3>1, <3>3, <3>5
      <4>2. ASSUME NEW b \in BOOLEAN
            PROVE  [shm EXCEPT ![pendingState].surfaceAvailable = b] \in [States -> SharedState]
        BY ONLY <3>1, <4>1, b \in BOOLEAN, ShmUpdate
      <4>3. shm' \in [States -> SharedState]
        BY <3>2, <3>3, <3>5, <4>2
      <4>4. UNCHANGED <<proxyVars, mapped>>
        BY <1>11 DEF ApplyState
      <4> QED BY <4>3, <4>4 DEF TypeOK, ProxyType
    <3> QED BY <3>4, <3>5
  <2> QED BY <2>1, <2>2, <2>3
<1>12. CASE ListenOtherCondVar
  <2>1. GuiType' BY <1>12 DEF ListenOtherCondVar
  <2>2. RenderType' BY <1>12 DEF ListenOtherCondVar
  <2>3. ProxyType' BY <1>12 DEF ListenOtherCondVar
  <2> QED BY <2>1, <2>2, <2>3
<1>13. CASE ListenWoken
  <2>1. GuiType' BY <1>13 DEF ListenWoken
  <2>2. RenderType' BY <1>13 DEF ListenWoken
  <2>3. ProxyType' BY <1>13 DEF ListenWoken
  <2> QED BY <2>1, <2>2, <2>3
<1>14. CASE UnmapOldState
  <2>1. GuiType' BY <1>14 DEF UnmapOldState
  <2>2. RenderType' BY <1>14 DEF UnmapOldState
  <2>3. ProxyType' BY <1>14 DEF SharedState, Blank, UnmapOldState
  <2> QED BY <2>1, <2>2, <2>3
<1>15. CASE ApplyWindow
  <2>1. GuiType'
    <3>1. \/ UNCHANGED <<windowChanged, pendingWin>>
          \/ pendingWin' = NULL /\ windowChanged' = FALSE
      BY <1>15 DEF ApplyWindow, rendererRefreshContext, WindowTaken
    <3> QED BY <1>15, <3>1 DEF ApplyWindow
  <2>2. RenderType'
    <3>1. CASE \E fails \in SUBSET Failures : rendererRefreshContext(fails)
      <4>1. PICK fails \in SUBSET Failures : rendererRefreshContext(fails)
        BY <3>1
      <4>2. /\ refs \in [Windows -> Int] /\ handed \in [Windows -> Nat]
            /\ unreleased \in [Windows -> Nat] /\ pendingWin \in Windows \cup {NULL}
            /\ sfc \in Windows \cup {Default, NoSurface}
        BY DEF TypeOK, GuiType, RenderType
      <4>3. \A w, r : r \in [Windows -> Int] => ReleaseWindow(w, r) \in [Windows -> Int]
        BY DEF ReleaseWindow
      <4>4. refs' \in [Windows -> Int]
        BY <4>1, <4>2, <4>3 DEF rendererRefreshContext
      <4>5. handed' \in [Windows -> Nat] /\ unreleased' \in [Windows -> Nat]
        BY <4>1, <4>2 DEF rendererRefreshContext
      <4>6. win' \in Windows \cup {Default}
        BY <4>1, <4>2 DEF rendererRefreshContext, NextWindow
      <4>7. sfc' \in Windows \cup {Default, NoSurface}
        BY <4>1, <4>2 DEF rendererRefreshContext, KeptSurface
      <4> QED BY <1>15, <4>4, <4>5, <4>6, <4>7 DEF ApplyWindow, TypeOK, RenderType, renderVars
    <3>2. CASE UNCHANGED winVars
      BY <1>15, <3>2 DEF ApplyWindow, TypeOK, RenderType, renderVars, winVars
    <3> QED BY <1>15, <3>1, <3>2 DEF ApplyWindow
  <2>3. ProxyType'
    <3>1. shm \in [States -> SharedState] /\ state \in States \cup {NULL}
      BY DEF TypeOK, ProxyType, RenderType
    <3>2. \/ shm' = shm
          \/ SetSurfaceAvailable(FALSE, FALSE)
          \/ SetSurfaceAvailable(TRUE, TRUE)
      BY <1>15 DEF ApplyWindow, rendererRefreshContext
    <3>3. ASSUME NEW b \in BOOLEAN, NEW r \in BOOLEAN, SetSurfaceAvailable(b, r), state # NULL
          PROVE  shm' \in [States -> SharedState]
      <4>1. shm' = [shm EXCEPT ![state].surfaceAvailable = b, ![state].request = @ \/ r]
        BY <3>3 DEF SetSurfaceAvailable
      <4>2. state \in States
        BY <3>1, <3>3
      <4>3. [shm EXCEPT ![state].surfaceAvailable = b, ![state].request = @ \/ r]
              \in [States -> SharedState]
        BY ONLY shm \in [States -> SharedState], state \in States, b \in BOOLEAN,
                r \in BOOLEAN, ShmUpdate, <3>1, <3>3, <4>2
      <4> QED BY ONLY <4>1, <4>3
    <3>4. state = NULL => shm' = shm
      BY <3>2 DEF SetSurfaceAvailable
    <3>5. shm' \in [States -> SharedState]
      BY <3>1, <3>2, <3>3, <3>4
    <3>6. UNCHANGED <<proxyVars, mapped>>
      BY <1>15 DEF ApplyWindow
    <3> QED BY <3>5, <3>6 DEF TypeOK, ProxyType
  <2> QED BY <2>1, <2>2, <2>3
<1>16. CASE AttachAndFinish
  <2>1. GuiType' BY <1>16 DEF AttachAndFinish, StillWaiting, On
  <2>2. RenderType' BY <1>16 DEF AttachAndFinish, StillWaiting, On
  <2>3. ProxyType' BY <1>16 DEF AttachAndFinish, StillWaiting, On
  <2> QED BY <2>1, <2>2, <2>3
<1>17. CASE BeginFrame
  <2>1. GuiType' BY <1>17 DEF BeginFrame, FindBuffer, WithId, On, FrameWanted
  <2>2. RenderType' BY <1>17 DEF SharedState, BeginFrame, FindBuffer, WithId, On, FrameWanted
  <2>3. ProxyType' BY <1>17 DEF SharedState, BeginFrame, FindBuffer, WithId, On, FrameWanted
  <2> QED BY <2>1, <2>2, <2>3
<1>18. CASE DrawFrame
  <2>1. GuiType' BY <1>18 DEF DrawFrame
  <2>2. RenderType' BY <1>18 DEF DrawFrame
  <2>3. ProxyType'
    <3>1. shm \in [States -> SharedState] /\ state \in States \cup {NULL}
      BY DEF TypeOK, ProxyType, RenderType
    <3>2. shm' = [shm EXCEPT ![state].request = FALSE, ![state].waitForNextFrame = TRUE]
      BY <1>18 DEF DrawFrame
    <3>3. CASE state \in States
      <4>1. shm' \in [States -> SharedState]
        BY <3>1, <3>2, <3>3, ShmUpdate
      <4> QED BY <1>18, <4>1 DEF TypeOK, ProxyType, DrawFrame
    <3>4. CASE state \notin States
      <4>1. shm' = shm
        BY <3>1, <3>2, <3>4
      <4> QED BY <1>18, <4>1 DEF TypeOK, ProxyType, DrawFrame
    <3> QED BY <3>3, <3>4
  <2> QED BY <2>1, <2>2, <2>3
<1>19. CASE SwapBuffers
  <2>1. GuiType' BY <1>19 DEF SwapBuffers
  <2>2. RenderType' BY <1>19 DEF SwapBuffers
  <2>3. ProxyType' BY <1>19 DEF SwapBuffers
  <2> QED BY <2>1, <2>2, <2>3
<1>20. CASE SweepRemoved
  <2>1. GuiType' BY <1>20 DEF SweepRemoved
  <2>2. RenderType' BY <1>20 DEF SweepRemoved
  <2>3. ProxyType' BY <1>20 DEF SweepRemoved
  <2> QED BY <2>1, <2>2, <2>3
<1>21. CASE ProxyRelock
  <2>1. GuiType' BY <1>21 DEF ProxyRelock
  <2>2. RenderType' BY <1>21 DEF ProxyRelock
  <2>3. ProxyType' BY <1>21 DEF ProxyRelock
  <2> QED BY <2>1, <2>2, <2>3
<1>22. CASE ProxyForward
  <2>1. GuiType' BY <1>22 DEF ProxyForward
  <2>2. RenderType' BY <1>22 DEF ProxyForward
  <2>3. ProxyType' BY <1>22 DEF ProxyForward
  <2> QED BY <2>1, <2>2, <2>3
<1>23. CASE ProxyWait
  <2>1. GuiType' BY <1>23 DEF ProxyWait
  <2>2. RenderType' BY <1>23 DEF ProxyWait
  <2>3. ProxyType' BY <1>23 DEF ProxyWait
  <2> QED BY <2>1, <2>2, <2>3
<1>24. CASE \E s \in States : lorieMoveCursor(s)
  <2>1. GuiType' BY <1>24 DEF lorieMoveCursor
  <2>2. RenderType' BY <1>24 DEF lorieMoveCursor
  <2>3. ProxyType'
    <3>1. PICK s \in States : lorieMoveCursor(s)
      BY <1>24
    <3>2. shm' = [shm EXCEPT ![s].request = TRUE]
      BY <3>1 DEF lorieMoveCursor
    <3>3. shm \in [States -> SharedState]
      BY DEF TypeOK, ProxyType
    <3>4. shm' \in [States -> SharedState]
      BY <3>2, <3>3, ShmUpdate
    <3> QED BY <3>1, <3>4 DEF TypeOK, ProxyType, lorieMoveCursor
  <2> QED BY <2>1, <2>2, <2>3
<1>25. CASE \E s \in States : Vsync(s)
  <2>1. GuiType' BY <1>25 DEF Vsync, lorieRedraw
  <2>2. RenderType' BY <1>25 DEF Vsync, lorieRedraw
  <2>3. ProxyType'
    <3>1. PICK s \in States, id \in Ids, damaged \in BOOLEAN : lorieRedraw(s, id, damaged)
      BY <1>25 DEF Vsync
    <3>2. \/ shm' = [shm EXCEPT ![s].waitForNextFrame = FALSE, ![s].request = TRUE,
                               ![s].root = id]
          \/ shm' = [shm EXCEPT ![s].waitForNextFrame = FALSE]
      BY <3>1 DEF lorieRedraw
    <3>3. shm \in [States -> SharedState]
      BY DEF TypeOK, ProxyType
    <3>4. id \in Ids \cup {NULL}
      OBVIOUS
    <3>5. /\ [shm EXCEPT ![s].waitForNextFrame = FALSE, ![s].request = TRUE,
                       ![s].root = id] \in [States -> SharedState]
          /\ [shm EXCEPT ![s].waitForNextFrame = FALSE] \in [States -> SharedState]
      BY ONLY ShmUpdate, <3>3, <3>4, s \in States
    <3>6. shm' \in [States -> SharedState]
      BY ONLY <3>2, <3>5
    <3> QED BY <3>1, <3>6 DEF TypeOK, ProxyType, lorieRedraw
  <2> QED BY <2>1, <2>2, <2>3
<1>26. CASE SpuriousWakeup
  <2>1. GuiType' BY <1>26 DEF SpuriousWakeup
  <2>2. RenderType' BY <1>26 DEF SpuriousWakeup
  <2>3. ProxyType' BY <1>26 DEF SpuriousWakeup
  <2> QED BY <2>1, <2>2, <2>3
<1>27. CASE UNCHANGED vars
  <2>1. GuiType' BY <1>27 DEF vars
  <2>2. RenderType' BY <1>27 DEF vars
  <2>3. ProxyType' BY <1>27 DEF vars
  <2> QED BY <2>1, <2>2, <2>3
<1> QED
  BY <1>1, <1>2, <1>3, <1>4, <1>5, <1>6, <1>7, <1>8, <1>9, <1>10, <1>11, <1>12, <1>13, <1>14,
     <1>15, <1>16, <1>17, <1>18, <1>19, <1>20, <1>21, <1>22, <1>23, <1>24, <1>25, <1>26, <1>27
  DEF Next, GuiRequest, GuiStep, RenderStep, ProxyStep

LEMMA TypeInit == Init => TypeOK
<1> SUFFICES ASSUME Init PROVE GuiType /\ RenderType /\ ProxyType
  BY DEF TypeOK
<1>1. GuiType BY DEF Init, GuiType
<1>2. RenderType
  <2>1. renderPc \in {"check", "waiting"}
    BY DEF Init
  <2>2. state \in States \cup {NULL} /\ oldState \in States \cup {NULL}
    BY DEF Init
  <2>3. win \in Windows \cup {Default} /\ sfc \in Windows \cup {Default, NoSurface}
    BY DEF Init
  <2>4. /\ refs \in [Windows -> Int] /\ handed \in [Windows -> Nat]
        /\ unreleased \in [Windows -> Nat]
    BY DEF Init
  <2>5. waitingForBuffers \in BOOLEAN
    BY DEF Init
  <2>6. lastRequestedBufferId \in Ids \cup {NULL} /\ drawing \in Buffers \cup {NULL}
    BY DEF Init
  <2>7. list \in [Buffers -> {"free", "added", "buffers", "removed"}]
    BY DEF Init
  <2> QED BY <2>1, <2>2, <2>3, <2>4, <2>5, <2>6, <2>7 DEF RenderType
<1>3. ProxyType BY DEF Init, ProxyType, SharedState, Blank
<1> QED BY <1>1, <1>2, <1>3

\* Every reachable state is well typed.
THEOREM TypeCorrect == Spec => []TypeOK
<1> QED BY TypeInit, TypeStep, PTL DEF Spec
-----------------------------------------------------------------------------
\* Only a frame that is being drawn has a buffer, and that buffer is alive:
\* DrawnBufferAlive is not inductive without the first part, since SweepRemoved
\* frees removed buffers.
DrawingInv ==
  drawing # NULL => /\ renderPc \in {"draw", "swap"}
                    /\ list[drawing] \in {"buffers", "removed"}

\* Every step keeps the buffer that is being drawn alive.
LEMMA DrawingStep == TypeOK /\ DrawingInv /\ [Next]_vars => DrawingInv'
<1> SUFFICES ASSUME TypeOK, DrawingInv, [Next]_vars,
                    drawing' # NULL
             PROVE  /\ renderPc' \in {"draw", "swap"}
                    /\ list'[drawing'] \in {"buffers", "removed"}
  BY DEF DrawingInv
<1>0. /\ drawing \in Buffers \cup {NULL}
      /\ list \in [Buffers -> {"free", "added", "buffers", "removed"}]
  BY DEF TypeOK, RenderType
<1> USE <1>0 DEF DrawingInv, guiVars, handVars, renderVars, winVars, proxyVars, memVars
<1>1. CASE \E new \in (States \ mapped) \cup {NULL} : rendererSetSharedState(new)
  BY <1>1 DEF rendererSetSharedState, SignalStateCond
<1>2. CASE \E new \in Windows \cup {NULL} : rendererSetWindow(new)
  BY <1>2 DEF rendererSetWindow, SignalStateCond
<1>3. CASE \E b \in Buffers : rendererAddBuffer(b)
  BY <1>3 DEF rendererAddBuffer, SignalStateCond
<1>4. CASE \E id \in Ids : rendererRemoveBuffer(id)
  BY <1>4 DEF rendererRemoveBuffer, WithId, On
<1>5. CASE rendererRemoveAllBuffers
  BY <1>5 DEF rendererRemoveAllBuffers
<1>6. CASE GuiCheckFinished \/ GuiRelock
  BY <1>6 DEF GuiCheckFinished, GuiRelock
<1>7. CASE rendererShouldWait
  BY <1>7 DEF rendererShouldWait
<1>8. CASE RenderSleep \/ RenderRelock
  BY <1>8 DEF RenderSleep, RenderRelock
<1>9. CASE ApplyState \/ ListenOtherCondVar \/ ListenWoken \/ UnmapOldState
  BY <1>9 DEF ApplyState, ListenOtherCondVar, ListenWoken, UnmapOldState
<1>10. CASE ApplyWindow
  BY <1>10 DEF ApplyWindow
<1>11. CASE AttachAndFinish
  BY <1>11 DEF AttachAndFinish
<1>12. CASE BeginFrame
  BY <1>12 DEF BeginFrame, FindBuffer, WithId, On
<1>13. CASE DrawFrame
  BY <1>13 DEF DrawFrame
<1>14. CASE SwapBuffers
  BY <1>14 DEF SwapBuffers
<1>15. CASE SweepRemoved
  BY <1>15 DEF SweepRemoved
<1>16. CASE ProxyStep
  BY <1>16 DEF ProxyStep, ProxyRelock, ProxyForward, ProxyWait, SignalStateCond
<1>17. CASE \E s \in States : lorieMoveCursor(s) \/ Vsync(s)
  BY <1>17 DEF lorieMoveCursor, Vsync, lorieRedraw
<1>18. CASE SpuriousWakeup
  BY <1>18 DEF SpuriousWakeup
<1>19. CASE UNCHANGED vars
  BY <1>19 DEF vars
<1> QED
  BY <1>1, <1>2, <1>3, <1>4, <1>5, <1>6, <1>7, <1>8, <1>9, <1>10, <1>11,
     <1>12, <1>13, <1>14, <1>15, <1>16, <1>17, <1>18, <1>19
  DEF Next, GuiRequest, GuiStep, RenderStep, ProxyStep

\* The buffer being drawn is never freed under rendererRedrawLocked, for any
\* number of buffers, windows and states, and whether or not EGL fails, waits
\* wake up spuriously or the threads have just been started.
THEOREM DrawnBufferSafe == Spec => []DrawnBufferAlive
<1>1. Init => DrawingInv
  BY DEF Init, DrawingInv
<1>2. DrawingInv => DrawnBufferAlive
  BY DEF DrawingInv, DrawnBufferAlive
<1> QED BY <1>1, <1>2, TypeCorrect, DrawingStep, PTL DEF Spec
-----------------------------------------------------------------------------
\* The inductive invariant of the handovers, in four parts.  They hold when the
\* threads are parked in their waits at first (~FromStart).

\* Who holds stateLock: the renderer thread between its wait and the release
\* after a handover, the GUI thread while it tests the flags.
Locked == {"check", "sleep", "apply", "listen", "listening", "listenWoken", "unmap",
           "window", "attach"}

LockInv ==
  /\ renderPc \in Locked => stateLock = "render"
  /\ guiPc = "holding" => stateLock = "gui"

\* A flag is set only while the GUI thread waits for it, and nothing is pending
\* without its flag.  An old state exists only while the GUI thread waits for
\* the handover that replaced it.
Switching == {"listen", "listening", "listenWoken", "unmap"}

HandoverInv ==
  /\ stateChanged => /\ guiOp = "state" /\ guiPc \in {"holding", "waiting", "woken"}
                     /\ pendingState = guiState
  /\ ~stateChanged => pendingState = NULL /\ state = guiState
  /\ windowChanged => guiOp = "window" /\ guiPc \in {"holding", "waiting", "woken"}
  /\ ~windowChanged => pendingWin = NULL
  /\ oldState # NULL => renderPc \in Switching /\ oldState # state
  /\ renderPc \in Switching => ~stateChanged /\ guiPc \in {"waiting", "woken"}

\* Exactly the states in use, about to be unmapped and pending are mapped.
MappedInv == mapped = {state, oldState, pendingState} \ {NULL}

\* The proxy thread listens to the state in use, except while it is being
\* switched over to it.
Cond(s) == IF s = NULL THEN Def ELSE s

ProxyInv ==
  /\ renderPc \notin {"listen", "listening", "listenWoken"} => proxyCurrent = Cond(state)
  /\ renderPc \in {"listen", "listening", "listenWoken"} =>
       proxyCurrent \in {Def, Cond(oldState), Cond(state)}
  /\ renderPc \notin {"listening", "listenWoken"} => proxyPending = NULL
  /\ renderPc \in {"listening", "listenWoken"} =>
       IF relocked THEN proxyPending = NULL /\ proxyCurrent = Cond(state)
                   ELSE proxyPending = Cond(state)

HandoversInv == LockInv /\ HandoverInv /\ MappedInv /\ ProxyInv
\* Every step respects the ownership of stateLock.
LEMMA LockStep == TypeOK /\ HandoversInv /\ [Next]_vars => LockInv'
<1> SUFFICES ASSUME TypeOK, HandoversInv, [Next]_vars PROVE LockInv'
  OBVIOUS
<1>0. LockInv /\ GuiType
  BY DEF HandoversInv, TypeOK
<1> USE <1>0 DEF LockInv, Locked, GuiType, guiVars, handVars,
            renderVars, winVars, proxyVars, memVars
<1>1. CASE \E new \in (States \ mapped) \cup {NULL} : rendererSetSharedState(new)
  BY <1>1 DEF rendererSetSharedState, SignalStateCond
<1>2. CASE \E new \in Windows \cup {NULL} : rendererSetWindow(new)
  BY <1>2 DEF rendererSetWindow, SignalStateCond
<1>3. CASE \E b \in Buffers : rendererAddBuffer(b)
  BY <1>3 DEF rendererAddBuffer, SignalStateCond
<1>4. CASE \E id \in Ids : rendererRemoveBuffer(id)
  BY <1>4 DEF rendererRemoveBuffer
<1>5. CASE rendererRemoveAllBuffers
  BY <1>5 DEF rendererRemoveAllBuffers
<1>6. CASE GuiCheckFinished
  BY <1>6 DEF GuiCheckFinished, HandoverPending
<1>7. CASE GuiRelock
  BY <1>7 DEF GuiRelock
<1>8. CASE rendererShouldWait
  BY <1>8 DEF rendererShouldWait
<1>9. CASE RenderSleep
  BY <1>9 DEF RenderSleep
<1>10. CASE RenderRelock
  BY <1>10 DEF RenderRelock
<1>11. CASE ApplyState
  BY <1>11 DEF ApplyState
<1>12. CASE ListenOtherCondVar
  BY <1>12 DEF ListenOtherCondVar
<1>13. CASE ListenWoken
  BY <1>13 DEF ListenWoken
<1>14. CASE UnmapOldState
  BY <1>14 DEF UnmapOldState
<1>15. CASE ApplyWindow
  BY <1>15 DEF ApplyWindow, rendererRefreshContext, WindowTaken
<1>16. CASE AttachAndFinish
  BY <1>16 DEF AttachAndFinish
<1>17. CASE BeginFrame \/ DrawFrame \/ SwapBuffers \/ SweepRemoved
  BY <1>17 DEF BeginFrame, DrawFrame, SwapBuffers, SweepRemoved
<1>18. CASE ProxyRelock
  BY <1>18 DEF ProxyRelock
<1>19. CASE ProxyForward
  BY <1>19 DEF ProxyForward, SignalStateCond
<1>20. CASE ProxyWait
  BY <1>20 DEF ProxyWait
<1>21. CASE \E s \in States : lorieMoveCursor(s) \/ Vsync(s)
  BY <1>21 DEF lorieMoveCursor, Vsync, lorieRedraw
<1>22. CASE SpuriousWakeup
  BY <1>22 DEF SpuriousWakeup
<1>23. CASE UNCHANGED vars
  BY <1>23 DEF vars
<1> QED
  BY <1>1, <1>2, <1>3, <1>4, <1>5, <1>6, <1>7, <1>8, <1>9, <1>10, <1>11, <1>12,
     <1>13, <1>14, <1>15, <1>16, <1>17, <1>18, <1>19, <1>20, <1>21, <1>22, <1>23
  DEF Next, GuiRequest, GuiStep, RenderStep, ProxyStep

\* Every step keeps the flags and the pending values in line with the GUI thread.
LEMMA HandoverStep == TypeOK /\ HandoversInv /\ [Next]_vars => HandoverInv'
<1> SUFFICES ASSUME TypeOK, HandoversInv, [Next]_vars PROVE HandoverInv'
  OBVIOUS
<1>0. LockInv /\ HandoverInv /\ GuiType
  BY DEF HandoversInv, TypeOK
<1> USE <1>0 DEF LockInv, HandoverInv, Locked, Switching, GuiType, guiVars, handVars,
            renderVars, winVars, proxyVars, memVars
<1>1. CASE \E new \in (States \ mapped) \cup {NULL} : rendererSetSharedState(new)
  BY <1>1 DEF rendererSetSharedState, SignalStateCond
<1>2. CASE \E new \in Windows \cup {NULL} : rendererSetWindow(new)
  BY <1>2 DEF rendererSetWindow, SignalStateCond
<1>3. CASE \E b \in Buffers : rendererAddBuffer(b)
  BY <1>3 DEF rendererAddBuffer, SignalStateCond
<1>4. CASE \E id \in Ids : rendererRemoveBuffer(id)
  BY <1>4 DEF rendererRemoveBuffer
<1>5. CASE rendererRemoveAllBuffers
  BY <1>5 DEF rendererRemoveAllBuffers
<1>6. CASE GuiCheckFinished
  BY <1>6 DEF GuiCheckFinished, HandoverPending
<1>7. CASE GuiRelock
  BY <1>7 DEF GuiRelock
<1>8. CASE rendererShouldWait
  BY <1>8 DEF rendererShouldWait
<1>9. CASE RenderSleep
  BY <1>9 DEF RenderSleep
<1>10. CASE RenderRelock
  BY <1>10 DEF RenderRelock
<1>11. CASE ApplyState
  BY <1>11 DEF ApplyState
<1>12. CASE ListenOtherCondVar
  BY <1>12 DEF ListenOtherCondVar
<1>13. CASE ListenWoken
  BY <1>13 DEF ListenWoken
<1>14. CASE UnmapOldState
  BY <1>14 DEF UnmapOldState
<1>15. CASE ApplyWindow
  <2>1. \/ windowChanged' = FALSE /\ pendingWin' = NULL
        \/ UNCHANGED <<windowChanged, pendingWin>>
    BY <1>15 DEF ApplyWindow, rendererRefreshContext, WindowTaken
  <2>2. /\ renderPc = "window" /\ renderPc' = "attach"
        /\ UNCHANGED <<stateLock, guiVars, stateChanged, pendingState, renderVars>>
    BY <1>15 DEF ApplyWindow
  <2> QED BY <2>1, <2>2
<1>16. CASE AttachAndFinish
  BY <1>16 DEF AttachAndFinish
<1>17. CASE BeginFrame \/ DrawFrame \/ SwapBuffers \/ SweepRemoved
  BY <1>17 DEF BeginFrame, DrawFrame, SwapBuffers, SweepRemoved
<1>18. CASE ProxyRelock
  BY <1>18 DEF ProxyRelock
<1>19. CASE ProxyForward
  BY <1>19 DEF ProxyForward, SignalStateCond
<1>20. CASE ProxyWait
  BY <1>20 DEF ProxyWait
<1>21. CASE \E s \in States : lorieMoveCursor(s) \/ Vsync(s)
  BY <1>21 DEF lorieMoveCursor, Vsync, lorieRedraw
<1>22. CASE SpuriousWakeup
  BY <1>22 DEF SpuriousWakeup
<1>23. CASE UNCHANGED vars
  BY <1>23 DEF vars
<1> QED
  BY <1>1, <1>2, <1>3, <1>4, <1>5, <1>6, <1>7, <1>8, <1>9, <1>10, <1>11, <1>12,
     <1>13, <1>14, <1>15, <1>16, <1>17, <1>18, <1>19, <1>20, <1>21, <1>22, <1>23
  DEF Next, GuiRequest, GuiStep, RenderStep, ProxyStep

\* No step leaks a mapping or unmaps one in use.
LEMMA MappedStep == TypeOK /\ HandoversInv /\ [Next]_vars => MappedInv'
<1> SUFFICES ASSUME TypeOK, HandoversInv, [Next]_vars PROVE MappedInv'
  OBVIOUS
<1>0. LockInv /\ HandoverInv /\ MappedInv
  BY DEF HandoversInv, TypeOK
<1> USE <1>0 DEF MappedInv, LockInv, HandoverInv, Locked, Switching, guiVars, handVars,
            renderVars, winVars, proxyVars, memVars
<1>1. CASE \E new \in (States \ mapped) \cup {NULL} : rendererSetSharedState(new)
  BY <1>1 DEF rendererSetSharedState, SignalStateCond
<1>2. CASE \E new \in Windows \cup {NULL} : rendererSetWindow(new)
  BY <1>2 DEF rendererSetWindow, SignalStateCond
<1>3. CASE \E b \in Buffers : rendererAddBuffer(b)
  BY <1>3 DEF rendererAddBuffer, SignalStateCond
<1>4. CASE \E id \in Ids : rendererRemoveBuffer(id)
  BY <1>4 DEF rendererRemoveBuffer
<1>5. CASE rendererRemoveAllBuffers
  BY <1>5 DEF rendererRemoveAllBuffers
<1>6. CASE GuiCheckFinished
  BY <1>6 DEF GuiCheckFinished, HandoverPending
<1>7. CASE GuiRelock
  BY <1>7 DEF GuiRelock
<1>8. CASE rendererShouldWait
  BY <1>8 DEF rendererShouldWait
<1>9. CASE RenderSleep
  BY <1>9 DEF RenderSleep
<1>10. CASE RenderRelock
  BY <1>10 DEF RenderRelock
<1>11. CASE ApplyState
  BY <1>11 DEF ApplyState
<1>12. CASE ListenOtherCondVar
  BY <1>12 DEF ListenOtherCondVar
<1>13. CASE ListenWoken
  BY <1>13 DEF ListenWoken
<1>14. CASE UnmapOldState
  BY <1>14 DEF UnmapOldState
<1>15. CASE ApplyWindow
  BY <1>15 DEF ApplyWindow, rendererRefreshContext, WindowTaken
<1>16. CASE AttachAndFinish
  BY <1>16 DEF AttachAndFinish
<1>17. CASE BeginFrame \/ DrawFrame \/ SwapBuffers \/ SweepRemoved
  BY <1>17 DEF BeginFrame, DrawFrame, SwapBuffers, SweepRemoved
<1>18. CASE ProxyRelock
  BY <1>18 DEF ProxyRelock
<1>19. CASE ProxyForward
  BY <1>19 DEF ProxyForward, SignalStateCond
<1>20. CASE ProxyWait
  BY <1>20 DEF ProxyWait
<1>21. CASE \E s \in States : lorieMoveCursor(s) \/ Vsync(s)
  BY <1>21 DEF lorieMoveCursor, Vsync, lorieRedraw
<1>22. CASE SpuriousWakeup
  BY <1>22 DEF SpuriousWakeup
<1>23. CASE UNCHANGED vars
  BY <1>23 DEF vars
<1> QED
  BY <1>1, <1>2, <1>3, <1>4, <1>5, <1>6, <1>7, <1>8, <1>9, <1>10, <1>11, <1>12,
     <1>13, <1>14, <1>15, <1>16, <1>17, <1>18, <1>19, <1>20, <1>21, <1>22, <1>23
  DEF Next, GuiRequest, GuiStep, RenderStep, ProxyStep

\* Every step keeps the proxy thread on the state in use or on its way to it.
LEMMA ProxyInvStep == TypeOK /\ HandoversInv /\ [Next]_vars => ProxyInv'
<1> SUFFICES ASSUME TypeOK, HandoversInv, [Next]_vars PROVE ProxyInv'
  OBVIOUS
<1>0. LockInv /\ HandoverInv /\ ProxyInv
  BY DEF HandoversInv, TypeOK
<1> USE <1>0 DEF ProxyInv, LockInv, HandoverInv, Locked, Switching, Cond, guiVars, handVars,
            renderVars, winVars, proxyVars, memVars
<1>1. CASE \E new \in (States \ mapped) \cup {NULL} : rendererSetSharedState(new)
  BY <1>1 DEF rendererSetSharedState, SignalStateCond
<1>2. CASE \E new \in Windows \cup {NULL} : rendererSetWindow(new)
  BY <1>2 DEF rendererSetWindow, SignalStateCond
<1>3. CASE \E b \in Buffers : rendererAddBuffer(b)
  BY <1>3 DEF rendererAddBuffer, SignalStateCond
<1>4. CASE \E id \in Ids : rendererRemoveBuffer(id)
  BY <1>4 DEF rendererRemoveBuffer
<1>5. CASE rendererRemoveAllBuffers
  BY <1>5 DEF rendererRemoveAllBuffers
<1>6. CASE GuiCheckFinished
  BY <1>6 DEF GuiCheckFinished, HandoverPending
<1>7. CASE GuiRelock
  BY <1>7 DEF GuiRelock
<1>8. CASE rendererShouldWait
  BY <1>8 DEF rendererShouldWait
<1>9. CASE RenderSleep
  BY <1>9 DEF RenderSleep
<1>10. CASE RenderRelock
  BY <1>10 DEF RenderRelock
<1>11. CASE ApplyState
  BY <1>11 DEF ApplyState
<1>12. CASE ListenOtherCondVar
  BY <1>12 DEF ListenOtherCondVar
<1>13. CASE ListenWoken
  BY <1>13 DEF ListenWoken
<1>14. CASE UnmapOldState
  BY <1>14 DEF UnmapOldState
<1>15. CASE ApplyWindow
  BY <1>15 DEF ApplyWindow, rendererRefreshContext, WindowTaken
<1>16. CASE AttachAndFinish
  BY <1>16 DEF AttachAndFinish
<1>17. CASE BeginFrame \/ DrawFrame \/ SwapBuffers \/ SweepRemoved
  BY <1>17 DEF BeginFrame, DrawFrame, SwapBuffers, SweepRemoved
<1>18. CASE ProxyRelock
  BY <1>18 DEF ProxyRelock
<1>19. CASE ProxyForward
  BY <1>19 DEF ProxyForward, SignalStateCond
<1>20. CASE ProxyWait
  BY <1>20 DEF ProxyWait
<1>21. CASE \E s \in States : lorieMoveCursor(s) \/ Vsync(s)
  BY <1>21 DEF lorieMoveCursor, Vsync, lorieRedraw
<1>22. CASE SpuriousWakeup
  BY <1>22 DEF SpuriousWakeup
<1>23. CASE UNCHANGED vars
  BY <1>23 DEF vars
<1> QED
  BY <1>1, <1>2, <1>3, <1>4, <1>5, <1>6, <1>7, <1>8, <1>9, <1>10, <1>11, <1>12,
     <1>13, <1>14, <1>15, <1>16, <1>17, <1>18, <1>19, <1>20, <1>21, <1>22, <1>23
  DEF Next, GuiRequest, GuiStep, RenderStep, ProxyStep
\* The handover invariant holds from the start, as long as the threads are
\* parked in their waits when the GUI thread first hands something over.
LEMMA HandoversInductive ==
  ASSUME ~FromStart
  PROVE  Spec => [](TypeOK /\ HandoversInv)
<1>1. Init => HandoversInv
  BY DEF Init, HandoversInv, LockInv, Locked, HandoverInv, Switching, MappedInv,
         ProxyInv, Cond
<1>2. TypeOK /\ HandoversInv /\ [Next]_vars => HandoversInv'
  BY LockStep, HandoverStep, MappedStep, ProxyInvStep DEF HandoversInv
<1> QED BY <1>1, <1>2, TypeInit, TypeStep, PTL DEF Spec

\* The proxy thread never waits in the memory of a shared state after munmap,
\* for any number of states, windows and buffers and with spurious wake-ups.
THEOREM ProxySafe ==
  ASSUME ~FromStart
  PROVE  Spec => []ProxyOnMappedState
<1>1. TypeOK /\ HandoversInv => ProxyOnMappedState
  BY DEF TypeOK, RenderType, HandoversInv, MappedInv, ProxyInv, Cond, ProxyOnMappedState
<1> QED BY <1>1, HandoversInductive, PTL

\* No shared state is leaked or used after munmap.
THEOREM MappingsSafe ==
  ASSUME ~FromStart
  PROVE  Spec => []MappingsExact
<1>1. TypeOK /\ HandoversInv => MappingsExact
  BY DEF TypeOK, RenderType, HandoversInv, MappedInv, HandoverInv, Switching, MappingsExact
<1> QED BY <1>1, HandoversInductive, PTL

\* A handover that is over left nothing pending: the early return and the
\* release of the pending window in rendererSetWindow are never reached.
THEOREM NothingLeftPending ==
  ASSUME ~FromStart
  PROVE  Spec => []NothingPendingWhenIdle
<1>1. HandoversInv => NothingPendingWhenIdle
  BY DEF HandoversInv, HandoverInv, NothingPendingWhenIdle
<1> QED BY <1>1, HandoversInductive, PTL
-----------------------------------------------------------------------------
\* The windows: the pending one is the one handed over last, every reference
\* is accounted for, and the surface is that of the window in use, which is the
\* one handed over last except while the next one is pending, or one that EGL
\* did not let go of.
WindowInv ==
  /\ windowChanged => pendingWin = guiWin
  /\ ~windowChanged => \/ sfc \in {guiWin, Default, NoSurface}
                       \/ sfc \in Windows /\ unreleased[sfc] > 0
  /\ RefsBalanced

\* What rendererRefreshContext leaves of the references once releaseWinAndSurface
\* has dropped the one to the window in use, or EGL has kept it from doing so.
Left(fails) == IF Released(fails) THEN ReleaseWindow(win, refs) ELSE refs

LEMMA LeftStep ==
  ASSUME TypeOK, RefsBalanced, NEW fails, rendererRefreshContext(fails)
  PROVE  /\ Left(fails) \in [Windows -> Int]
         /\ \A w \in Windows :
              Left(fails)[w] = handed'[w] + unreleased'[w] + (IF pendingWin = w THEN 1 ELSE 0)
         /\ ~Released(fails) => sfc \in Windows /\ unreleased'[sfc] > 0
<1>1. /\ refs \in [Windows -> Int] /\ pendingWin \in Windows \cup {NULL}
      /\ win \in Windows \cup {Default} /\ Default \notin Windows
      /\ handed \in [Windows -> Nat] /\ unreleased \in [Windows -> Nat]
  BY RendererAssumption DEF TypeOK, GuiType, RenderType
<1>2. /\ handed' = handed
      /\ unreleased' = [w \in Windows |->
           IF w = win /\ ~Released(fails) THEN unreleased[w] + 1 ELSE unreleased[w]]
  BY DEF rendererRefreshContext
<1>3. \A w \in Windows :
        refs[w] = handed[w] + unreleased[w]
                    + (IF win = w THEN 1 ELSE 0) + (IF pendingWin = w THEN 1 ELSE 0)
  BY DEF RefsBalanced
<1>4. CASE Released(fails)
  <2>1. Left(fails) = ReleaseWindow(win, refs) /\ unreleased' = unreleased
    BY <1>1, <1>2, <1>4 DEF Left
  <2>2. Left(fails) \in [Windows -> Int]
    BY <1>1, <2>1 DEF ReleaseWindow
  <2>3. ASSUME NEW w \in Windows
        PROVE  Left(fails)[w] = handed[w] + unreleased[w] + (IF pendingWin = w THEN 1 ELSE 0)
    <3>1. CASE w = win
      BY <1>1, <1>3, <2>1, <3>1 DEF ReleaseWindow
    <3>2. CASE w # win
      BY <1>1, <1>3, <2>1, <3>2 DEF ReleaseWindow
    <3> QED BY <3>1, <3>2
  <2> QED BY <1>2, <1>4, <2>1, <2>2, <2>3
<1>5. CASE ~Released(fails)
  <2>1. Left(fails) = refs
    BY <1>5 DEF Left
  <2>2. sfc \in Windows /\ (sfc = win \/ unreleased[sfc] > 0)
    BY <1>5 DEF Released, RefsBalanced
  <2>3. unreleased'[sfc] > 0
    BY <1>1, <1>2, <1>5, <2>2
  <2>4. ASSUME NEW w \in Windows
        PROVE  refs[w] = handed[w] + unreleased'[w] + (IF pendingWin = w THEN 1 ELSE 0)
    BY <1>1, <1>2, <1>3, <1>5
  <2> QED BY <1>1, <1>2, <2>1, <2>2, <2>3, <2>4
<1> QED BY <1>4, <1>5

\* rendererRefreshContext drops the reference to the old window and to an
\* invalid new one and takes over that of the new one, whatever EGL does.
LEMMA RefreshStep ==
  ASSUME TypeOK, WindowInv, UNCHANGED guiWin, NEW fails, rendererRefreshContext(fails)
  PROVE  WindowInv'
<1>1. /\ Left(fails) \in [Windows -> Int]
      /\ \A w \in Windows :
           Left(fails)[w] = handed'[w] + unreleased'[w] + (IF pendingWin = w THEN 1 ELSE 0)
      /\ ~Released(fails) => sfc \in Windows /\ unreleased'[sfc] > 0
  BY LeftStep DEF WindowInv
<1>2. /\ pendingWin \in Windows \cup {NULL}
      /\ NULL \notin Windows /\ Default \notin Windows /\ NoSurface \notin Windows
      /\ Default # NULL
      /\ \A w \in Windows : handed'[w] + unreleased'[w] \in Int
  <2>1. handed' \in [Windows -> Nat] /\ unreleased' \in [Windows -> Nat]
    BY DEF rendererRefreshContext, TypeOK, RenderType
  <2> QED BY <2>1, RendererAssumption DEF TypeOK, GuiType
<1>3. windowChanged /\ ~windowChanged' /\ pendingWin' = NULL /\ pendingWin = guiWin
  BY DEF rendererRefreshContext, WindowTaken, WindowInv
<1>4. CASE pendingWin = NULL
  <2>1. refs' = Left(fails) /\ win' = Default /\ sfc' = KeptSurface(fails)
    BY <1>4 DEF rendererRefreshContext, NextWindow, Left
  <2>2. sfc' \in {Default, NoSurface} \/ (sfc' \in Windows /\ unreleased'[sfc'] > 0)
    BY <1>1, <2>1 DEF KeptSurface
  <2>3. \A w \in Windows : refs'[w] = handed'[w] + unreleased'[w]
    BY <1>1, <1>2, <1>4, <2>1
  <2>4. RefsBalanced'
    BY <1>2, <1>3, <2>1, <2>2, <2>3 DEF RefsBalanced
  <2> QED BY <1>3, <2>2, <2>4 DEF WindowInv
<1>5. CASE pendingWin # NULL /\ "invalid" \in fails
  <2>1. refs' = ReleaseWindow(pendingWin, Left(fails)) /\ win' = Default /\ sfc' = NoSurface
    BY <1>5 DEF rendererRefreshContext, NextWindow, Left
  <2>2. ASSUME NEW w \in Windows PROVE refs'[w] = handed'[w] + unreleased'[w]
    BY <1>1, <1>2, <1>5, <2>1 DEF ReleaseWindow
  <2>3. RefsBalanced'
    BY <1>2, <1>3, <2>1, <2>2 DEF RefsBalanced
  <2> QED BY <1>3, <2>1, <2>3 DEF WindowInv
<1>6. CASE pendingWin # NULL /\ "invalid" \notin fails
  <2>1. refs' = Left(fails) /\ win' = pendingWin /\ sfc' \in {pendingWin, NoSurface}
    BY <1>6 DEF rendererRefreshContext, NextWindow, Left
  <2>2. RefsBalanced'
    BY <1>1, <1>2, <1>3, <2>1 DEF RefsBalanced
  <2> QED BY <1>3, <2>1, <2>2 DEF WindowInv
<1> QED BY <1>4, <1>5, <1>6

\* Only rendererSetWindow, when nothing is pending, and rendererRefreshContext
\* touch windows.
LEMMA WindowStep == TypeOK /\ HandoversInv /\ WindowInv /\ [Next]_vars => WindowInv'
<1> SUFFICES ASSUME TypeOK, HandoversInv, WindowInv, [Next]_vars PROVE WindowInv'
  OBVIOUS
<1>1. ASSUME UNCHANGED <<windowChanged, pendingWin, guiWin, winVars>> PROVE WindowInv'
  BY <1>1 DEF WindowInv, RefsBalanced, winVars
<1>2. ASSUME NEW new \in Windows \cup {NULL}, rendererSetWindow(new) PROVE WindowInv'
  <2>1. ~windowChanged /\ pendingWin = NULL
    BY <1>2 DEF HandoversInv, HandoverInv, rendererSetWindow
  <2>2. /\ windowChanged' /\ pendingWin' = new /\ guiWin' = new
        /\ UNCHANGED <<win, sfc, unreleased>>
        /\ refs' = Acquired(new)
        /\ handed' = [w \in Windows |-> IF w = new THEN handed[w] + 1 ELSE handed[w]]
    BY <1>2 DEF rendererSetWindow
  <2>3. /\ refs \in [Windows -> Int] /\ NULL \notin Windows
        /\ handed \in [Windows -> Nat] /\ unreleased \in [Windows -> Nat]
    BY RendererAssumption DEF TypeOK, RenderType
  <2>4. RefsBalanced'
    BY <2>1, <2>2, <2>3 DEF WindowInv, RefsBalanced, Acquired
  <2> QED BY <2>2, <2>4 DEF WindowInv
<1>3. CASE ApplyWindow
  <2>1. UNCHANGED guiWin
    BY <1>3 DEF ApplyWindow, guiVars
  <2>2. CASE \E fails \in SUBSET Failures : rendererRefreshContext(fails)
    BY <2>1, <2>2, RefreshStep
  <2>3. CASE UNCHANGED <<windowChanged, pendingWin, winVars>>
    BY <2>1, <2>3, <1>1
  <2> QED BY <1>3, <2>2, <2>3 DEF ApplyWindow
<1>4. CASE GuiRequest
  <2>1. CASE \E new \in (States \ mapped) \cup {NULL} : rendererSetSharedState(new)
    BY <1>1, <2>1 DEF rendererSetSharedState
  <2>2. CASE \E b \in Buffers : rendererAddBuffer(b)
    BY <1>1, <2>2 DEF rendererAddBuffer, handVars, guiVars
  <2>3. CASE \E id \in Ids : rendererRemoveBuffer(id)
    BY <1>1, <2>3 DEF rendererRemoveBuffer, handVars, guiVars
  <2> QED BY <1>2, <1>4, <2>1, <2>2, <2>3 DEF GuiRequest
<1>5. CASE GuiStep
  BY <1>1, <1>5 DEF GuiStep, GuiCheckFinished, GuiRelock, rendererRemoveAllBuffers,
     handVars, guiVars
<1>6. CASE RenderStep
  BY <1>1, <1>3, <1>6 DEF RenderStep, rendererShouldWait, RenderSleep, RenderRelock,
     ApplyState, ListenOtherCondVar, ListenWoken, UnmapOldState, AttachAndFinish,
     BeginFrame, DrawFrame, SwapBuffers, SweepRemoved, handVars, guiVars
<1>7. CASE ProxyStep
  BY <1>1, <1>7 DEF ProxyStep, ProxyRelock, ProxyForward, ProxyWait, handVars, guiVars
<1>8. CASE \E s \in States : lorieMoveCursor(s) \/ Vsync(s)
  BY <1>1, <1>8 DEF lorieMoveCursor, Vsync, lorieRedraw, handVars, guiVars
<1>9. CASE SpuriousWakeup
  BY <1>1, <1>9 DEF SpuriousWakeup, handVars
<1>10. CASE UNCHANGED vars
  BY <1>1, <1>10 DEF vars, handVars, guiVars
<1> QED
  BY <1>4, <1>5, <1>6, <1>7, <1>8, <1>9, <1>10 DEF Next

\* The invariant of the windows holds whatever EGL does.
LEMMA WindowsInductive ==
  ASSUME ~FromStart
  PROVE  Spec => [](HandoversInv /\ WindowInv)
<1>1. Init => WindowInv
  BY RendererAssumption DEF Init, WindowInv, RefsBalanced
<1> QED BY <1>1, WindowStep, HandoversInductive, PTL DEF Spec

\* When rendererSetWindow has returned, as surfaceDestroyed waits for it to do,
\* the renderer has no EGL surface on another window than the one handed over,
\* unless EGL itself refused to let go of it.
THEOREM SurfaceReleased ==
  ASSUME ~FromStart
  PROVE  Spec => []SurfaceGone
<1>1. HandoversInv /\ WindowInv => SurfaceGone
  BY DEF HandoversInv, HandoverInv, WindowInv, SurfaceGone
<1> QED BY <1>1, WindowsInductive, PTL

\* The references to a window are the one in use, the pending one and those the
\* code never drops, one for each handover and one for each refusal of EGL: no
\* other is leaked, and none is dropped that the surface in use relies on.
THEOREM WindowRefsBalance ==
  ASSUME ~FromStart
  PROVE  Spec => []RefsBalanced
<1>1. WindowInv => RefsBalanced
  BY DEF WindowInv
<1> QED BY <1>1, WindowsInductive, PTL
=============================================================================
