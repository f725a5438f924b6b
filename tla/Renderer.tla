------------------------------- MODULE Renderer -------------------------------
(***************************************************************************)
(* The renderer of the activity process (renderer.c).  Three threads share *)
(* its globals:                                                            *)
(*   - the main (GUI) thread hands over the shared state of an X server,   *)
(*     Android windows and buffers, and waits for the first two to be      *)
(*     applied;                                                            *)
(*   - the renderer thread applies them, draws the root window buffer and  *)
(*     releases what was replaced;                                         *)
(*   - the proxy thread waits on the condition variable inside the shared  *)
(*     state of the X server and forwards its signals to stateCond.        *)
(* The X server signals that condition variable when the cursor moves and  *)
(* at every vertical sync while a frame is wanted.                         *)
(*                                                                         *)
(* `request` stands for drawRequested || cursor.moved || cursor.updated;   *)
(* the module FrameFlow is about these flags.  The lock in the shared      *)
(* state is the subject of SharedLock.  bufferLock is a spin lock around   *)
(* straight-line code: each such region is one atomic step.                *)
(***************************************************************************)
EXTENDS Integers, FiniteSets

CONSTANTS
  States,     \* mappings of shared server states
  Windows,    \* ANativeWindow objects handed over by the GUI
  Ids,        \* ids of root window buffers
  Copies,     \* bound: LorieBuffer objects of one id alive at the same time
  MaxRefs,    \* bound: references to one window; every handover leaks one
  NULL,
  Def,        \* proxy.def, the private condition variable of the proxy
  Default,    \* defaultWin and defaultSfc
  NoSurface,  \* EGL_NO_SURFACE
  EglFails,   \* may EGL calls on a valid window fail?
  Spurious,   \* may pthread_cond_wait return without a signal?
  NewServers, \* may a state name a root buffer that is never sent, as it does
              \* until the first lorieRedraw of its server with a connection?
  FromStart   \* do the threads start in their first instruction?

ASSUME RendererAssumption ==
  /\ NULL \notin States \cup Windows \cup Ids
  /\ Def \notin States /\ Def # NULL
  /\ Default \notin Windows /\ Default # NULL
  /\ NoSurface \notin Windows /\ NoSurface # Default
  /\ MaxRefs \in Nat
  /\ EglFails \in BOOLEAN /\ Spurious \in BOOLEAN
  /\ NewServers \in BOOLEAN /\ FromStart \in BOOLEAN

VARIABLES
  stateLock,          \* who holds stateLock
  guiPc, guiOp,       \* the GUI thread: where it is, in which handover
  guiState, guiWin,   \* the state and the window it handed over last
  stateChanged, windowChanged, pendingState, pendingWin,
  renderPc,           \* where the renderer thread is
  state, oldState,    \* the state in use, the one about to be unmapped
  win, sfc,           \* the window and the EGL surface in use
  refs,               \* references to each window taken and not yet dropped
  handed,             \* history: how often surfaceChanged handed each window over
  unreleased,         \* history: how often EGL kept it from being released
  waitingForBuffers, lastRequestedBufferId,
  drawing,            \* the buffer rendererRedrawLocked is working on
  list,               \* the list each buffer object is on, "free" if none
  proxyPc, proxyLock, \* the proxy thread, the owner of proxy.lock
  proxyCurrent, proxyPending, relocked,
  mapped,             \* the mapped shared states
  shm                 \* the contents of the mapped shared states

guiVars    == <<guiPc, guiOp, guiState, guiWin>>
handVars   == <<stateChanged, windowChanged, pendingState, pendingWin>>
renderVars == <<state, oldState, waitingForBuffers, lastRequestedBufferId, drawing>>
winVars    == <<win, sfc, refs, handed, unreleased>>
proxyVars  == <<proxyPc, proxyLock, proxyCurrent, proxyPending, relocked>>
memVars    == <<mapped, shm>>
vars == <<stateLock, guiVars, handVars, renderPc, renderVars, winVars, list,
          proxyVars, memVars>>

\* What the model keeps of struct lorie_shared_server_state.  A state that is
\* not mapped is as good as Blank.
SharedState == [request : BOOLEAN, surfaceAvailable : BOOLEAN,
                waitForNextFrame : BOOLEAN, root : Ids \cup {NULL}]

Blank == [request |-> FALSE, surfaceAvailable |-> FALSE,
          waitForNextFrame |-> FALSE, root |-> NULL]

Buffers == Ids \X Copies
On(l) == {b \in Buffers : list[b] = l}
WithId(l, id) == {b \in On(l) : b[1] = id}

-----------------------------------------------------------------------------
\* pthread_cond_signal(&stateCond): only the renderer thread ever waits on it,
\* in its main loop or in pthreadCondVarProxyListenOtherCondVar.
SignalStateCond ==
  renderPc' = CASE renderPc = "waiting" -> "woken"
                [] renderPc = "listening" -> "listenWoken"
                [] OTHER -> renderPc

\* pthread_cond_signal or pthread_cond_broadcast on the variable the proxy
\* thread is to wait on: a signal it does not wait for is lost.
WakeProxy(cond) ==
  proxyPc' = IF proxyPc = "waiting" /\ proxyCurrent = cond THEN "woken" ELSE proxyPc

-----------------------------------------------------------------------------
(***************************************************************************)
(* The GUI thread.                                                         *)
(***************************************************************************)
\* EVENT_SHARED_SERVER_STATE brings the state of a new connection: earlier
\* activities may have left anything in it, except that lorieActivityConnected
\* has just asked for a frame.  A hang-up and connect_ bring NULL.
rendererSetSharedState(new) ==
  /\ guiPc = "idle" /\ stateLock = "free"
  /\ new # NULL => guiState = NULL
  /\ stateLock' = "gui"
  /\ pendingState' = new
  /\ stateChanged' = TRUE
  /\ SignalStateCond
  /\ guiPc' = "holding" /\ guiOp' = "state"
  /\ guiState' = new
  /\ mapped' = mapped \cup ({new} \ {NULL})
  /\ IF new = NULL THEN UNCHANGED shm
     ELSE \E content \in SharedState :
            /\ content.request
            /\ NewServers \/ content.root # NULL
            /\ shm' = [shm EXCEPT ![new] = content]
  /\ UNCHANGED <<guiWin, windowChanged, pendingWin, renderVars, winVars, list,
                 proxyVars>>

\* surfaceChanged takes two references to the window, ANativeWindow_fromSurface
\* and ANativeWindow_acquire one each ...
Acquired(new) == [w \in Windows |-> IF w = new THEN refs[w] + 2 ELSE refs[w]]

\* ... and hands it over; nobody else calls rendererSetWindow.  The early return
\* for a window that is already pending is never taken: see
\* NothingPendingWhenIdle.
rendererSetWindow(new) ==
  /\ guiPc = "idle" /\ stateLock = "free"
  /\ new \in Windows => refs[new] + 2 <= MaxRefs
  /\ stateLock' = "gui"
  /\ pendingWin' = new
  /\ windowChanged' = TRUE
  /\ refs' = Acquired(new)
  /\ handed' = [w \in Windows |-> IF w = new THEN handed[w] + 1 ELSE handed[w]]
  /\ SignalStateCond
  /\ guiPc' = "holding" /\ guiOp' = "window"
  /\ guiWin' = new
  /\ UNCHANGED <<guiState, stateChanged, pendingState, renderVars, win, sfc,
                 unreleased, list, proxyVars, memVars>>

\* A bug: the loop tests the other flag.
HandoverPendingMutant == IF guiOp = "state" THEN windowChanged ELSE stateChanged

\* The loops around pthread_cond_wait(&stateChangeFinishCond, &stateLock).
HandoverPending == IF guiOp = "state" THEN stateChanged ELSE windowChanged

GuiCheckFinished ==
  /\ guiPc = "holding"
  /\ guiPc' = CASE HandoverPending -> "waiting"
                [] ~HandoverPending /\ guiOp = "state" /\ guiState = NULL -> "disconnecting"
                [] OTHER -> "idle"
  /\ stateLock' = "free"
  /\ UNCHANGED <<guiOp, guiState, guiWin, handVars, renderPc, renderVars, winVars,
                 list, proxyVars, memVars>>

GuiRelock ==
  /\ guiPc = "woken" /\ stateLock = "free"
  /\ guiPc' = "holding" /\ stateLock' = "gui"
  /\ UNCHANGED <<guiOp, guiState, guiWin, handVars, renderPc, renderVars, winVars,
                 list, proxyVars, memVars>>

\* EVENT_ADD_BUFFER: the X server sends its state before any buffer.
rendererAddBuffer(b) ==
  /\ guiPc = "idle"
  /\ guiState # NULL
  /\ list[b] = "free"
  /\ list' = [list EXCEPT ![b] = "added"]
  /\ SignalStateCond
  /\ UNCHANGED <<stateLock, guiVars, handVars, renderVars, winVars, proxyVars, memVars>>

\* A bug: an attached buffer is released by the GUI thread.
rendererRemoveBufferMutant(id) ==
  /\ guiPc = "idle"
  /\ \E b \in WithId("added", id) \cup WithId("buffers", id) :
       list' = [list EXCEPT ![b] = "free"]
  /\ UNCHANGED <<stateLock, guiVars, handVars, renderPc, renderVars, winVars,
                 proxyVars, memVars>>

\* A buffer that is not attached to GL yet is released at once, an attached
\* one is left to the renderer thread.
rendererRemoveBuffer(id) ==
  /\ guiPc = "idle"
  /\ \/ \E b \in WithId("added", id) : list' = [list EXCEPT ![b] = "free"]
     \/ /\ WithId("added", id) = {}
        /\ \E b \in WithId("buffers", id) : list' = [list EXCEPT ![b] = "removed"]
  /\ UNCHANGED <<stateLock, guiVars, handVars, renderPc, renderVars, winVars,
                 proxyVars, memVars>>

\* Both callers do this right after rendererSetSharedState(NULL).
rendererRemoveAllBuffers ==
  /\ guiPc = "disconnecting"
  /\ guiPc' = "idle"
  /\ list' = [b \in Buffers |-> CASE list[b] = "added" -> "free"
                                  [] list[b] = "buffers" -> "removed"
                                  [] OTHER -> list[b]]
  /\ UNCHANGED <<stateLock, guiOp, guiState, guiWin, handVars, renderPc, renderVars, winVars,
                 proxyVars, memVars>>

-----------------------------------------------------------------------------
(***************************************************************************)
(* The renderer thread: rendererThread and what it calls.                  *)
(***************************************************************************)
Pending == stateChanged \/ windowChanged \/ On("added") \cup On("removed") # {}

\* The frame conditions of rendererThread, evaluated on the shared state.
FrameWanted ==
  /\ state # NULL
  /\ shm[state].surfaceAvailable
  /\ ~shm[state].waitForNextFrame
  /\ shm[state].request

\* rendererShouldWait, the condition of the loop around pthread_cond_wait.
rendererShouldWait ==
  /\ renderPc = "check"
  /\ IF Pending
     THEN renderPc' = "apply" /\ UNCHANGED <<waitingForBuffers, lastRequestedBufferId>>
     ELSE /\ waitingForBuffers' = (waitingForBuffers /\
                (state = NULL \/ lastRequestedBufferId = shm[state].root))
          /\ lastRequestedBufferId' =
                IF state = NULL THEN lastRequestedBufferId ELSE shm[state].root
          /\ renderPc' = IF FrameWanted /\ ~waitingForBuffers' THEN "apply" ELSE "sleep"
  /\ UNCHANGED <<stateLock, guiVars, handVars, state, oldState, drawing, winVars, list,
                 proxyVars, memVars>>

\* pthread_cond_wait(&stateCond, &stateLock) releases stateLock without asking
\* who holds it: at thread start it is not this thread.
RenderSleep ==
  /\ renderPc = "sleep"
  /\ renderPc' = "waiting"
  /\ stateLock' = "free"
  /\ UNCHANGED <<guiVars, handVars, renderVars, winVars, list, proxyVars, memVars>>

RenderRelock ==
  /\ renderPc \in {"woken", "loop"} /\ stateLock = "free"
  /\ renderPc' = "check" /\ stateLock' = "render"
  /\ UNCHANGED <<guiVars, handVars, renderVars, winVars, list, proxyVars, memVars>>

ApplyState ==
  /\ renderPc = "apply"
  /\ IF stateChanged
     THEN /\ oldState' = IF pendingState # state THEN state ELSE NULL
          /\ state' = pendingState
          /\ pendingState' = NULL
          /\ stateChanged' = FALSE
          /\ waitingForBuffers' = FALSE
          /\ shm' = IF pendingState = NULL THEN shm
                    ELSE [shm EXCEPT ![pendingState].surfaceAvailable = (win # Default)]
          /\ renderPc' = "listen"
     ELSE /\ renderPc' = "window"
          /\ UNCHANGED <<oldState, state, pendingState, stateChanged,
                         waitingForBuffers, shm>>
  /\ UNCHANGED <<stateLock, guiVars, windowChanged, pendingWin, lastRequestedBufferId,
                 drawing, winVars, list, proxyVars, mapped>>

\* pthreadCondVarProxyListenOtherCondVar, up to its pthread_cond_wait.
ListenOtherCondVar ==
  /\ renderPc = "listen" /\ proxyLock = "free"
  /\ WakeProxy(proxyCurrent)
  /\ proxyPending' = IF state = NULL THEN Def ELSE state
  /\ relocked' = FALSE
  /\ renderPc' = "listening"
  /\ UNCHANGED <<stateLock, guiVars, handVars, renderVars, winVars, list,
                 proxyLock, proxyCurrent, memVars>>

\* A bug: one wait instead of the loop on proxy.relocked.
ListenWokenMutant ==
  /\ renderPc = "listenWoken" /\ proxyLock = "free"
  /\ renderPc' = "unmap"
  /\ UNCHANGED <<stateLock, guiVars, handVars, renderVars, winVars, list,
                 proxyVars, memVars>>

\* ... and its loop on proxy.relocked.
ListenWoken ==
  /\ renderPc = "listenWoken" /\ proxyLock = "free"
  /\ renderPc' = IF relocked THEN "unmap" ELSE "listening"
  /\ UNCHANGED <<stateLock, guiVars, handVars, renderVars, winVars, list,
                 proxyVars, memVars>>

UnmapOldState ==
  /\ renderPc = "unmap"
  /\ mapped' = mapped \ {oldState}
  /\ shm' = IF oldState = NULL THEN shm ELSE [shm EXCEPT ![oldState] = Blank]
  /\ oldState' = NULL
  /\ renderPc' = "window"
  /\ UNCHANGED <<stateLock, guiVars, handVars, state, waitingForBuffers,
                 lastRequestedBufferId, drawing, winVars, list, proxyVars>>

\* What may go wrong during rendererRefreshContext, any of it together: the
\* pending window is invalid, or EGL refuses to let go of the surface in use, to
\* create the new one or to make it current.  EGL always refuses a second
\* surface on defaultWin, which is what an invalid window leads to.
Failures == {"invalid"} \cup (IF EglFails THEN {"norelease", "nosurface", "nocurrent"} ELSE {})

SetSurfaceAvailable(b, r) ==
  shm' = IF state = NULL THEN shm
         ELSE [shm EXCEPT ![state].surfaceAvailable = b,
                          ![state].request = @ \/ r]

\* A bug: the reference taken by the GUI thread is never dropped.
ReleaseWindowMutant(w, r) == r

ReleaseWindow(w, r) == IF w \in Windows THEN [r EXCEPT ![w] = @ - 1] ELSE r

\* releaseWinAndSurface(&win, &sfc): gives up when EGL does, before the window
\* reference is dropped.
Released(fails) == ~("norelease" \in fails /\ sfc \in Windows)

\* The surface left by releaseWinAndSurface; a bug: it is not destroyed.
KeptSurfaceMutant(fails) == sfc

KeptSurface(fails) ==
  IF Released(fails) /\ sfc # NoSurface THEN Default ELSE sfc

\* The window in use afterwards; a bug: NULL is not replaced by defaultWin.
NextWindowMutant(bad) == IF bad THEN Default ELSE pendingWin

NextWindow(bad) == IF bad \/ pendingWin = NULL THEN Default ELSE pendingWin

\* The end of the handover; a bug: windowChanged is not reset.
WindowTakenMutant == pendingWin' = NULL /\ UNCHANGED windowChanged

WindowTaken == pendingWin' = NULL /\ windowChanged' = FALSE

rendererRefreshContext(fails) ==
  /\ windowChanged
  /\ LET left == IF Released(fails) THEN ReleaseWindow(win, refs) ELSE refs
         bad  == "invalid" \in fails /\ pendingWin # NULL
         lost == bad \/ ("nosurface" \in fails /\ pendingWin # NULL)
     IN  /\ refs' = IF bad THEN ReleaseWindow(pendingWin, left) ELSE left
         /\ unreleased' = [w \in Windows |->
               IF w = win /\ ~Released(fails) THEN unreleased[w] + 1 ELSE unreleased[w]]
         /\ win' = NextWindow(bad)
         /\ sfc' = CASE pendingWin = NULL -> KeptSurface(fails)
                     [] lost -> NoSurface
                     [] OTHER -> pendingWin
         /\ IF lost THEN UNCHANGED shm
            ELSE LET shown == pendingWin # NULL /\ "nocurrent" \notin fails
                 IN  SetSurfaceAvailable(shown, shown)
  /\ WindowTaken
  /\ UNCHANGED handed

ApplyWindow ==
  /\ renderPc = "window"
  /\ renderPc' = "attach"
  /\ \/ \E fails \in SUBSET Failures : rendererRefreshContext(fails)
     \/ ~windowChanged /\ UNCHANGED <<windowChanged, pendingWin, winVars, shm>>
  /\ UNCHANGED <<stateLock, guiVars, stateChanged, pendingState, renderVars, list,
                 proxyVars, mapped>>

\* A bug: the renderer goes on waiting for a buffer that has arrived.
StillWaitingMutant == waitingForBuffers

StillWaiting == waitingForBuffers /\ On("added") = {}

\* Attach pending buffers, tell the GUI thread, release stateLock.
AttachAndFinish ==
  /\ renderPc = "attach"
  /\ list' = [b \in Buffers |-> IF list[b] = "added" THEN "buffers" ELSE list[b]]
  /\ waitingForBuffers' = StillWaiting
  /\ guiPc' = IF guiPc = "waiting" THEN "woken" ELSE guiPc
  /\ stateLock' = "free"
  /\ renderPc' = "frame"
  /\ UNCHANGED <<guiOp, guiState, guiWin, handVars, state, oldState,
                 lastRequestedBufferId, drawing, winVars, proxyVars, memVars>>

\* rendererRedrawLocked looks the buffer up, also among those just removed.
FindBuffer ==
  LET root == shm[state].root IN
  IF WithId("buffers", root) # {} THEN WithId("buffers", root) ELSE WithId("removed", root)

BeginFrame ==
  /\ renderPc = "frame"
  /\ \/ /\ FrameWanted
        /\ \E b \in FindBuffer : drawing' = b
        /\ renderPc' = "draw"
        /\ UNCHANGED waitingForBuffers
     \/ /\ FrameWanted
        /\ FindBuffer = {}
        /\ waitingForBuffers' = TRUE
        /\ renderPc' = "sweep"
        /\ UNCHANGED drawing
     \/ /\ ~FrameWanted
        /\ renderPc' = "sweep"
        /\ UNCHANGED <<drawing, waitingForBuffers>>
  /\ UNCHANGED <<stateLock, guiVars, handVars, state, oldState, lastRequestedBufferId,
                 winVars, list, proxyVars, memVars>>

\* The drawing between lorie_mutex_lock and lorie_mutex_unlock.
DrawFrame ==
  /\ renderPc = "draw"
  /\ shm' = [shm EXCEPT ![state].request = FALSE, ![state].waitForNextFrame = TRUE]
  /\ renderPc' = "swap"
  /\ UNCHANGED <<stateLock, guiVars, handVars, renderVars, winVars, list,
                 proxyVars, mapped>>

SwapBuffers ==
  /\ renderPc = "swap"
  /\ drawing' = NULL
  /\ renderPc' = "sweep"
  /\ UNCHANGED <<stateLock, guiVars, handVars, state, oldState, waitingForBuffers,
                 lastRequestedBufferId, winVars, list, proxyVars, memVars>>

\* Release the removed buffers, which may be attached to GL, from this thread.
SweepRemoved ==
  /\ renderPc = "sweep"
  /\ list' = [b \in Buffers |-> IF list[b] = "removed" THEN "free" ELSE list[b]]
  /\ renderPc' = "loop"
  /\ UNCHANGED <<stateLock, guiVars, handVars, renderVars, winVars, proxyVars, memVars>>

-----------------------------------------------------------------------------
(***************************************************************************)
(* The proxy thread.                                                       *)
(***************************************************************************)
ProxyRelock ==
  /\ proxyPc \in {"start", "woken"} /\ proxyLock = "free"
  /\ proxyLock' = "proxy"
  /\ proxyPc' = IF proxyPc = "start" THEN "rewait" ELSE "forward"
  /\ UNCHANGED <<stateLock, guiVars, handVars, renderPc, renderVars, winVars, list,
                 proxyCurrent, proxyPending, relocked, memVars>>

\* After pthread_cond_wait: switch if asked to, and forward the signal.
ProxyForward ==
  /\ proxyPc = "forward"
  /\ proxyCurrent' = IF proxyPending # NULL THEN proxyPending ELSE proxyCurrent
  /\ proxyPending' = NULL
  /\ relocked' = TRUE
  /\ SignalStateCond
  /\ proxyPc' = "rewait"
  /\ UNCHANGED <<stateLock, guiVars, handVars, renderVars, winVars, list,
                 proxyLock, memVars>>

ProxyWait ==
  /\ proxyPc = "rewait"
  /\ proxyPc' = "waiting" /\ proxyLock' = "free"
  /\ UNCHANGED <<stateLock, guiVars, handVars, renderPc, renderVars, winVars, list,
                 proxyCurrent, proxyPending, relocked, memVars>>

-----------------------------------------------------------------------------
(***************************************************************************)
(* The X server that owns state s.  lorieMoveCursor, which also ends        *)
(* lorieSetCursor, may run at any time, and lorieRedraw runs at every       *)
(* vertical sync; `damaged` says that something was drawn since the last.   *)
(***************************************************************************)
lorieMoveCursor(s) ==
  /\ s \in mapped
  /\ shm' = [shm EXCEPT ![s].request = TRUE]
  /\ WakeProxy(s)
  /\ UNCHANGED <<stateLock, guiVars, handVars, renderPc, renderVars, winVars, list,
                 proxyLock, proxyCurrent, proxyPending, relocked, mapped>>

Reports(s, damaged) == shm[s].surfaceAvailable /\ (damaged \/ shm[s].request)

lorieRedraw(s, id, damaged) ==
  /\ s \in mapped
  /\ \/ /\ Reports(s, damaged)
        /\ shm' = [shm EXCEPT ![s].waitForNextFrame = FALSE, ![s].request = TRUE,
                              ![s].root = id]
        /\ WakeProxy(s)
     \/ /\ ~Reports(s, damaged)
        /\ shm' = [shm EXCEPT ![s].waitForNextFrame = FALSE]
        /\ UNCHANGED proxyPc
  /\ UNCHANGED <<stateLock, guiVars, handVars, renderPc, renderVars, winVars, list,
                 proxyLock, proxyCurrent, proxyPending, relocked, mapped>>

\* POSIX lets a wait return without a signal.
SpuriousWakeup ==
  /\ Spurious
  /\ \/ guiPc = "waiting" /\ guiPc' = "woken" /\ UNCHANGED <<renderPc, proxyPc>>
     \/ renderPc = "waiting" /\ renderPc' = "woken" /\ UNCHANGED <<guiPc, proxyPc>>
     \/ renderPc = "listening" /\ renderPc' = "listenWoken" /\ UNCHANGED <<guiPc, proxyPc>>
     \/ proxyPc = "waiting" /\ proxyPc' = "woken" /\ UNCHANGED <<guiPc, renderPc>>
  /\ UNCHANGED <<stateLock, guiOp, guiState, guiWin, handVars, renderVars, winVars, list,
                 proxyLock, proxyCurrent, proxyPending, relocked, memVars>>

-----------------------------------------------------------------------------
\* All threads are parked in their waits, or, with FromStart, about to run
\* their first instruction: the renderer thread then enters its loop without
\* having taken stateLock.
Init ==
  /\ stateLock = "free"
  /\ guiPc = "idle" /\ guiOp = "state"
  /\ guiState = NULL /\ guiWin = NULL
  /\ stateChanged = FALSE /\ windowChanged = FALSE
  /\ pendingState = NULL /\ pendingWin = NULL
  /\ renderPc = IF FromStart THEN "check" ELSE "waiting"
  /\ state = NULL /\ oldState = NULL
  /\ win = Default /\ sfc = Default
  /\ refs = [w \in Windows |-> 0]
  /\ handed = [w \in Windows |-> 0] /\ unreleased = [w \in Windows |-> 0]
  /\ waitingForBuffers = FALSE
  /\ lastRequestedBufferId = NULL
  /\ drawing = NULL
  /\ list = [b \in Buffers |-> "free"]
  /\ proxyPc = IF FromStart THEN "start" ELSE "waiting"
  /\ proxyLock = "free"
  /\ proxyCurrent = Def /\ proxyPending = NULL /\ relocked = FALSE
  /\ mapped = {}
  /\ shm = [s \in States |-> Blank]

GuiRequest ==
  \/ \E new \in (States \ mapped) \cup {NULL} : rendererSetSharedState(new)
  \/ \E new \in Windows \cup {NULL} : rendererSetWindow(new)
  \/ \E b \in Buffers : rendererAddBuffer(b)
  \/ \E id \in Ids : rendererRemoveBuffer(id)

GuiStep == GuiCheckFinished \/ GuiRelock \/ rendererRemoveAllBuffers

RenderStep ==
  \/ rendererShouldWait \/ RenderSleep \/ RenderRelock
  \/ ApplyState \/ ListenOtherCondVar \/ ListenWoken \/ UnmapOldState
  \/ ApplyWindow \/ AttachAndFinish
  \/ BeginFrame \/ DrawFrame \/ SwapBuffers \/ SweepRemoved

ProxyStep == ProxyRelock \/ ProxyForward \/ ProxyWait

Vsync(s) == \E id \in Ids, damaged \in BOOLEAN : lorieRedraw(s, id, damaged)

Next ==
  \/ GuiRequest
  \/ GuiStep
  \/ RenderStep
  \/ ProxyStep
  \/ \E s \in States : lorieMoveCursor(s) \/ Vsync(s)
  \/ SpuriousWakeup

Spec == Init /\ [][Next]_vars

(***************************************************************************)
(* Fairness: the kernel schedules the three threads, a frame is drawn in   *)
(* finite time, and the Choreographer posts lorieRedraw at every vertical  *)
(* sync.  Strong fairness of a thread says that a mutex released again and *)
(* again is granted in the end: both locks are held for microseconds       *)
(* between signals that are milliseconds apart.  Nothing obliges the GUI   *)
(* to hand anything over.                                                  *)
(***************************************************************************)
Fairness ==
  /\ SF_vars(GuiStep)
  /\ SF_vars(RenderStep)
  /\ SF_vars(ProxyStep)
  /\ \A s \in States : WF_vars(Vsync(s))

FairSpec == Spec /\ Fairness

-----------------------------------------------------------------------------
GuiType ==
  /\ stateLock \in {"free", "gui", "render"}
  /\ guiPc \in {"idle", "holding", "waiting", "woken", "disconnecting"}
  /\ guiOp \in {"state", "window"}
  /\ guiState \in States \cup {NULL}
  /\ guiWin \in Windows \cup {NULL}
  /\ stateChanged \in BOOLEAN /\ windowChanged \in BOOLEAN
  /\ pendingState \in States \cup {NULL}
  /\ pendingWin \in Windows \cup {NULL}

RenderType ==
  /\ renderPc \in {"check", "sleep", "waiting", "woken", "apply", "listen", "listening",
                   "listenWoken", "unmap", "window", "attach", "frame", "draw", "swap",
                   "sweep", "loop"}
  /\ state \in States \cup {NULL} /\ oldState \in States \cup {NULL}
  /\ win \in Windows \cup {Default}
  /\ sfc \in Windows \cup {Default, NoSurface}
  /\ refs \in [Windows -> Int]
  /\ handed \in [Windows -> Nat] /\ unreleased \in [Windows -> Nat]
  /\ waitingForBuffers \in BOOLEAN
  /\ lastRequestedBufferId \in Ids \cup {NULL}
  /\ drawing \in Buffers \cup {NULL}
  /\ list \in [Buffers -> {"free", "added", "buffers", "removed"}]

ProxyType ==
  /\ proxyPc \in {"start", "waiting", "woken", "forward", "rewait"}
  /\ proxyLock \in {"free", "proxy"}
  /\ proxyCurrent \in States \cup {Def}
  /\ proxyPending \in States \cup {Def, NULL}
  /\ relocked \in BOOLEAN
  /\ mapped \in SUBSET States
  /\ shm \in [States -> SharedState]

\* Every variable stays in the range the C declarations give it.
TypeOK == GuiType /\ RenderType /\ ProxyType

\* When rendererSetSharedState or rendererSetWindow is called again nothing is
\* pending from an earlier call: the branches of rendererSetWindow for a window
\* that is already pending are dead code.
NothingPendingWhenIdle ==
  guiPc = "idle" => /\ ~stateChanged /\ pendingState = NULL
                    /\ ~windowChanged /\ pendingWin = NULL

\* "The buffer will not be released until this function ends, but main thread
\* can modify buffer list" (rendererRedrawLocked): the buffer being drawn stays
\* alive whatever rendererRemoveBuffer and rendererRemoveAllBuffers do.
DrawnBufferAlive ==
  drawing # NULL => list[drawing] \in {"buffers", "removed"}

\* The proxy thread never waits on the condition variable of a shared state
\* that has been unmapped: munmap comes after it has switched over.
ProxyOnMappedState ==
  proxyCurrent \in mapped \cup {Def}

\* Shared states are neither leaked nor used after munmap: outside a handover
\* exactly the state that was handed over last is mapped and in use.
MappingsExact ==
  /\ state \in mapped \cup {NULL}
  /\ guiPc = "idle" => /\ state = guiState
                       /\ mapped = {guiState} \ {NULL}

\* "We should wait until renderer destroys EGLSurface before
\* SurfaceCallback::surfaceDestroyed finishes" (rendererSetWindow): when a
\* handover is over, the renderer has no EGL surface on another window, unless
\* EGL refused to let go of that one.
SurfaceGone ==
  guiPc = "idle" =>
    \/ sfc \in {guiWin, Default, NoSurface}
    \/ sfc \in Windows /\ unreleased[sfc] > 0

\* Window references are accounted for: the renderer owns one to the window in
\* use and one to the pending window.  Those left over are exactly one for each
\* handover, the second reference surfaceChanged takes and nobody drops, and one
\* for each time EGL cut releaseWinAndSurface short.  The EGL surface drawn to
\* is that of the window in use, unless EGL refused to let go of it.
RefsBalanced ==
  /\ \A w \in Windows :
       refs[w] = handed[w] + unreleased[w]
                   + (IF win = w THEN 1 ELSE 0) + (IF pendingWin = w THEN 1 ELSE 0)
  /\ sfc \in Windows => sfc = win \/ unreleased[sfc] > 0

\* The GUI thread is not blocked for good by a handover: "If there are pending
\* changes we should process them immediately" (rendererShouldWait).
GuiReturns == (guiPc # "idle") ~> (guiPc = "idle")

\* "X server reported drawing or cursor changes, no need to wait"
\* (rendererShouldWait): a frame the X server asked for is drawn, although rendererAddBuffer and
\* the proxy signal stateCond without holding stateLock and may be missed.
Drawable(s) ==
  /\ state = s /\ shm[s].surfaceAvailable /\ shm[s].request
  /\ \E b \in Buffers : b[1] = shm[s].root /\ list[b] \in {"added", "buffers"}

FrameDrawn == \A s \in States : Drawable(s) ~> ~Drawable(s)
=============================================================================
