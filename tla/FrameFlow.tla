------------------------------ MODULE FrameFlow ------------------------------
(***************************************************************************)
(* How a change of the X screen reaches the display.  The X server's main  *)
(* thread draws, moves the cursor, replaces the root pixmap and runs       *)
(* lorieRedraw at every vertical sync; the renderer thread of the activity *)
(* draws a frame when one is wanted.  They communicate through flags in    *)
(* the shared state that both sides set and clear without a common lock,   *)
(* so the question is whether a change can be lost: all flags clear,       *)
(* nobody about to act, and the display still showing something old.       *)
(*                                                                         *)
(* The connection is alive and the buffers have reached the renderer.  How *)
(* the renderer sleeps and is woken is the subject of Renderer, the locks  *)
(* are those of SharedLock: here the renderer may look at the flags at any *)
(* time, and a lock is taken when it is free.                              *)
(***************************************************************************)
EXTENDS Naturals

CONSTANTS
  Roots,       \* root pixmaps the screen goes through, each with a buffer
  Nothing,     \* what a new surface shows; no buffer
  MaxDraws,    \* bound: drawing operations
  MaxMoves,    \* bound: cursor movements
  MaxImages,   \* bound: cursor images
  MaxResizes,  \* bound: replacements of the root pixmap
  MaxSurfaces  \* bound: surfaces the activity gets after the first

ASSUME FrameFlowAssumption ==
  /\ Nothing \notin Roots
  /\ MaxDraws \in Nat /\ MaxMoves \in Nat /\ MaxImages \in Nat
  /\ MaxResizes \in Nat /\ MaxSurfaces \in Nat

VARIABLES
  serverPc,   \* where the X server's main thread is
  root,       \* the root pixmap
  content,    \* the number of drawing operations in each root pixmap
  damage,     \* is DamageRegion(pvfb->damage) not empty?
  image, pos, \* the cursor's image and position, numbered
  reordered,  \* history: was an access to cursor.x or cursor.y delayed past
              \* the one to cursor.moved that comes after it in the program?
  draws, resizes, surfaces,                        \* counters for the bounds
  drawRequested, moved, updated, rootWindowTextureID,
  surfaceAvailable, waitForNextFrame,              \* flags of the shared state
  lock, cursorLock,                                \* who holds the two mutexes
  renderPc,   \* where the renderer thread is
  drawing,    \* the buffer rendererRedrawLocked looked up
  texture,    \* the image in the cursor's texture
  shown, shownPos, shownImage                      \* what the display shows

screenVars == <<root, content, damage>>
boundVars  == <<draws, resizes, surfaces>>
cursorVars == <<image, pos, reordered>>
flagVars   == <<drawRequested, moved, updated>>
stateVars  == <<rootWindowTextureID, surfaceAvailable, waitForNextFrame>>
lockVars   == <<lock, cursorLock>>
frameVars  == <<drawing, texture, shown, shownPos, shownImage>>
vars == <<serverPc, screenVars, boundVars, cursorVars, flagVars, stateVars, lockVars,
          renderPc, frameVars>>

ServerGoto(from, to) == serverPc = from /\ serverPc' = to
RenderGoto(from, to) == renderPc = from /\ renderPc' = to

-----------------------------------------------------------------------------
(***************************************************************************)
(* The X server: drawing, between loriePrepareAccess and lorieFinishAccess.*)
(* The damage layer records the region before the operation is carried out.*)
(***************************************************************************)
DrawBegin ==
  /\ ServerGoto("idle", "draw")
  /\ draws < MaxDraws
  /\ lock = "free" /\ lock' = "server"
  /\ damage' = TRUE
  /\ draws' = draws + 1
  /\ UNCHANGED <<root, content, resizes, surfaces, cursorVars, flagVars, stateVars,
                 cursorLock, renderPc, frameVars>>

DrawEnd ==
  /\ ServerGoto("draw", "idle")
  /\ content' = [content EXCEPT ![root] = @ + 1]
  /\ lock' = "free"
  /\ UNCHANGED <<root, damage, boundVars, cursorVars, flagVars, stateVars, cursorLock,
                 renderPc, frameVars>>

\* lorieRRScreenSetSize: the contents are copied to a new pixmap, which
\* damages it, and the cursor is marked as moved.
lorieRRScreenSetSize(new) ==
  /\ serverPc = "idle" /\ serverPc' = "idle"
  /\ resizes < MaxResizes
  /\ new # root
  /\ lock = "free"
  /\ root' = new
  /\ content' = [content EXCEPT ![new] = content[root]]
  /\ damage' = TRUE
  /\ moved' = TRUE
  /\ resizes' = resizes + 1
  /\ UNCHANGED <<draws, surfaces, cursorVars, drawRequested, updated, stateVars,
                 lockVars, renderPc, frameVars>>

(***************************************************************************)
(* lorieSetCursor, which ends in lorieMoveCursor.                          *)
(***************************************************************************)
lorieSetCursor ==
  /\ ServerGoto("idle", "image")
  /\ image < MaxImages
  /\ cursorLock = "free" /\ cursorLock' = "server"
  /\ UNCHANGED <<screenVars, boundVars, cursorVars, flagVars, stateVars, lock,
                 renderPc, frameVars>>

StoreImage ==
  /\ ServerGoto("image", "move")
  /\ image' = image + 1
  /\ updated' = TRUE
  /\ cursorLock' = "free"
  /\ UNCHANGED <<screenVars, boundVars, pos, reordered, drawRequested, moved, stateVars,
                 lock, renderPc, frameVars>>

lorieMoveCursor ==
  /\ ServerGoto("idle", "move")
  /\ pos < MaxMoves
  /\ UNCHANGED <<screenVars, boundVars, cursorVars, flagVars, stateVars, lockVars,
                 renderPc, frameVars>>

\* cursor.x, cursor.y and cursor.moved, without a lock or a barrier.
StorePos ==
  /\ \/ ServerGoto("move", "flag")
     \/ ServerGoto("posLate", "idle")
  /\ pos' = pos + 1
  /\ UNCHANGED <<screenVars, boundVars, image, reordered, flagVars, stateVars, lockVars,
                 renderPc, frameVars>>

\* A bug: the flag is set before the position is stored.
StoreMovedMutant ==
  /\ \/ ServerGoto("move", "posLate")
     \/ ServerGoto("flag", "idle")
  /\ moved' = TRUE
  /\ UNCHANGED <<screenVars, boundVars, cursorVars, drawRequested, updated, stateVars,
                 lockVars, renderPc, frameVars>>

StoreMoved ==
  /\ \/ ServerGoto("flag", "idle") /\ UNCHANGED reordered
     \/ ServerGoto("move", "posLate") /\ reordered' = TRUE
  /\ moved' = TRUE
  /\ UNCHANGED <<screenVars, boundVars, image, pos, drawRequested, updated, stateVars,
                 lockVars, renderPc, frameVars>>

(***************************************************************************)
(* lorieRedraw, at every vertical sync.                                    *)
(***************************************************************************)
\* A bug: the renderer is never let draw the next frame.
lorieRedrawMutant ==
  /\ ServerGoto("idle", IF surfaceAvailable THEN "damage" ELSE "idle")
  /\ UNCHANGED <<screenVars, boundVars, cursorVars, flagVars, stateVars, lockVars,
                 renderPc, frameVars>>

lorieRedraw ==
  /\ ServerGoto("idle", IF surfaceAvailable THEN "damage" ELSE "idle")
  /\ waitForNextFrame' = FALSE
  /\ UNCHANGED <<screenVars, boundVars, cursorVars, flagVars, rootWindowTextureID,
                 surfaceAvailable, lockVars, renderPc, frameVars>>

RequestDraw ==
  /\ ServerGoto("damage", "check")
  /\ damage' = FALSE
  /\ drawRequested' = (drawRequested \/ damage)
  /\ UNCHANGED <<root, content, boundVars, cursorVars, moved, updated, stateVars,
                 lockVars, renderPc, frameVars>>

CheckFlags ==
  /\ ServerGoto("check", IF drawRequested \/ moved \/ updated THEN "publish" ELSE "idle")
  /\ UNCHANGED <<screenVars, boundVars, cursorVars, flagVars, stateVars, lockVars,
                 renderPc, frameVars>>

PublishRoot ==
  /\ ServerGoto("publish", "idle")
  /\ rootWindowTextureID' = root
  /\ UNCHANGED <<screenVars, boundVars, cursorVars, flagVars, surfaceAvailable,
                 waitForNextFrame, lockVars, renderPc, frameVars>>

-----------------------------------------------------------------------------
(***************************************************************************)
(* The renderer thread: rendererRefreshContext between two frames.         *)
(***************************************************************************)
SurfaceLost ==
  /\ RenderGoto("idle", "idle")
  /\ surfaceAvailable /\ surfaceAvailable' = FALSE
  /\ UNCHANGED <<serverPc, screenVars, boundVars, cursorVars, flagVars,
                 rootWindowTextureID, waitForNextFrame, lockVars, frameVars>>

\* "We should redraw image at least once right after surface change"; a bug: a
\* surface is as good as another.
SurfaceNewMutant ==
  /\ RenderGoto("idle", "idle")
  /\ surfaces < MaxSurfaces
  /\ surfaces' = surfaces + 1
  /\ surfaceAvailable' = TRUE
  /\ shown' = Nothing
  /\ UNCHANGED <<serverPc, screenVars, draws, resizes, cursorVars, flagVars,
                 rootWindowTextureID, waitForNextFrame, lockVars, drawing, texture,
                 shownPos, shownImage>>

SurfaceNew ==
  /\ RenderGoto("idle", "idle")
  /\ surfaces < MaxSurfaces
  /\ surfaces' = surfaces + 1
  /\ surfaceAvailable' = TRUE
  /\ drawRequested' = TRUE /\ updated' = TRUE
  /\ shown' = Nothing
  /\ UNCHANGED <<serverPc, screenVars, draws, resizes, cursorVars, moved,
                 rootWindowTextureID, waitForNextFrame, lockVars, drawing, texture,
                 shownPos, shownImage>>

(***************************************************************************)
(* rendererRedrawLocked.                                                   *)
(***************************************************************************)
FrameWanted ==
  surfaceAvailable /\ ~waitForNextFrame /\ (drawRequested \/ moved \/ updated)

\* A bug: the buffer is not looked for, as if there always were a root window.
FindBufferMutant ==
  /\ RenderGoto("idle", "lock")
  /\ FrameWanted
  /\ drawing' = rootWindowTextureID
  /\ UNCHANGED <<serverPc, screenVars, boundVars, cursorVars, flagVars, stateVars,
                 lockVars, texture, shown, shownPos, shownImage>>

FindBuffer ==
  /\ RenderGoto("idle", IF rootWindowTextureID = Nothing THEN "idle" ELSE "lock")
  /\ FrameWanted
  /\ drawing' = rootWindowTextureID
  /\ UNCHANGED <<serverPc, screenVars, boundVars, cursorVars, flagVars, stateVars,
                 lockVars, texture, shown, shownPos, shownImage>>

LockRoot ==
  /\ RenderGoto("lock", "draw")
  /\ lock = "free" /\ lock' = "render"
  /\ drawRequested' = FALSE
  /\ UNCHANGED <<serverPc, screenVars, boundVars, cursorVars, moved, updated, stateVars,
                 cursorLock, frameVars>>

DrawRoot ==
  /\ RenderGoto("draw", IF updated THEN "image" ELSE "cursor")
  /\ shown' = <<drawing, content[drawing]>>
  /\ UNCHANGED <<serverPc, screenVars, boundVars, cursorVars, flagVars, stateVars,
                 lockVars, drawing, texture, shownPos, shownImage>>

LockCursor ==
  /\ RenderGoto("image", "copy")
  /\ cursorLock = "free" /\ cursorLock' = "render"
  /\ UNCHANGED <<serverPc, screenVars, boundVars, cursorVars, flagVars, stateVars, lock,
                 frameVars>>

CopyImage ==
  /\ RenderGoto("copy", "cursor")
  /\ updated' = FALSE
  /\ texture' = image
  /\ cursorLock' = "free"
  /\ UNCHANGED <<serverPc, screenVars, boundVars, cursorVars, drawRequested, moved,
                 stateVars, lock, drawing, shown, shownPos, shownImage>>

ClearMoved ==
  /\ \/ RenderGoto("cursor", "drawCursor")
     \/ RenderGoto("clearLate", "finish")
  /\ moved' = FALSE
  /\ UNCHANGED <<serverPc, screenVars, boundVars, cursorVars, drawRequested, updated,
                 stateVars, lockVars, frameVars>>

drawCursor ==
  /\ \/ RenderGoto("drawCursor", "finish") /\ UNCHANGED reordered
     \/ RenderGoto("cursor", "clearLate") /\ reordered' = TRUE
  /\ shownPos' = pos /\ shownImage' = texture
  /\ UNCHANGED <<serverPc, screenVars, boundVars, image, pos, flagVars, stateVars,
                 lockVars, drawing, texture, shown>>

FinishFrame ==
  /\ RenderGoto("finish", "idle")
  /\ waitForNextFrame' = TRUE
  /\ lock' = "free"
  /\ UNCHANGED <<serverPc, screenVars, boundVars, cursorVars, flagVars,
                 rootWindowTextureID, surfaceAvailable, cursorLock, frameVars>>

-----------------------------------------------------------------------------
\* A fresh connection: lorieActivityConnected has set the two flags, and a
\* surface is there.  No frame was drawn yet.
Init ==
  /\ serverPc = "idle" /\ renderPc = "idle"
  /\ root \in Roots
  /\ content = [r \in Roots |-> 0]
  /\ damage = FALSE
  /\ image = 0 /\ pos = 0 /\ reordered = FALSE
  /\ draws = 0 /\ resizes = 0 /\ surfaces = 0
  /\ drawRequested = TRUE /\ moved = FALSE /\ updated = TRUE
  /\ rootWindowTextureID \in {Nothing, root}
  /\ surfaceAvailable = TRUE /\ waitForNextFrame = FALSE
  /\ lock = "free" /\ cursorLock = "free"
  /\ drawing = Nothing
  /\ texture = 0
  /\ shown = Nothing /\ shownPos = 0 /\ shownImage = 0

RedrawStep == lorieRedraw \/ RequestDraw \/ CheckFlags \/ PublishRoot

ServerStep ==
  \/ DrawBegin \/ DrawEnd
  \/ \E new \in Roots : lorieRRScreenSetSize(new)
  \/ lorieSetCursor \/ StoreImage \/ lorieMoveCursor \/ StorePos \/ StoreMoved
  \/ RedrawStep

FrameStep ==
  \/ FindBuffer \/ LockRoot \/ DrawRoot \/ LockCursor \/ CopyImage
  \/ ClearMoved \/ drawCursor \/ FinishFrame

RenderStep == SurfaceLost \/ SurfaceNew \/ FrameStep

Next == ServerStep \/ RenderStep

Spec == Init /\ [][Next]_vars

(***************************************************************************)
(* Fairness: both threads are scheduled, an operation of the X server      *)
(* ends, and a vertical sync follows another.                              *)
(***************************************************************************)
Fairness == WF_vars(ServerStep) /\ WF_vars(RedrawStep) /\ WF_vars(FrameStep)

FairSpec == Spec /\ Fairness

-----------------------------------------------------------------------------
ServerType ==
  /\ serverPc \in {"idle", "draw", "image", "move", "flag", "posLate", "damage",
                   "check", "publish"}
  /\ root \in Roots /\ content \in [Roots -> Nat] /\ damage \in BOOLEAN
  /\ image \in Nat /\ pos \in Nat /\ reordered \in BOOLEAN
  /\ draws \in Nat /\ resizes \in Nat /\ surfaces \in Nat

StateType ==
  /\ drawRequested \in BOOLEAN /\ moved \in BOOLEAN /\ updated \in BOOLEAN
  /\ rootWindowTextureID \in Roots \cup {Nothing}
  /\ surfaceAvailable \in BOOLEAN /\ waitForNextFrame \in BOOLEAN
  /\ lock \in {"free", "server", "render"}
  /\ cursorLock \in {"free", "server", "render"}

DisplayType ==
  /\ renderPc \in {"idle", "lock", "draw", "image", "copy", "cursor", "drawCursor",
                   "clearLate", "finish"}
  /\ drawing \in Roots \cup {Nothing}
  /\ renderPc # "idle" => drawing \in Roots
  /\ texture \in Nat /\ shownPos \in Nat /\ shownImage \in Nat
  /\ shown \in (Roots \X Nat) \cup {Nothing}

\* Every variable stays in the range the C declarations give it, and a frame is
\* drawn only from a buffer that was found.
TypeOK == ServerType /\ StateType /\ DisplayType

\* Nobody has anything left to do: no damage, no flag, no operation under way.
Quiescent ==
  /\ surfaceAvailable
  /\ serverPc = "idle" /\ renderPc = "idle"
  /\ ~damage /\ ~drawRequested /\ ~moved /\ ~updated

\* What is on the display is what is in the root pixmap.
RootShown == shown = <<root, content[root]>>

CursorShown == shownPos = pos /\ shownImage = image

\* "Renderer thread will check the `drawRequested` flag right before going to
\* sleep" (lorieRedraw): a change of the screen is never dropped by the flag
\* being cleared while it is set again.
NoLostResize == Quiescent => RootShown

\* What the code achieves of it: it holds while the root pixmap stays the same.
NoLostFrame == Quiescent /\ resizes = 0 => RootShown

\* The same for the cursor, whose flags are set and cleared without
\* state->lock ("No need to explicitly lock the mutex", lorieMoveCursor), as
\* long as the CPUs keep the order of the accesses; resizes do not matter.
NoLostCursor == Quiescent /\ ~reordered => CursorShown

\* Once the X server stops changing things, the display catches up and stays.
Converges ==
  <>[](surfaceAvailable => /\ resizes = 0 => RootShown
                           /\ ~reordered => CursorShown)
=============================================================================
