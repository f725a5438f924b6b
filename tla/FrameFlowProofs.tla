--------------------------- MODULE FrameFlowProofs ---------------------------
(***************************************************************************)
(* Proofs about FrameFlow, for any number of drawing operations, cursor    *)
(* changes, surfaces and root pixmaps.                                     *)
(*                                                                         *)
(* NoLostFrame and NoLostCursor speak of quiescent states only, so they    *)
(* are not inductive: each is strengthened to a statement about all states *)
(* that names, for a display that is not up to date, the flag or the       *)
(* program position that will bring it up to date.                         *)
(***************************************************************************)
EXTENDS FrameFlow, TLAPS

USE FrameFlowAssumption

\* Every step of either thread keeps the types.
LEMMA TypeStep == TypeOK /\ [Next]_vars => TypeOK'
<1> SUFFICES ASSUME TypeOK, [Next]_vars PROVE ServerType' /\ StateType' /\ DisplayType'
  BY DEF TypeOK
<1> USE DEF ServerGoto, RenderGoto,
            screenVars, boundVars, cursorVars, flagVars, stateVars, lockVars, frameVars
<1>1. CASE DrawBegin
  <2>1. ServerType' BY <1>1 DEF TypeOK, ServerType, DisplayType, DrawBegin
  <2>2. StateType' BY <1>1 DEF TypeOK, ServerType, StateType, DrawBegin
  <2>3. DisplayType' BY <1>1 DEF TypeOK, ServerType, StateType, DisplayType, DrawBegin
  <2> QED BY <2>1, <2>2, <2>3
<1>2. CASE DrawEnd
  <2>1. ServerType' BY <1>2 DEF TypeOK, ServerType, DisplayType, DrawEnd
  <2>2. StateType' BY <1>2 DEF TypeOK, ServerType, StateType, DrawEnd
  <2>3. DisplayType' BY <1>2 DEF TypeOK, ServerType, StateType, DisplayType, DrawEnd
  <2> QED BY <2>1, <2>2, <2>3
<1>3. CASE lorieSetCursor
  <2>1. ServerType' BY <1>3 DEF TypeOK, ServerType, DisplayType, lorieSetCursor
  <2>2. StateType' BY <1>3 DEF TypeOK, ServerType, StateType, lorieSetCursor
  <2>3. DisplayType' BY <1>3 DEF TypeOK, ServerType, StateType, DisplayType, lorieSetCursor
  <2> QED BY <2>1, <2>2, <2>3
<1>4. CASE StoreImage
  <2>1. ServerType' BY <1>4 DEF TypeOK, ServerType, DisplayType, StoreImage
  <2>2. StateType' BY <1>4 DEF TypeOK, ServerType, StateType, StoreImage
  <2>3. DisplayType' BY <1>4 DEF TypeOK, ServerType, StateType, DisplayType, StoreImage
  <2> QED BY <2>1, <2>2, <2>3
<1>5. CASE lorieMoveCursor
  <2>1. ServerType' BY <1>5 DEF TypeOK, ServerType, DisplayType, lorieMoveCursor
  <2>2. StateType' BY <1>5 DEF TypeOK, ServerType, StateType, lorieMoveCursor
  <2>3. DisplayType' BY <1>5 DEF TypeOK, ServerType, StateType, DisplayType, lorieMoveCursor
  <2> QED BY <2>1, <2>2, <2>3
<1>6. CASE StorePos
  <2>1. ServerType' BY <1>6 DEF TypeOK, ServerType, DisplayType, StorePos
  <2>2. StateType' BY <1>6 DEF TypeOK, ServerType, StateType, StorePos
  <2>3. DisplayType' BY <1>6 DEF TypeOK, ServerType, StateType, DisplayType, StorePos
  <2> QED BY <2>1, <2>2, <2>3
<1>7. CASE StoreMoved
  <2>1. ServerType' BY <1>7 DEF TypeOK, ServerType, DisplayType, StoreMoved
  <2>2. StateType' BY <1>7 DEF TypeOK, ServerType, StateType, StoreMoved
  <2>3. DisplayType' BY <1>7 DEF TypeOK, ServerType, StateType, DisplayType, StoreMoved
  <2> QED BY <2>1, <2>2, <2>3
<1>8. CASE lorieRedraw
  <2>1. ServerType' BY <1>8 DEF TypeOK, ServerType, DisplayType, lorieRedraw
  <2>2. StateType' BY <1>8 DEF TypeOK, ServerType, StateType, lorieRedraw
  <2>3. DisplayType' BY <1>8 DEF TypeOK, ServerType, StateType, DisplayType, lorieRedraw
  <2> QED BY <2>1, <2>2, <2>3
<1>9. CASE RequestDraw
  <2>1. ServerType' BY <1>9 DEF TypeOK, ServerType, DisplayType, RequestDraw
  <2>2. StateType' BY <1>9 DEF TypeOK, ServerType, StateType, RequestDraw
  <2>3. DisplayType' BY <1>9 DEF TypeOK, ServerType, StateType, DisplayType, RequestDraw
  <2> QED BY <2>1, <2>2, <2>3
<1>10. CASE CheckFlags
  <2>1. ServerType' BY <1>10 DEF TypeOK, ServerType, DisplayType, CheckFlags
  <2>2. StateType' BY <1>10 DEF TypeOK, ServerType, StateType, CheckFlags
  <2>3. DisplayType' BY <1>10 DEF TypeOK, ServerType, StateType, DisplayType, CheckFlags
  <2> QED BY <2>1, <2>2, <2>3
<1>11. CASE PublishRoot
  <2>1. ServerType' BY <1>11 DEF TypeOK, ServerType, DisplayType, PublishRoot
  <2>2. StateType' BY <1>11 DEF TypeOK, ServerType, StateType, PublishRoot
  <2>3. DisplayType' BY <1>11 DEF TypeOK, ServerType, StateType, DisplayType, PublishRoot
  <2> QED BY <2>1, <2>2, <2>3
<1>12. CASE SurfaceLost
  <2>1. ServerType' BY <1>12 DEF TypeOK, ServerType, DisplayType, SurfaceLost
  <2>2. StateType' BY <1>12 DEF TypeOK, ServerType, StateType, SurfaceLost
  <2>3. DisplayType' BY <1>12 DEF TypeOK, ServerType, StateType, DisplayType, SurfaceLost
  <2> QED BY <2>1, <2>2, <2>3
<1>13. CASE SurfaceNew
  <2>1. ServerType' BY <1>13 DEF TypeOK, ServerType, DisplayType, SurfaceNew
  <2>2. StateType' BY <1>13 DEF TypeOK, ServerType, StateType, SurfaceNew
  <2>3. DisplayType' BY <1>13 DEF TypeOK, ServerType, StateType, DisplayType, SurfaceNew
  <2> QED BY <2>1, <2>2, <2>3
<1>14. CASE FindBuffer
  <2>1. ServerType' BY <1>14 DEF TypeOK, ServerType, DisplayType, FindBuffer
  <2>2. StateType' BY <1>14 DEF TypeOK, ServerType, StateType, FindBuffer
  <2>3. DisplayType' BY <1>14 DEF TypeOK, ServerType, StateType, DisplayType, FindBuffer
  <2> QED BY <2>1, <2>2, <2>3
<1>15. CASE LockRoot
  <2>1. ServerType' BY <1>15 DEF TypeOK, ServerType, DisplayType, LockRoot
  <2>2. StateType' BY <1>15 DEF TypeOK, ServerType, StateType, LockRoot
  <2>3. DisplayType' BY <1>15 DEF TypeOK, ServerType, StateType, DisplayType, LockRoot
  <2> QED BY <2>1, <2>2, <2>3
<1>16. CASE DrawRoot
  <2>1. ServerType' BY <1>16 DEF TypeOK, ServerType, DisplayType, DrawRoot
  <2>2. StateType' BY <1>16 DEF TypeOK, ServerType, StateType, DrawRoot
  <2>3. DisplayType' BY <1>16 DEF TypeOK, ServerType, StateType, DisplayType, DrawRoot
  <2> QED BY <2>1, <2>2, <2>3
<1>17. CASE LockCursor
  <2>1. ServerType' BY <1>17 DEF TypeOK, ServerType, DisplayType, LockCursor
  <2>2. StateType' BY <1>17 DEF TypeOK, ServerType, StateType, LockCursor
  <2>3. DisplayType' BY <1>17 DEF TypeOK, ServerType, StateType, DisplayType, LockCursor
  <2> QED BY <2>1, <2>2, <2>3
<1>18. CASE CopyImage
  <2>1. ServerType' BY <1>18 DEF TypeOK, ServerType, DisplayType, CopyImage
  <2>2. StateType' BY <1>18 DEF TypeOK, ServerType, StateType, CopyImage
  <2>3. DisplayType' BY <1>18 DEF TypeOK, ServerType, StateType, DisplayType, CopyImage
  <2> QED BY <2>1, <2>2, <2>3
<1>19. CASE ClearMoved
  <2>1. ServerType' BY <1>19 DEF TypeOK, ServerType, DisplayType, ClearMoved
  <2>2. StateType' BY <1>19 DEF TypeOK, ServerType, StateType, ClearMoved
  <2>3. DisplayType' BY <1>19 DEF TypeOK, ServerType, StateType, DisplayType, ClearMoved
  <2> QED BY <2>1, <2>2, <2>3
<1>20. CASE drawCursor
  <2>1. ServerType' BY <1>20 DEF TypeOK, ServerType, DisplayType, drawCursor
  <2>2. StateType' BY <1>20 DEF TypeOK, ServerType, StateType, drawCursor
  <2>3. DisplayType' BY <1>20 DEF TypeOK, ServerType, StateType, DisplayType, drawCursor
  <2> QED BY <2>1, <2>2, <2>3
<1>21. CASE FinishFrame
  <2>1. ServerType' BY <1>21 DEF TypeOK, ServerType, DisplayType, FinishFrame
  <2>2. StateType' BY <1>21 DEF TypeOK, ServerType, StateType, FinishFrame
  <2>3. DisplayType' BY <1>21 DEF TypeOK, ServerType, StateType, DisplayType, FinishFrame
  <2> QED BY <2>1, <2>2, <2>3
<1>22. CASE \E new \in Roots : lorieRRScreenSetSize(new)
  <2>1. ServerType' BY <1>22 DEF TypeOK, ServerType, DisplayType, lorieRRScreenSetSize
  <2>2. StateType' BY <1>22 DEF TypeOK, ServerType, StateType, lorieRRScreenSetSize
  <2>3. DisplayType' BY <1>22 DEF TypeOK, ServerType, StateType, DisplayType, lorieRRScreenSetSize
  <2> QED BY <2>1, <2>2, <2>3
<1>23. CASE UNCHANGED vars
  <2>1. ServerType' BY <1>23 DEF TypeOK, ServerType, DisplayType, vars
  <2>2. StateType' BY <1>23 DEF TypeOK, ServerType, StateType, vars
  <2>3. DisplayType' BY <1>23 DEF TypeOK, ServerType, StateType, DisplayType, vars
  <2> QED BY <2>1, <2>2, <2>3
<1> QED BY <1>1, <1>2, <1>3, <1>4, <1>5, <1>6, <1>7, <1>8, <1>9, <1>10, <1>11, <1>12,
           <1>13, <1>14, <1>15, <1>16, <1>17, <1>18, <1>19, <1>20, <1>21, <1>22, <1>23
        DEF Next, ServerStep, RedrawStep, RenderStep, FrameStep

\* The initial states are well typed.
LEMMA TypeInit == Init => TypeOK
<1> SUFFICES ASSUME Init PROVE ServerType /\ StateType /\ DisplayType
  BY DEF TypeOK
<1>1. ServerType BY DEF Init, ServerType
<1>2. StateType BY DEF Init, StateType
<1>3. DisplayType BY DEF Init, DisplayType
<1> QED BY <1>1, <1>2, <1>3

\* Types are preserved by every step of the two threads.
THEOREM TypeCorrect == Spec => []TypeOK
<1> QED BY TypeInit, TypeStep, PTL DEF Spec

\* A change of the cursor that is not displayed is announced by a flag, or a
\* thread is at the step that announces or displays it.
CursorCovered ==
  ~reordered =>
    /\ serverPc # "posLate" /\ renderPc # "clearLate"
    /\ moved \/ serverPc = "flag" \/ renderPc = "drawCursor" \/ shownPos = pos
    /\ updated \/ renderPc \in {"cursor", "drawCursor"} \/ shownImage = image
    /\ updated \/ texture = image

\* Every step keeps the cursor covered.
LEMMA CursorStep == CursorCovered /\ [Next]_vars => CursorCovered'
<1> SUFFICES ASSUME CursorCovered, [Next]_vars PROVE CursorCovered'
  OBVIOUS
<1> USE DEF CursorCovered, ServerGoto, RenderGoto,
            screenVars, boundVars, cursorVars, flagVars, stateVars, lockVars, frameVars
<1>1. CASE DrawBegin BY <1>1 DEF DrawBegin
<1>2. CASE DrawEnd BY <1>2 DEF DrawEnd
<1>3. CASE lorieSetCursor BY <1>3 DEF lorieSetCursor
<1>4. CASE StoreImage BY <1>4 DEF StoreImage
<1>5. CASE lorieMoveCursor BY <1>5 DEF lorieMoveCursor
<1>6. CASE StorePos BY <1>6 DEF StorePos
<1>7. CASE StoreMoved BY <1>7 DEF StoreMoved
<1>8. CASE lorieRedraw BY <1>8 DEF lorieRedraw
<1>9. CASE RequestDraw BY <1>9 DEF RequestDraw
<1>10. CASE CheckFlags BY <1>10 DEF CheckFlags
<1>11. CASE PublishRoot BY <1>11 DEF PublishRoot
<1>12. CASE SurfaceLost BY <1>12 DEF SurfaceLost
<1>13. CASE SurfaceNew BY <1>13 DEF SurfaceNew
<1>14. CASE FindBuffer BY <1>14 DEF FindBuffer
<1>15. CASE LockRoot BY <1>15 DEF LockRoot
<1>16. CASE DrawRoot BY <1>16 DEF DrawRoot
<1>17. CASE LockCursor BY <1>17 DEF LockCursor
<1>18. CASE CopyImage BY <1>18 DEF CopyImage
<1>19. CASE ClearMoved BY <1>19 DEF ClearMoved
<1>20. CASE drawCursor BY <1>20 DEF drawCursor
<1>21. CASE FinishFrame BY <1>21 DEF FinishFrame
<1>22. CASE \E new \in Roots : lorieRRScreenSetSize(new) BY <1>22 DEF lorieRRScreenSetSize
<1>23. CASE UNCHANGED vars BY <1>23 DEF vars
<1> QED BY <1>1, <1>2, <1>3, <1>4, <1>5, <1>6, <1>7, <1>8, <1>9, <1>10, <1>11, <1>12,
           <1>13, <1>14, <1>15, <1>16, <1>17, <1>18, <1>19, <1>20, <1>21, <1>22, <1>23
        DEF Next, ServerStep, RedrawStep, RenderStep, FrameStep

\* While memory accesses are not reordered, no cursor change is lost, also not
\* across replacements of the root pixmap.
THEOREM CursorNotLost == Spec => []NoLostCursor
<1>1. Init => CursorCovered
  BY DEF Init, CursorCovered
<1>2. CursorCovered /\ [Next]_vars => CursorCovered'
  BY CursorStep
<1>3. CursorCovered => NoLostCursor
  BY DEF CursorCovered, NoLostCursor, Quiescent, CursorShown
<1> QED BY <1>1, <1>2, <1>3, PTL DEF Spec

\* The same for the contents of the root pixmap, while it is not replaced.
FrameCovered ==
  /\ TypeOK
  /\ resizes = 0 =>
       /\ rootWindowTextureID \in {Nothing, root}
       /\ renderPc # "idle" => drawing = root
       /\ damage \/ drawRequested \/ renderPc = "draw" \/ ~surfaceAvailable \/ RootShown
  /\ serverPc = "draw" => damage /\ lock = "server"
  /\ renderPc \in {"draw", "image", "copy", "cursor", "drawCursor", "clearLate", "finish"}
       => lock = "render"

\* Every step keeps the frame covered.
LEMMA FrameStepCovered == FrameCovered /\ [Next]_vars => FrameCovered'
<1> SUFFICES ASSUME FrameCovered, [Next]_vars PROVE FrameCovered'
  OBVIOUS
<1>a. TypeOK'
  BY TypeStep DEF FrameCovered
<1> USE DEF FrameCovered, RootShown, ServerGoto, RenderGoto,
            screenVars, boundVars, cursorVars, flagVars, stateVars, lockVars, frameVars
<1>1. CASE DrawBegin BY <1>1, <1>a DEF DrawBegin
<1>2. CASE DrawEnd BY <1>2, <1>a DEF DrawEnd
<1>3. CASE lorieSetCursor BY <1>3, <1>a DEF lorieSetCursor
<1>4. CASE StoreImage BY <1>4, <1>a DEF StoreImage
<1>5. CASE lorieMoveCursor BY <1>5, <1>a DEF lorieMoveCursor
<1>6. CASE StorePos BY <1>6, <1>a DEF StorePos
<1>7. CASE StoreMoved BY <1>7, <1>a DEF StoreMoved
<1>8. CASE lorieRedraw BY <1>8, <1>a DEF lorieRedraw
<1>9. CASE RequestDraw BY <1>9, <1>a DEF RequestDraw
<1>10. CASE CheckFlags BY <1>10, <1>a DEF CheckFlags
<1>11. CASE PublishRoot BY <1>11, <1>a DEF PublishRoot
<1>12. CASE SurfaceLost BY <1>12, <1>a DEF SurfaceLost
<1>13. CASE SurfaceNew BY <1>13, <1>a DEF SurfaceNew
<1>14. CASE FindBuffer BY <1>14, <1>a DEF FindBuffer
<1>15. CASE LockRoot BY <1>15, <1>a DEF LockRoot
<1>16. CASE DrawRoot BY <1>16, <1>a DEF DrawRoot
<1>17. CASE LockCursor BY <1>17, <1>a DEF LockCursor
<1>18. CASE CopyImage BY <1>18, <1>a DEF CopyImage
<1>19. CASE ClearMoved BY <1>19, <1>a DEF ClearMoved
<1>20. CASE drawCursor BY <1>20, <1>a DEF drawCursor
<1>21. CASE FinishFrame BY <1>21, <1>a DEF FinishFrame
<1>22. CASE \E new \in Roots : lorieRRScreenSetSize(new)
  BY <1>22, <1>a DEF lorieRRScreenSetSize, TypeOK, ServerType
<1>23. CASE UNCHANGED vars BY <1>23, <1>a DEF vars
<1> QED BY <1>1, <1>2, <1>3, <1>4, <1>5, <1>6, <1>7, <1>8, <1>9, <1>10, <1>11, <1>12,
           <1>13, <1>14, <1>15, <1>16, <1>17, <1>18, <1>19, <1>20, <1>21, <1>22, <1>23
        DEF Next, ServerStep, RedrawStep, RenderStep, FrameStep

\* As long as the root pixmap stays the same, no drawing operation is lost,
\* whatever the memory model does to the cursor's flags.
THEOREM FrameNotLost == Spec => []NoLostFrame
<1>1. Init => FrameCovered
  BY TypeInit DEF Init, FrameCovered
<1>2. FrameCovered /\ [Next]_vars => FrameCovered'
  BY FrameStepCovered
<1>3. FrameCovered => NoLostFrame
  BY DEF FrameCovered, NoLostFrame, Quiescent
<1> QED BY <1>1, <1>2, <1>3, PTL DEF Spec
=============================================================================
