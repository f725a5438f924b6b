----------------------------- MODULE PixmapAccess -----------------------------
(***************************************************************************)
(* The memory behind pixmaps in the X server.  The driver keeps a pointer  *)
(* to the memory of a pixmap's buffer while the buffer is locked, usually  *)
(* from its creation on; flipping turns ordinary memory into a buffer that *)
(* can be shared with the activity, which frees what the pointer pointed   *)
(* to; the pixmap of the root window changes with flips and with the size  *)
(* of the screen.  All of it runs on the main thread.                      *)
(*                                                                         *)
(* A pointer is named by the type of the buffer it was obtained from, as a *)
(* buffer has memory of a type once; that of an AHardwareBuffer is valid   *)
(* while Android has it locked.  Android's lock may fail.  The sizes of    *)
(* pixmaps, which decide whether Present may flip to one, are left out:    *)
(* any pixmap with a buffer may be flipped to.                             *)
(*                                                                         *)
(* Present calls the driver's after_flip when a flip has succeeded (the    *)
(* call is added by patches/xserver.patch), and this version of the driver *)
(* leaves that entry NULL (InitOutput.c:834).  What such a call does to    *)
(* the server is left out: the module is about the memory, as if Present   *)
(* went on to the next flip.                                               *)
(***************************************************************************)
EXTENDS FiniteSets

CONSTANTS
  Pixmaps,   \* pixmaps there can be at a time
  NoPixmap

ASSUME NoPixmapAssumption == NoPixmap \notin Pixmaps

NULL  == "NULL"
Types == {"REGULAR", "FD", "AHARDWAREBUFFER"}
NoBuffer == [type |-> NULL, locked |-> FALSE, lockedData |-> NULL, owns |-> {}]
Free     == [live |-> FALSE, mem |-> FALSE, imported |-> FALSE, buffer |-> NoBuffer,
             locked |-> NULL, wasLocked |-> FALSE]

VARIABLES
  pix,            \* pixmap -> LoriePixmapPriv
  screenPixmap,   \* GetScreenPixmap
  rootPixmap,     \* GetWindowPixmap of the root window
  resizing,       \* the screen pixmap that lorieRRScreenSetSize replaces, or NoPixmap
  access,         \* pixmaps between PrepareAccess and FinishAccess
  legacyDrawing,  \* pvfb->root.legacyDrawing
  leaked,         \* history: what was not freed with its buffer
  aborted         \* the server has called FatalError

pixVars == <<pix, screenPixmap, rootPixmap, resizing, access, legacyDrawing, leaked, aborted>>

Live == {p \in Pixmaps : pix[p].live}
SharedType == IF legacyDrawing THEN "FD" ELSE "AHARDWAREBUFFER"

----------------------------------------------------------------------------
(* Buffers.                                                                *)

\* What a buffer of each type owns.
Owned(type) == CASE type = "REGULAR" -> {"memory"}
                 [] type = "FD"      -> {"mapping", "descriptor"}
                 [] type = "AHARDWAREBUFFER" -> {"hardware buffer"}
                 [] OTHER            -> {}

LorieBuffer_allocate(type) == [NoBuffer EXCEPT !.type = type, !.owns = Owned(type)]

\* The outcomes of a lock: the buffer and whether there is an error.  A buffer
\* that Android does not lock counts as locked.
LorieBuffer_lock(b) ==
  CASE b.type = NULL \/ b.locked -> {[buffer |-> b, error |-> TRUE]}
    [] b.type \in {"REGULAR", "FD"} /\ ~b.locked ->
         {[buffer |-> [b EXCEPT !.locked = TRUE, !.lockedData = b.type], error |-> FALSE]}
    [] OTHER ->
         {[buffer |-> [b EXCEPT !.locked = TRUE, !.lockedData = b.type, !.owns = @ \cup {"lock"}],
           error  |-> FALSE],
          [buffer |-> [b EXCEPT !.locked = TRUE], error |-> TRUE]}

LorieBuffer_unlock(b) ==
  IF b.locked THEN [b EXCEPT !.locked = FALSE, !.lockedData = NULL, !.owns = @ \ {"lock"}] ELSE b

\* An ordinary buffer becomes one of the type, or stays as it is.
LorieBuffer_convert(b, type) ==
  {b, [b EXCEPT !.type = type, !.owns = (@ \ Owned("REGULAR")) \cup Owned(type),
                !.locked = FALSE, !.lockedData = NULL]}

\* What is left when a buffer of its type is freed.
LeftBy(b) == b.owns \ Owned(b.type)

----------------------------------------------------------------------------
(* Pixmaps.                                                                *)

\* A lock that stores the pointer in the pixmap, if there is a buffer.
LockPixmap(x) ==
  {[x EXCEPT !.buffer = r.buffer,
             !.locked = IF x.buffer.type = NULL THEN @ ELSE r.buffer.lockedData] :
     r \in LorieBuffer_lock(x.buffer)}

UnlockPixmap(x) ==
  IF x.locked # NULL
  THEN [x EXCEPT !.buffer = LorieBuffer_unlock(@), !.locked = NULL, !.wasLocked = FALSE]
  ELSE x

LockIfNot(x) == IF x.locked = NULL /\ x.buffer.type # NULL
                THEN {[y EXCEPT !.wasLocked = FALSE] : y \in LockPixmap(x)} ELSE {x}

NewPixmap(type) == LockPixmap([Free EXCEPT !.live = TRUE, !.buffer = LorieBuffer_allocate(type)])

\* The root window gets another pixmap: the old one is unlocked, then the new
\* one is locked.
lorieSetWindowPixmap(pixmaps, old, new) ==
  LET unlocked == [pixmaps EXCEPT ![old] = UnlockPixmap(@)]
  IN  {[unlocked EXCEPT ![new] = x] : x \in LockIfNot(unlocked[new])}

\* The pixmap is destroyed: unlocked if the pointer is set, and freed.
Destroyed(x) ==
  LeftBy(IF x.locked # NULL THEN LorieBuffer_unlock(x.buffer) ELSE x.buffer)

----------------------------------------------------------------------------
PixInit ==
  \E p \in Pixmaps :
    /\ legacyDrawing \in BOOLEAN
    /\ pix \in {[[q \in Pixmaps |-> Free] EXCEPT ![p] = x] : x \in NewPixmap(SharedType)}
    /\ screenPixmap = p /\ rootPixmap = p
    /\ resizing = NoPixmap /\ access = {} /\ leaked = {} /\ aborted = FALSE

\* Between requests.
Idle == ~aborted /\ resizing = NoPixmap /\ access = {}

lorieCreatePixmap(p) ==
  /\ Idle /\ p \notin Live
  /\ \E x \in NewPixmap("REGULAR") : pix' = [pix EXCEPT ![p] = x]
  /\ UNCHANGED <<screenPixmap, rootPixmap, resizing, access, legacyDrawing, leaked, aborted>>

\* A pixmap of no size, given memory of the X server by ModifyPixmapHeader.
ScratchHeader(p) ==
  /\ Idle /\ p \notin Live
  /\ pix' = [pix EXCEPT ![p] = [Free EXCEPT !.live = TRUE, !.mem = TRUE]]
  /\ UNCHANGED <<screenPixmap, rootPixmap, resizing, access, legacyDrawing, leaked, aborted>>

\* DRI3: a client's buffer, or one of a format that is refused and not released.
loriePixmapFromFds(p) ==
  /\ Idle /\ p \notin Live
  /\ \/ /\ \E type \in {"FD", "AHARDWAREBUFFER"} :
             pix' = [pix EXCEPT ![p] = [Free EXCEPT !.live = TRUE, !.imported = TRUE,
                                                    !.buffer = LorieBuffer_allocate(type)]]
        /\ UNCHANGED leaked
     \/ /\ leaked' = leaked \cup {"refused import"}
        /\ UNCHANGED pix
  /\ UNCHANGED <<screenPixmap, rootPixmap, resizing, access, legacyDrawing, aborted>>

lorieExaDestroyPixmap(p) ==
  /\ Idle /\ p \in Live \ {screenPixmap, rootPixmap}
  /\ pix' = [pix EXCEPT ![p] = Free]
  /\ leaked' = leaked \cup Destroyed(pix[p])
  /\ UNCHANGED <<screenPixmap, rootPixmap, resizing, access, legacyDrawing, aborted>>

\* The X server prepares a pixmap once before it reads or draws; it gives up if
\* the driver cannot.
loriePrepareAccess(p) ==
  /\ ~aborted /\ p \in Live \ access
  /\ resizing # NoPixmap => p \in {resizing, screenPixmap}
  /\ access' = access \cup {p}
  /\ \/ /\ pix[p].locked # NULL \/ pix[p].mem
        /\ pix' = [pix EXCEPT ![p].wasLocked = TRUE]
        /\ UNCHANGED aborted
     \/ /\ pix[p].locked = NULL /\ ~pix[p].mem
        /\ \E x \in LockPixmap(pix[p]) :
             /\ pix' = [pix EXCEPT ![p] = [x EXCEPT !.wasLocked = FALSE]]
             /\ aborted' = (pix[p].buffer.locked \/ x.locked = NULL)
  /\ UNCHANGED <<screenPixmap, rootPixmap, resizing, legacyDrawing, leaked>>

FinishedMutant(x) == IF x.wasLocked THEN x ELSE [x EXCEPT !.locked = NULL]

Finished(x) ==
  IF x.wasLocked THEN x
  ELSE [x EXCEPT !.buffer = LorieBuffer_unlock(@), !.locked = NULL, !.wasLocked = FALSE]

lorieFinishAccess(p) ==
  /\ ~aborted /\ p \in access
  /\ access' = access \ {p}
  /\ pix' = [pix EXCEPT ![p] = Finished(@)]
  /\ UNCHANGED <<screenPixmap, rootPixmap, resizing, legacyDrawing, leaked, aborted>>

\* Before a frame the buffer of the root window is unlocked and locked again.
lorieRedraw ==
  /\ Idle /\ pix[rootPixmap].locked # NULL
  /\ \E r \in LorieBuffer_lock(LorieBuffer_unlock(pix[rootPixmap].buffer)) :
       /\ pix' = [pix EXCEPT ![rootPixmap].buffer = r.buffer,
                             ![rootPixmap].locked = r.buffer.lockedData]
       /\ aborted' = r.error
  /\ UNCHANGED <<screenPixmap, rootPixmap, resizing, access, legacyDrawing, leaked>>

ConvertedMutant(x) ==
  {[x EXCEPT !.buffer = b] : b \in LorieBuffer_convert(x.buffer, SharedType)}

\* The pixmap with its buffer converted and locked anew; the driver refuses the
\* flip if the buffer could not be converted.
Converted(x) ==
  UNION {LockPixmap([x EXCEPT !.buffer = b]) :
           b \in {c \in LorieBuffer_convert(x.buffer, SharedType) : c.type # "REGULAR"}}

Flippable(x) ==
  IF x.buffer.type = "REGULAR" THEN Converted(x)
  ELSE IF x.buffer.type = "FD" /\ x.imported THEN {} ELSE {x}

\* Present shows a client's pixmap: it becomes that of the root window.
loriePresentFlip(p) ==
  /\ Idle /\ p \in Live \ {screenPixmap, rootPixmap}
  /\ ~pix[p].mem /\ pix[p].buffer.type # NULL
  /\ \E x \in Flippable(pix[p]) :
       pix' \in lorieSetWindowPixmap([pix EXCEPT ![p] = x], rootPixmap, p)
  /\ rootPixmap' = p
  /\ UNCHANGED <<screenPixmap, resizing, access, legacyDrawing, leaked, aborted>>

\* Present gives the root window the screen's pixmap again.
Unflip ==
  /\ Idle /\ rootPixmap # screenPixmap
  /\ pix' \in lorieSetWindowPixmap(pix, rootPixmap, screenPixmap)
  /\ rootPixmap' = screenPixmap
  /\ UNCHANGED <<screenPixmap, resizing, access, legacyDrawing, leaked, aborted>>

\* A new screen pixmap; the old one may now be copied to it.
lorieRRScreenSetSize(p) ==
  /\ Idle /\ rootPixmap = screenPixmap /\ p \notin Live
  /\ \E x \in NewPixmap(SharedType) : pix' = [pix EXCEPT ![p] = x]
  /\ screenPixmap' = p /\ resizing' = screenPixmap
  /\ UNCHANGED <<rootPixmap, access, legacyDrawing, leaked, aborted>>

\* The rest of it: the root window gets the new pixmap and the old one is
\* destroyed.
ReplaceOldPixmap ==
  /\ ~aborted /\ resizing # NoPixmap /\ access = {}
  /\ \E pixmaps \in lorieSetWindowPixmap(pix, resizing, screenPixmap) :
       /\ pix' = [pixmaps EXCEPT ![resizing] = Free]
       /\ leaked' = leaked \cup Destroyed(pixmaps[resizing])
  /\ rootPixmap' = screenPixmap /\ resizing' = NoPixmap
  /\ UNCHANGED <<screenPixmap, access, legacyDrawing, aborted>>

PixNext ==
  \/ \E p \in Pixmaps :
       \/ lorieCreatePixmap(p) \/ ScratchHeader(p) \/ loriePixmapFromFds(p)
       \/ lorieExaDestroyPixmap(p) \/ loriePrepareAccess(p) \/ lorieFinishAccess(p)
       \/ loriePresentFlip(p) \/ lorieRRScreenSetSize(p)
  \/ lorieRedraw \/ Unflip \/ ReplaceOldPixmap

PixSpec == PixInit /\ [][PixNext]_pixVars

----------------------------------------------------------------------------
(* Properties.                                                             *)

Handles == {"memory", "mapping", "descriptor", "hardware buffer", "lock"}
Buffers == [type : Types \cup {NULL}, locked : BOOLEAN, lockedData : Types \cup {NULL},
            owns : SUBSET Handles]
PixmapPrivs == [live : BOOLEAN, mem : BOOLEAN, imported : BOOLEAN, buffer : Buffers,
                locked : Types \cup {NULL}, wasLocked : BOOLEAN]

\* Types of the pixmap variables; the pixmaps of the screen and of the root
\* window exist, that of the screen can be shared with the activity, and a
\* buffer owns what its type needs and nothing else.
PixTypeOK ==
  /\ pix \in [Pixmaps -> PixmapPrivs]
  /\ screenPixmap \in Live /\ rootPixmap \in Live
  /\ pix[screenPixmap].buffer.type = SharedType
  /\ resizing \in Live \cup {NoPixmap}
  /\ access \subseteq Live
  /\ \A p \in Live : pix[p].buffer.owns \ {"lock"} = Owned(pix[p].buffer.type)
  /\ legacyDrawing \in BOOLEAN /\ aborted \in BOOLEAN
  /\ leaked \subseteq Handles \cup {"refused import"}

\* The pointer that is kept for a pixmap points to the memory its buffer has
\* now, mapped as long as the pointer is kept: no drawing goes to memory freed
\* by a conversion or to a hardware buffer that is not locked, whatever order
\* of accesses, flips and new screen sizes led there.  A pixmap that is being
\* accessed has memory.  What a buffer owned is freed with it, also when it was
\* converted or never unlocked by a FinishAccess; only a refused import stays.
MemoryExact ==
  /\ \A p \in Live :
       /\ pix[p].locked # NULL =>
            /\ pix[p].locked = pix[p].buffer.type
            /\ pix[p].locked = "AHARDWAREBUFFER" => "lock" \in pix[p].buffer.owns
       /\ p \in access /\ ~aborted => pix[p].locked # NULL \/ pix[p].mem
  /\ leaked \subseteq {"refused import"}

\* Android did not lock the buffer, which the driver takes for locked.
LockFailed(b) == b.locked /\ b.lockedData = NULL

\* The X server only gives up because Android did not lock a buffer, never
\* because the driver and the buffer disagree on whether it is locked.
AbortsForAndroid == aborted => \E p \in Live : LockFailed(pix[p].buffer)
=============================================================================
