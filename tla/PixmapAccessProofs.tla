-------------------------- MODULE PixmapAccessProofs --------------------------
(***************************************************************************)
(* Proofs about PixmapAccess, for any number of pixmaps.                   *)
(***************************************************************************)
EXTENDS PixmapAccess, TLAPS

USE NoPixmapAssumption

\* A buffer owns what its type needs, and Android's lock exactly while it has
\* the address of a locked hardware buffer; an unlocked one has no address.
Kept(b) == Owned(b.type) \cup (IF b.lockedData = "AHARDWAREBUFFER" THEN {"lock"} ELSE {})

BufferOK(b) ==
  /\ b \in Buffers
  /\ b.owns = Kept(b)
  /\ b.lockedData \in {NULL, b.type}
  /\ ~b.locked => b.lockedData = NULL

\* The pixmap's pointer is the buffer's; without a buffer there is other memory.
PixmapOK(x) ==
  /\ x \in PixmapPrivs /\ x.live
  /\ BufferOK(x.buffer)
  /\ x.locked = x.buffer.lockedData
  /\ x.buffer.type = NULL => x.mem /\ ~x.buffer.locked

\* What a locked buffer is, with the types spelled out.
LEMMA OwnedHandles ==
  ASSUME NEW t \in Types \cup {NULL}
  PROVE  Owned(t) \subseteq Handles /\ "lock" \notin Owned(t)
<1>1. CASE t = "REGULAR" BY <1>1 DEF Owned, Handles
<1>2. CASE t = "FD" BY <1>2 DEF Owned, Handles
<1>3. CASE t = "AHARDWAREBUFFER" BY <1>3 DEF Owned, Handles
<1>4. CASE t = NULL BY <1>4 DEF Owned, NULL, Handles
<1> QED BY <1>1, <1>2, <1>3, <1>4 DEF Types

\* LorieBuffer_lock keeps the type and, whether Android locks or not, counts
\* the buffer as locked.
LEMMA LockKeeps ==
  ASSUME NEW b, BufferOK(b), NEW r \in LorieBuffer_lock(b)
  PROVE  /\ BufferOK(r.buffer) /\ r.buffer.type = b.type
         /\ b.type # NULL => r.buffer.locked
         /\ b.type = NULL \/ b.locked => r.buffer = b
         /\ r.error \in BOOLEAN
         /\ ~b.locked /\ b.type # NULL /\ r.error => r.buffer.lockedData = NULL
<1>1. CASE b.type = NULL \/ b.locked
  <2>1. LorieBuffer_lock(b) = {[buffer |-> b, error |-> TRUE]}
    BY <1>1 DEF LorieBuffer_lock, NULL
  <2>2. r = [buffer |-> b, error |-> TRUE]
    BY <2>1
  <2>3. r.buffer = b /\ r.error = TRUE
    BY <2>2
  <2> QED BY <1>1, <2>3
<1>2. CASE b.type # NULL /\ ~b.locked /\ b.type # "AHARDWAREBUFFER"
  <2>1. r = [buffer |-> [b EXCEPT !.locked = TRUE, !.lockedData = b.type], error |-> FALSE]
    <3>1. b.type \in {"REGULAR", "FD"}
      BY <1>2 DEF BufferOK, Buffers, Types
    <3> QED BY <1>2, <3>1 DEF LorieBuffer_lock
  <2>2. BufferOK(r.buffer) /\ r.buffer.type = b.type /\ r.buffer.locked
    BY <1>2, <2>1 DEF BufferOK, Buffers, Kept, NULL, Types
  <2> QED BY <1>2, <2>1, <2>2
<1>3. CASE b.type = "AHARDWAREBUFFER" /\ ~b.locked
  <2>0. \/ r = [buffer |-> [b EXCEPT !.locked = TRUE, !.lockedData = b.type,
                                     !.owns = @ \cup {"lock"}], error |-> FALSE]
        \/ r = [buffer |-> [b EXCEPT !.locked = TRUE], error |-> TRUE]
    BY <1>3 DEF LorieBuffer_lock, NULL
  <2>a. b \in Buffers /\ b.lockedData = NULL /\ b.owns = Owned(b.type)
    BY <1>3 DEF BufferOK, Kept, NULL
  <2>1. CASE r = [buffer |-> [b EXCEPT !.locked = TRUE, !.lockedData = b.type,
                                       !.owns = @ \cup {"lock"}], error |-> FALSE]
    <3>1. /\ r.buffer \in Buffers /\ r.buffer.type = b.type /\ r.buffer.locked
          /\ r.buffer.lockedData = b.type /\ r.buffer.owns = b.owns \cup {"lock"}
      BY <1>3, <2>1, <2>a DEF Buffers, Types, Handles
    <3> QED BY <1>3, <2>1, <2>a, <3>1 DEF BufferOK, Kept, NULL
  <2>2. CASE r = [buffer |-> [b EXCEPT !.locked = TRUE], error |-> TRUE]
    <3>1. /\ r.buffer \in Buffers /\ r.buffer.type = b.type /\ r.buffer.locked
          /\ r.buffer.lockedData = NULL /\ r.buffer.owns = b.owns
      BY <1>3, <2>2, <2>a DEF Buffers
    <3> QED BY <1>3, <2>2, <2>a, <3>1 DEF BufferOK, Kept, NULL
  <2> QED BY <2>0, <2>1, <2>2
<1> QED BY <1>1, <1>2, <1>3

\* LorieBuffer_unlock leaves an unlocked buffer of the same type.
LEMMA UnlockKeeps ==
  ASSUME NEW b, BufferOK(b)
  PROVE  /\ BufferOK(LorieBuffer_unlock(b)) /\ LorieBuffer_unlock(b).type = b.type
         /\ ~LorieBuffer_unlock(b).locked /\ LorieBuffer_unlock(b).lockedData = NULL
<1>1. CASE ~b.locked
  BY <1>1 DEF LorieBuffer_unlock, BufferOK
<1>2. CASE b.locked
  <2> DEFINE u == [b EXCEPT !.locked = FALSE, !.lockedData = NULL, !.owns = @ \ {"lock"}]
  <2>1. LorieBuffer_unlock(b) = u
    BY <1>2 DEF LorieBuffer_unlock
  <2>2. /\ u \in Buffers /\ u.type = b.type /\ u.locked = FALSE /\ u.lockedData = NULL
        /\ u.owns = b.owns \ {"lock"}
    BY DEF BufferOK, Buffers
  <2>3. u.owns = Owned(u.type)
    <3>1. b.type \in Types \cup {NULL}
      BY DEF BufferOK, Buffers
    <3> QED BY <2>2, <3>1, OwnedHandles DEF BufferOK, Kept
  <2> QED BY <2>1, <2>2, <2>3 DEF BufferOK, Kept, NULL
<1> QED BY <1>1, <1>2 DEF BufferOK, Buffers

\* A new buffer is in order.
LEMMA AllocateOK ==
  ASSUME NEW t \in Types
  PROVE  /\ BufferOK(LorieBuffer_allocate(t)) /\ LorieBuffer_allocate(t).type = t
         /\ LorieBuffer_allocate(t).lockedData = NULL /\ ~LorieBuffer_allocate(t).locked
<1> DEFINE b == LorieBuffer_allocate(t)
<1>1. Owned(t) \subseteq Handles
  BY OwnedHandles
<1>2. /\ NoBuffer \in Buffers /\ NoBuffer.locked = FALSE /\ NoBuffer.lockedData = NULL
  BY DEF NoBuffer, Buffers, NULL
<1>3. /\ b \in Buffers /\ b.type = t /\ b.locked = FALSE /\ b.lockedData = NULL
      /\ b.owns = Owned(t)
  BY <1>1, <1>2 DEF LorieBuffer_allocate, Buffers
<1>4. b.owns = Kept(b)
  BY <1>3 DEF Kept, NULL
<1> QED BY <1>3, <1>4 DEF BufferOK

\* A conversion gives an unlocked buffer of the new type or changes nothing.
LEMMA ConvertKeeps ==
  ASSUME NEW b, BufferOK(b), b.type = "REGULAR", NEW t \in Types,
         NEW c \in LorieBuffer_convert(b, t)
  PROVE  BufferOK(c) /\ c.type \in {"REGULAR", t}
<1>1. CASE c = b
  BY <1>1
<1>2. CASE c # b
  <2> DEFINE d == [b EXCEPT !.type = t, !.owns = (@ \ Owned("REGULAR")) \cup Owned(t),
                            !.locked = FALSE, !.lockedData = NULL]
  <2>1. c = d
    BY <1>2 DEF LorieBuffer_convert
  <2>2. b \in Buffers /\ b.owns = Owned("REGULAR")
    BY DEF BufferOK, Kept, NULL
  <2>3. Owned(t) \subseteq Handles
    BY OwnedHandles
  <2>4. /\ d \in Buffers /\ d.type = t /\ d.locked = FALSE /\ d.lockedData = NULL
        /\ d.owns = Owned(t)
    BY <2>2, <2>3 DEF Buffers
  <2> QED BY <2>1, <2>4 DEF BufferOK, Kept, NULL
<1> QED BY <1>1, <1>2

\* A pixmap with a buffer that is in order is in order once it is locked.
LEMMA LockPixmapKeeps ==
  ASSUME NEW x \in PixmapPrivs, x.live, BufferOK(x.buffer),
         x.buffer.type # NULL \/ PixmapOK(x),
         NEW y \in LockPixmap(x)
  PROVE  /\ PixmapOK(y) /\ y.buffer.type = x.buffer.type /\ y.mem = x.mem
         /\ y.buffer.type # NULL => y.buffer.locked
         /\ x.buffer.locked => y.buffer = x.buffer
<1> PICK r \in LorieBuffer_lock(x.buffer) :
      y = [x EXCEPT !.buffer = r.buffer,
                    !.locked = IF x.buffer.type = NULL THEN @ ELSE r.buffer.lockedData]
  BY DEF LockPixmap
<1>1. /\ BufferOK(r.buffer) /\ r.buffer.type = x.buffer.type
      /\ x.buffer.type # NULL => r.buffer.locked
      /\ x.buffer.type = NULL \/ x.buffer.locked => r.buffer = x.buffer
  BY LockKeeps
<1>2. r.buffer \in Buffers /\ r.buffer.lockedData \in Types \cup {NULL}
  BY <1>1 DEF BufferOK, Buffers
<1>3. CASE x.buffer.type = NULL
  <2>1. /\ y \in PixmapPrivs /\ y.live /\ y.mem = x.mem /\ y.buffer = x.buffer
        /\ y.locked = x.locked
    BY <1>1, <1>2, <1>3 DEF PixmapPrivs
  <2> QED BY <1>3, <2>1 DEF PixmapOK
<1>4. CASE x.buffer.type # NULL
  <2>1. /\ y \in PixmapPrivs /\ y.live /\ y.mem = x.mem /\ y.buffer = r.buffer
        /\ y.locked = r.buffer.lockedData
    BY <1>2, <1>4 DEF PixmapPrivs
  <2> QED BY <1>1, <1>4, <2>1 DEF PixmapOK
<1> QED BY <1>3, <1>4

\* The same with what the driver notes about the access.
LEMMA NoteWasLocked ==
  ASSUME NEW x, PixmapOK(x), NEW w \in BOOLEAN
  PROVE  /\ PixmapOK([x EXCEPT !.wasLocked = w])
         /\ [x EXCEPT !.wasLocked = w].buffer = x.buffer
         /\ [x EXCEPT !.wasLocked = w].mem = x.mem
         /\ [x EXCEPT !.wasLocked = w].locked = x.locked
<1> DEFINE y == [x EXCEPT !.wasLocked = w]
<1>1. /\ y \in PixmapPrivs /\ y.live /\ y.mem = x.mem /\ y.buffer = x.buffer
      /\ y.locked = x.locked
  BY DEF PixmapOK, PixmapPrivs
<1> QED BY <1>1 DEF PixmapOK

\* The buffer is unlocked and the pointer forgotten.
LEMMA DropPointer ==
  ASSUME NEW x, PixmapOK(x)
  PROVE  LET y == [x EXCEPT !.buffer = LorieBuffer_unlock(@), !.locked = NULL, !.wasLocked = FALSE]
         IN  PixmapOK(y) /\ y.buffer.type = x.buffer.type /\ y.mem = x.mem
<1> DEFINE u == LorieBuffer_unlock(x.buffer)
           y == [x EXCEPT !.buffer = LorieBuffer_unlock(@), !.locked = NULL, !.wasLocked = FALSE]
<1>1. BufferOK(u) /\ u.type = x.buffer.type /\ ~u.locked /\ u.lockedData = NULL
  BY UnlockKeeps DEF PixmapOK
<1>2. u \in Buffers
  BY <1>1 DEF BufferOK
<1>3. /\ y \in PixmapPrivs /\ y.live /\ y.mem = x.mem /\ y.buffer = u /\ y.locked = NULL
  BY <1>2 DEF PixmapOK, PixmapPrivs
<1> HIDE DEF u
<1> QED BY <1>1, <1>3 DEF PixmapOK

\* A new pixmap is in order and its buffer counts as locked.
LEMMA NewPixmapOK ==
  ASSUME NEW t \in Types, NEW x \in NewPixmap(t)
  PROVE  PixmapOK(x) /\ x.buffer.type = t
<1> DEFINE b == LorieBuffer_allocate(t)
           y == [Free EXCEPT !.live = TRUE, !.buffer = b]
<1>1. BufferOK(b) /\ b.type = t /\ b \in Buffers /\ t # NULL
  BY AllocateOK DEF BufferOK, Types, NULL
<1>2. y \in PixmapPrivs /\ y.live /\ y.buffer = b
  <2>1. Free \in PixmapPrivs
    BY DEF Free, PixmapPrivs, NoBuffer, Buffers, NULL
  <2> HIDE DEF b
  <2> QED BY <1>1, <2>1 DEF PixmapPrivs
<1>3. x \in LockPixmap(y)
  BY DEF NewPixmap
<1> HIDE DEF y, b
<1> QED BY <1>1, <1>2, <1>3, LockPixmapKeeps


\* UnlockPixmap and LockIfNot keep a pixmap in order, and its type.
LEMMA UnlockPixmapKeeps ==
  ASSUME NEW x, PixmapOK(x)
  PROVE  PixmapOK(UnlockPixmap(x)) /\ UnlockPixmap(x).buffer.type = x.buffer.type
<1>1. CASE x.locked # NULL
  BY <1>1, DropPointer DEF UnlockPixmap
<1>2. CASE x.locked = NULL
  BY <1>2 DEF UnlockPixmap
<1> QED BY <1>1, <1>2

LEMMA LockIfNotKeeps ==
  ASSUME NEW x, PixmapOK(x), NEW z \in LockIfNot(x)
  PROVE  PixmapOK(z) /\ z.buffer.type = x.buffer.type
<1>1. CASE x.locked = NULL /\ x.buffer.type # NULL
  <2>1. PICK y \in LockPixmap(x) : z = [y EXCEPT !.wasLocked = FALSE]
    BY <1>1 DEF LockIfNot
  <2>2. PixmapOK(y) /\ y.buffer.type = x.buffer.type
    BY <1>1, LockPixmapKeeps DEF PixmapOK
  <2> QED BY <2>1, <2>2, NoteWasLocked
<1>2. CASE ~(x.locked = NULL /\ x.buffer.type # NULL)
  BY <1>2 DEF LockIfNot
<1> QED BY <1>1, <1>2

\* A new pixmap of the root window: all pixmaps stay in order, and what they
\* are.
LEMMA SetWindowKeeps ==
  ASSUME NEW f \in [Pixmaps -> PixmapPrivs], \A q \in Pixmaps : f[q].live => PixmapOK(f[q]),
         NEW old \in Pixmaps, NEW new \in Pixmaps, f[old].live, f[new].live,
         NEW g \in lorieSetWindowPixmap(f, old, new)
  PROVE  /\ g \in [Pixmaps -> PixmapPrivs]
         /\ \A q \in Pixmaps : /\ g[q].live = f[q].live
                               /\ g[q].live => PixmapOK(g[q])
                               /\ g[q].buffer.type = f[q].buffer.type
<1> DEFINE h == [f EXCEPT ![old] = UnlockPixmap(@)]
<1>1. PixmapOK(UnlockPixmap(f[old])) /\ UnlockPixmap(f[old]).buffer.type = f[old].buffer.type
  BY UnlockPixmapKeeps
<1>2. UnlockPixmap(f[old]) \in PixmapPrivs /\ UnlockPixmap(f[old]).live
  BY <1>1 DEF PixmapOK
<1>3. /\ h \in [Pixmaps -> PixmapPrivs]
      /\ h[old] = UnlockPixmap(f[old])
      /\ \A q \in Pixmaps : q # old => h[q] = f[q]
  BY <1>2
<1>4. PICK z \in LockIfNot(h[new]) : g = [h EXCEPT ![new] = z]
  BY DEF lorieSetWindowPixmap
<1> HIDE DEF h
<1>5. PixmapOK(h[new]) /\ h[new].buffer.type = f[new].buffer.type
  BY <1>1, <1>3
<1>6. PixmapOK(z) /\ z.buffer.type = f[new].buffer.type
  BY <1>5, LockIfNotKeeps
<1>7. z \in PixmapPrivs /\ z.live
  BY <1>6 DEF PixmapOK
<1>8. /\ g \in [Pixmaps -> PixmapPrivs]
      /\ g[new] = z
      /\ \A q \in Pixmaps : q # new => g[q] = h[q]
  BY <1>3, <1>4, <1>7
<1>9. ASSUME NEW q \in Pixmaps
      PROVE  /\ g[q].live = f[q].live /\ g[q].buffer.type = f[q].buffer.type
             /\ g[q].live => PixmapOK(g[q])
  <2>1. CASE q = new
    BY <2>1, <1>6, <1>7, <1>8
  <2>2. CASE q # new /\ q = old
    BY <2>2, <1>1, <1>2, <1>3, <1>8
  <2>3. CASE q # new /\ q # old
    BY <2>3, <1>3, <1>8
  <2> QED BY <2>1, <2>2, <2>3
<1> QED BY <1>8, <1>9

\* Destroying a pixmap leaves nothing behind.
LEMMA DestroyedLeavesNothing ==
  ASSUME NEW x, PixmapOK(x)
  PROVE  Destroyed(x) = {}
<1> DEFINE b == IF x.locked # NULL THEN LorieBuffer_unlock(x.buffer) ELSE x.buffer
<1>1. BufferOK(b) /\ b.lockedData = NULL
  BY UnlockKeeps DEF PixmapOK
<1>2. b.owns = Owned(b.type)
  BY <1>1 DEF BufferOK, Kept, NULL
<1> QED BY <1>2 DEF Destroyed, LeftBy

----------------------------------------------------------------------------
(* The invariant.                                                          *)

PixmapsInv == pix \in [Pixmaps -> PixmapPrivs] /\ \A p \in Live : PixmapOK(pix[p])

\* While the size of the screen changes the root window still has the old
\* screen pixmap.
RootInv ==
  /\ screenPixmap \in Live /\ rootPixmap \in Live
  /\ pix[screenPixmap].buffer.type = SharedType
  /\ resizing \in {NoPixmap, rootPixmap}
  /\ resizing # NoPixmap => resizing # screenPixmap

AccessInv ==
  /\ access \subseteq Live
  /\ ~aborted => \A p \in access : pix[p].locked # NULL \/ pix[p].mem

FlagsInv ==
  legacyDrawing \in BOOLEAN /\ aborted \in BOOLEAN /\ leaked \subseteq {"refused import"}

PixInv == PixmapsInv /\ RootInv /\ AccessInv /\ FlagsInv /\ AbortsForAndroid

\* The invariant implies the properties.
LEMMA InvImplies ==
  PixInv => PixTypeOK /\ MemoryExact
<1> SUFFICES ASSUME PixInv PROVE PixTypeOK /\ MemoryExact
  OBVIOUS
<1> USE DEF PixInv
<1>1. ASSUME NEW p \in Live
      PROVE  /\ pix[p].buffer.owns \ {"lock"} = Owned(pix[p].buffer.type)
             /\ pix[p].locked # NULL =>
                  /\ pix[p].locked = pix[p].buffer.type
                  /\ pix[p].locked = "AHARDWAREBUFFER" => "lock" \in pix[p].buffer.owns
  <2> DEFINE b == pix[p].buffer
  <2>1. BufferOK(b) /\ pix[p].locked = b.lockedData
    BY DEF PixmapsInv, PixmapOK
  <2>2. "lock" \notin Owned(b.type)
    BY <2>1, OwnedHandles DEF BufferOK, Buffers
  <2> HIDE DEF b
  <2>3. b.owns = Kept(b) /\ b.lockedData \in {NULL, b.type}
    BY <2>1 DEF BufferOK
  <2>4. b.owns \ {"lock"} = Owned(b.type)
    BY <2>2, <2>3 DEF Kept
  <2>5. b.lockedData # NULL =>
          b.lockedData = b.type /\ (b.lockedData = "AHARDWAREBUFFER" => "lock" \in b.owns)
    BY <2>3 DEF Kept
  <2> QED BY <2>1, <2>4, <2>5 DEF b
<1>2. PixTypeOK
  BY <1>1 DEF PixTypeOK, PixmapsInv, RootInv, AccessInv, FlagsInv, Handles
<1>3. MemoryExact
  BY <1>1 DEF MemoryExact, AccessInv, FlagsInv
<1> QED BY <1>2, <1>3


----------------------------------------------------------------------------
(* Every step keeps it.                                                    *)

\* A step that changes one pixmap, which is in order afterwards.
LEMMA PutPixmap ==
  ASSUME PixmapsInv, NEW p \in Pixmaps, NEW x, PixmapOK(x), pix' = [pix EXCEPT ![p] = x]
  PROVE  /\ PixmapsInv'
         /\ Live' = Live \cup {p}
         /\ pix'[p] = x
         /\ \A q \in Pixmaps : q # p => pix'[q] = pix[q]
<1>1. x \in PixmapPrivs /\ x.live
  BY DEF PixmapOK
<1>2. /\ pix' \in [Pixmaps -> PixmapPrivs] /\ pix'[p] = x
      /\ \A q \in Pixmaps : q # p => pix'[q] = pix[q]
  BY <1>1 DEF PixmapsInv
<1>3. Live' = Live \cup {p}
  BY <1>1, <1>2 DEF Live
<1>4. \A q \in Live' : PixmapOK(pix'[q])
  BY <1>2, <1>3 DEF PixmapsInv, Live
<1> QED BY <1>2, <1>3, <1>4 DEF PixmapsInv

\* A new pixmap beside those there are.
LEMMA AddPixmap ==
  ASSUME PixInv, Idle, NEW p \in Pixmaps, p \notin Live, NEW x, PixmapOK(x),
         pix' = [pix EXCEPT ![p] = x],
         UNCHANGED <<screenPixmap, rootPixmap, resizing, access, legacyDrawing, leaked, aborted>>
  PROVE  PixInv'
<1>1. /\ PixmapsInv' /\ Live' = Live \cup {p}
      /\ \A q \in Pixmaps : q # p => pix'[q] = pix[q]
  BY PutPixmap DEF PixInv
<1>2. \A q \in Live : q \in Pixmaps /\ pix'[q] = pix[q]
  BY <1>1 DEF Live
<1>3. RootInv'
  BY <1>1, <1>2 DEF PixInv, RootInv, SharedType
<1>4. AccessInv'
  BY <1>1 DEF PixInv, AccessInv, Idle
<1> QED BY <1>1, <1>3, <1>4 DEF PixInv, FlagsInv, AbortsForAndroid, Idle

LEMMA CreateStep ==
  ASSUME PixInv, NEW p \in Pixmaps, lorieCreatePixmap(p)
  PROVE  PixInv'
<1>1. PICK x \in NewPixmap("REGULAR") : pix' = [pix EXCEPT ![p] = x]
  BY DEF lorieCreatePixmap
<1>2. PixmapOK(x)
  BY NewPixmapOK DEF Types
<1> QED BY <1>1, <1>2, AddPixmap DEF lorieCreatePixmap

LEMMA ScratchStep ==
  ASSUME PixInv, NEW p \in Pixmaps, ScratchHeader(p)
  PROVE  PixInv'
<1> DEFINE x == [Free EXCEPT !.live = TRUE, !.mem = TRUE]
<1>1. Free \in PixmapPrivs /\ NoBuffer \in Buffers
  BY DEF Free, PixmapPrivs, NoBuffer, Buffers, NULL
<1>2. /\ x \in PixmapPrivs /\ x.live /\ x.mem /\ x.buffer = NoBuffer /\ x.locked = NULL
  BY <1>1 DEF Free, PixmapPrivs
<1>3. BufferOK(NoBuffer)
  BY <1>1 DEF BufferOK, NoBuffer, Kept, Owned, NULL
<1>4. NoBuffer.lockedData = NULL /\ ~NoBuffer.locked
  BY DEF NoBuffer
<1>5. PixmapOK(x)
  BY <1>2, <1>3, <1>4 DEF PixmapOK
<1> HIDE DEF x
<1> QED BY <1>5, AddPixmap DEF ScratchHeader, x

LEMMA ImportStep ==
  ASSUME PixInv, NEW p \in Pixmaps, loriePixmapFromFds(p)
  PROVE  PixInv'
<1>1. CASE leaked' = leaked \cup {"refused import"} /\ UNCHANGED pix
  BY <1>1 DEF loriePixmapFromFds, PixInv, PixmapsInv, RootInv, AccessInv, FlagsInv,
              AbortsForAndroid, Live, SharedType
<1>2. ASSUME NEW type \in {"FD", "AHARDWAREBUFFER"}, UNCHANGED leaked,
             pix' = [pix EXCEPT ![p] = [Free EXCEPT !.live = TRUE, !.imported = TRUE,
                                                    !.buffer = LorieBuffer_allocate(type)]]
      PROVE  PixInv'
  <2> DEFINE b == LorieBuffer_allocate(type)
             x == [Free EXCEPT !.live = TRUE, !.imported = TRUE, !.buffer = b]
  <2>1. BufferOK(b) /\ b.type = type /\ b.lockedData = NULL /\ ~b.locked /\ type # NULL
    BY AllocateOK DEF Types, NULL
  <2>2. Free \in PixmapPrivs
    BY DEF Free, PixmapPrivs, NoBuffer, Buffers, NULL
  <2>3. b \in Buffers
    BY <2>1 DEF BufferOK
  <2>4. pix' = [pix EXCEPT ![p] = x]
    BY <1>2
  <2> HIDE DEF b
  <2>5. x \in PixmapPrivs /\ x.live /\ x.buffer = b /\ x.locked = NULL
    BY <2>2, <2>3 DEF Free, PixmapPrivs
  <2>6. PixmapOK(x)
    BY <2>1, <2>5 DEF PixmapOK
  <2> HIDE DEF x
  <2> QED BY <1>2, <2>4, <2>6, AddPixmap DEF loriePixmapFromFds
<1> QED BY <1>1, <1>2 DEF loriePixmapFromFds

LEMMA DestroyStep ==
  ASSUME PixInv, NEW p \in Pixmaps, lorieExaDestroyPixmap(p)
  PROVE  PixInv'
<1>1. Free \in PixmapPrivs /\ ~Free.live
  BY DEF Free, PixmapPrivs, NoBuffer, Buffers, NULL
<1>2. /\ pix' \in [Pixmaps -> PixmapPrivs] /\ pix'[p] = Free
      /\ \A q \in Pixmaps : q # p => pix'[q] = pix[q]
  BY <1>1 DEF lorieExaDestroyPixmap, PixInv, PixmapsInv
<1>3. Live' = Live \ {p}
  BY <1>1, <1>2 DEF Live
<1>4. \A q \in Live' : q \in Live /\ pix'[q] = pix[q]
  BY <1>2, <1>3 DEF Live
<1>5. PixmapsInv'
  BY <1>2, <1>4 DEF PixInv, PixmapsInv
<1>6. leaked' = leaked
  BY DestroyedLeavesNothing DEF lorieExaDestroyPixmap, PixInv, PixmapsInv
<1>7. RootInv'
  BY <1>3, <1>4 DEF lorieExaDestroyPixmap, PixInv, RootInv, SharedType
<1>8. AccessInv' /\ FlagsInv' /\ AbortsForAndroid'
  BY <1>6 DEF lorieExaDestroyPixmap, PixInv, AccessInv, FlagsInv, AbortsForAndroid, Idle
<1> QED BY <1>5, <1>7, <1>8 DEF PixInv


LEMMA PrepareStep ==
  ASSUME PixInv, NEW p \in Pixmaps, loriePrepareAccess(p)
  PROVE  PixInv'
<1>0. p \in Live /\ PixmapOK(pix[p]) /\ pix[p] \in PixmapPrivs /\ pix[p].live
  BY DEF loriePrepareAccess, PixInv, PixmapsInv, Live
<1>1. ASSUME NEW x, PixmapOK(x), pix' = [pix EXCEPT ![p] = x],
             x.buffer.type = pix[p].buffer.type,
             ~aborted' => x.locked # NULL \/ x.mem,
             aborted' \in BOOLEAN, aborted' => LockFailed(x.buffer)
      PROVE  PixInv'
  <2>1. /\ PixmapsInv' /\ Live' = Live /\ pix'[p] = x
        /\ \A q \in Pixmaps : q # p => pix'[q] = pix[q]
    <3>1. PixmapsInv
      BY DEF PixInv
    <3>2. /\ PixmapsInv' /\ Live' = Live \cup {p} /\ pix'[p] = x
          /\ \A q \in Pixmaps : q # p => pix'[q] = pix[q]
      BY <1>1, <3>1, PutPixmap
    <3>3. Live' = Live
      BY <1>0, <3>2
    <3> QED BY <3>2, <3>3
  <2>2. RootInv'
    BY <1>1, <2>1 DEF loriePrepareAccess, PixInv, RootInv, SharedType, Live
  <2>3. AccessInv'
    BY <1>0, <1>1, <2>1 DEF loriePrepareAccess, PixInv, AccessInv, Live
  <2>4. FlagsInv' /\ AbortsForAndroid'
    BY <1>0, <1>1, <2>1 DEF loriePrepareAccess, PixInv, FlagsInv, AbortsForAndroid
  <2> QED BY <2>1, <2>2, <2>3, <2>4 DEF PixInv
<1>2. CASE (pix[p].locked # NULL \/ pix[p].mem) /\ UNCHANGED aborted
           /\ pix' = [pix EXCEPT ![p].wasLocked = TRUE]
  <2> DEFINE x == [pix[p] EXCEPT !.wasLocked = TRUE]
  <2>1. /\ PixmapOK(x) /\ x.buffer = pix[p].buffer /\ x.mem = pix[p].mem
        /\ x.locked = pix[p].locked
    BY <1>0, NoteWasLocked
  <2>2. pix' = [pix EXCEPT ![p] = x] /\ aborted' = FALSE
    BY <1>2 DEF loriePrepareAccess, PixInv, FlagsInv
  <2> HIDE DEF x
  <2> QED BY <1>1, <1>2, <2>1, <2>2
<1>3. ASSUME pix[p].locked = NULL, ~pix[p].mem, NEW y \in LockPixmap(pix[p]),
             pix' = [pix EXCEPT ![p] = [y EXCEPT !.wasLocked = FALSE]],
             aborted' = (pix[p].buffer.locked \/ y.locked = NULL)
      PROVE  PixInv'
  <2> DEFINE x == [y EXCEPT !.wasLocked = FALSE]
  <2>1. /\ BufferOK(pix[p].buffer) /\ pix[p].buffer.lockedData = NULL
        /\ pix[p].buffer.type # NULL /\ pix[p].buffer.locked \in BOOLEAN
    BY <1>0, <1>3 DEF PixmapOK, BufferOK, Buffers
  <2>2. /\ PixmapOK(y) /\ y.buffer.type = pix[p].buffer.type /\ y.buffer.locked
        /\ pix[p].buffer.locked => y.buffer = pix[p].buffer
    BY <1>0, <1>3, <2>1, LockPixmapKeeps
  <2>3. PixmapOK(x) /\ x.buffer = y.buffer /\ x.locked = y.locked /\ x.mem = y.mem
    BY <2>2, NoteWasLocked
  <2>4. y.locked = y.buffer.lockedData
    BY <2>2 DEF PixmapOK
  <2>5. pix' = [pix EXCEPT ![p] = x]
    BY <1>3
  <2> HIDE DEF x
  <2>6. aborted' => LockFailed(x.buffer)
    BY <1>3, <2>1, <2>2, <2>3, <2>4 DEF LockFailed
  <2>7. ~aborted' => x.locked # NULL
    BY <1>3, <2>3
  <2>8. aborted' \in BOOLEAN
    BY <1>3, <2>1
  <2> QED BY <1>1, <2>2, <2>3, <2>5, <2>6, <2>7, <2>8
<1> QED BY <1>2, <1>3 DEF loriePrepareAccess

LEMMA FinishStep ==
  ASSUME PixInv, NEW p \in Pixmaps, lorieFinishAccess(p)
  PROVE  PixInv'
<1>0. p \in Live /\ PixmapOK(pix[p])
  BY DEF lorieFinishAccess, PixInv, PixmapsInv, AccessInv
<1> DEFINE x == Finished(pix[p])
<1>1. PixmapOK(x) /\ x.buffer.type = pix[p].buffer.type
  BY <1>0, DropPointer DEF Finished
<1>2. pix' = [pix EXCEPT ![p] = x]
  BY DEF lorieFinishAccess
<1> HIDE DEF x
<1>3. /\ PixmapsInv' /\ Live' = Live /\ pix'[p] = x
      /\ \A q \in Pixmaps : q # p => pix'[q] = pix[q]
  BY <1>0, <1>1, <1>2, PutPixmap DEF PixInv, Live
<1>4. RootInv'
  BY <1>1, <1>3 DEF lorieFinishAccess, PixInv, RootInv, SharedType, Live
<1>5. AccessInv' /\ FlagsInv' /\ AbortsForAndroid'
  BY <1>3 DEF lorieFinishAccess, PixInv, AccessInv, FlagsInv, AbortsForAndroid, Live
<1> QED BY <1>3, <1>4, <1>5 DEF PixInv

LEMMA RedrawStep ==
  ASSUME PixInv, lorieRedraw
  PROVE  PixInv'
<1> DEFINE p == rootPixmap
           u == LorieBuffer_unlock(pix[p].buffer)
<1>0. p \in Live /\ p \in Pixmaps /\ PixmapOK(pix[p]) /\ pix[p].locked # NULL
  BY DEF lorieRedraw, PixInv, RootInv, PixmapsInv, Live
<1>1. /\ BufferOK(pix[p].buffer) /\ pix[p].buffer.type # NULL
      /\ pix[p] \in PixmapPrivs /\ pix[p].live
  BY <1>0 DEF PixmapOK, BufferOK
<1>2. BufferOK(u) /\ u.type = pix[p].buffer.type /\ ~u.locked
  BY <1>1, UnlockKeeps
<1>3. PICK r \in LorieBuffer_lock(u) :
        /\ pix' = [pix EXCEPT ![p].buffer = r.buffer, ![p].locked = r.buffer.lockedData]
        /\ aborted' = r.error
  BY DEF lorieRedraw
<1> HIDE DEF u
<1>4. /\ BufferOK(r.buffer) /\ r.buffer.type = pix[p].buffer.type /\ r.buffer.locked
      /\ r.error \in BOOLEAN
      /\ r.error => r.buffer.lockedData = NULL
  BY <1>1, <1>2, LockKeeps
<1> DEFINE x == [pix[p] EXCEPT !.buffer = r.buffer, !.locked = r.buffer.lockedData]
<1>5. r.buffer \in Buffers /\ r.buffer.lockedData \in Types \cup {NULL}
  BY <1>4 DEF BufferOK, Buffers
<1>6. /\ x \in PixmapPrivs /\ x.live /\ x.buffer = r.buffer
      /\ x.locked = r.buffer.lockedData
  BY <1>1, <1>5 DEF PixmapPrivs
<1>7. pix' = [pix EXCEPT ![p] = x]
  BY <1>0, <1>3 DEF PixInv, PixmapsInv
<1> HIDE DEF x
<1>8. PixmapOK(x)
  BY <1>1, <1>4, <1>6 DEF PixmapOK
<1>9. /\ PixmapsInv' /\ Live' = Live /\ pix'[p] = x
      /\ \A q \in Pixmaps : q # p => pix'[q] = pix[q]
  BY <1>0, <1>7, <1>8, PutPixmap DEF PixInv, Live
<1>10. RootInv'
  BY <1>4, <1>6, <1>9 DEF lorieRedraw, PixInv, RootInv, SharedType, Live
<1>11. AccessInv' /\ FlagsInv'
  <2>1. access' = {} /\ UNCHANGED <<legacyDrawing, leaked>>
    BY DEF lorieRedraw, Idle
  <2>2. AccessInv'
    BY <2>1 DEF AccessInv
  <2>3. aborted' \in BOOLEAN
    <3>1. aborted' = r.error
      BY <1>3
    <3>2. r.error \in BOOLEAN
      BY <1>4
    <3> QED BY <3>1, <3>2, Zenon
  <2>4. FlagsInv'
    BY <2>1, <2>3 DEF PixInv, FlagsInv
  <2> QED BY <2>2, <2>4
<1>12. AbortsForAndroid'
  BY <1>0, <1>3, <1>4, <1>6, <1>9 DEF AbortsForAndroid, LockFailed
<1> QED BY <1>9, <1>10, <1>11, <1>12 DEF PixInv


\* Steps that give the root window another pixmap of those in f.
LEMMA WindowStep ==
  ASSUME PixInv, Idle, NEW f \in [Pixmaps -> PixmapPrivs],
         \A q \in Pixmaps : /\ f[q].live = pix[q].live
                            /\ f[q].live => PixmapOK(f[q])
                            /\ q = screenPixmap => f[q].buffer.type = pix[q].buffer.type,
         NEW new \in Live, pix' \in lorieSetWindowPixmap(f, rootPixmap, new), rootPixmap' = new,
         UNCHANGED <<screenPixmap, resizing, access, legacyDrawing, leaked, aborted>>
  PROVE  PixInv'
<1>1. /\ rootPixmap \in Pixmaps /\ new \in Pixmaps /\ screenPixmap \in Pixmaps
      /\ pix[rootPixmap].live /\ pix[new].live /\ pix[screenPixmap].live
  BY DEF PixInv, RootInv, Live
<1>2. f[rootPixmap].live /\ f[new].live
  BY <1>1
<1>3. /\ pix' \in [Pixmaps -> PixmapPrivs]
      /\ \A q \in Pixmaps : /\ pix'[q].live = f[q].live
                            /\ pix'[q].live => PixmapOK(pix'[q])
                            /\ pix'[q].buffer.type = f[q].buffer.type
  BY <1>1, <1>2, SetWindowKeeps
<1>4. Live' = Live
  BY <1>3 DEF Live
<1>5. PixmapsInv'
  BY <1>3 DEF PixmapsInv, Live
<1>6. RootInv'
  BY <1>1, <1>3, <1>4 DEF PixInv, RootInv, SharedType, Idle
<1>7. AccessInv' /\ FlagsInv' /\ AbortsForAndroid'
  BY DEF PixInv, AccessInv, FlagsInv, AbortsForAndroid, Idle
<1> QED BY <1>5, <1>6, <1>7 DEF PixInv

LEMMA FlipStep ==
  ASSUME PixInv, NEW p \in Pixmaps, loriePresentFlip(p)
  PROVE  PixInv'
<1>1. /\ p \in Live /\ p # screenPixmap /\ PixmapOK(pix[p]) /\ pix[p].buffer.type # NULL
      /\ pix[p] \in PixmapPrivs /\ pix[p].live /\ BufferOK(pix[p].buffer)
  BY DEF loriePresentFlip, PixInv, PixmapsInv, PixmapOK, Live
<1>2. PICK x \in Flippable(pix[p]) :
        pix' \in lorieSetWindowPixmap([pix EXCEPT ![p] = x], rootPixmap, p)
  BY DEF loriePresentFlip
<1>3. PixmapOK(x)
  <2>1. CASE pix[p].buffer.type = "REGULAR"
    <3>1. x \in Converted(pix[p])
      BY <1>2, <2>1 DEF Flippable
    <3>2. PICK b \in LorieBuffer_convert(pix[p].buffer, SharedType) :
            b.type # "REGULAR" /\ x \in LockPixmap([pix[p] EXCEPT !.buffer = b])
      BY <3>1 DEF Converted
    <3>3. SharedType \in {"FD", "AHARDWAREBUFFER"}
      BY DEF SharedType
    <3>4. BufferOK(b) /\ b.type # NULL /\ b \in Buffers
      BY <1>1, <2>1, <3>2, <3>3, ConvertKeeps DEF Types, NULL, BufferOK
    <3> DEFINE y == [pix[p] EXCEPT !.buffer = b]
    <3>5. y \in PixmapPrivs /\ y.live /\ y.buffer = b
      BY <1>1, <3>4 DEF PixmapPrivs
    <3>6. x \in LockPixmap(y)
      BY <3>2
    <3> HIDE DEF y
    <3> QED BY <3>4, <3>5, <3>6, LockPixmapKeeps
  <2>2. CASE pix[p].buffer.type # "REGULAR"
    BY <1>1, <1>2, <2>2 DEF Flippable
  <2> QED BY <2>1, <2>2
<1>4. x \in PixmapPrivs /\ x.live
  BY <1>3 DEF PixmapOK
<1> DEFINE f == [pix EXCEPT ![p] = x]
<1>5. /\ f \in [Pixmaps -> PixmapPrivs] /\ f[p] = x
      /\ \A q \in Pixmaps : q # p => f[q] = pix[q]
  BY <1>4 DEF PixInv, PixmapsInv
<1> HIDE DEF f
<1>6. \A q \in Pixmaps : /\ f[q].live = pix[q].live
                         /\ f[q].live => PixmapOK(f[q])
                         /\ q = screenPixmap => f[q].buffer.type = pix[q].buffer.type
  <2>1. \A q \in Pixmaps : pix[q].live => PixmapOK(pix[q])
    BY DEF PixInv, PixmapsInv, Live
  <2> SUFFICES ASSUME NEW q \in Pixmaps
               PROVE  /\ f[q].live = pix[q].live
                      /\ f[q].live => PixmapOK(f[q])
                      /\ q = screenPixmap => f[q].buffer.type = pix[q].buffer.type
    OBVIOUS
  <2>2. CASE q = p
    <3>1. pix[p].live = TRUE /\ x.live = TRUE
      BY <1>1, <1>4 DEF PixmapPrivs
    <3> QED BY <1>1, <1>3, <1>5, <2>2, <3>1
  <2>3. CASE q # p
    BY <1>5, <2>1, <2>3
  <2> QED BY <2>2, <2>3
<1>7. pix' \in lorieSetWindowPixmap(f, rootPixmap, p)
  BY <1>2 DEF f
<1> QED BY <1>1, <1>5, <1>6, <1>7, WindowStep DEF loriePresentFlip

LEMMA UnflipStep ==
  ASSUME PixInv, Unflip
  PROVE  PixInv'
<1>1. /\ pix \in [Pixmaps -> PixmapPrivs] /\ screenPixmap \in Live
      /\ \A q \in Pixmaps : pix[q].live => PixmapOK(pix[q])
  BY DEF PixInv, PixmapsInv, RootInv, Live
<1> QED BY <1>1, WindowStep DEF Unflip

LEMMA SetSizeStep ==
  ASSUME PixInv, NEW p \in Pixmaps, lorieRRScreenSetSize(p)
  PROVE  PixInv'
<1>1. PICK x \in NewPixmap(SharedType) : pix' = [pix EXCEPT ![p] = x]
  BY DEF lorieRRScreenSetSize
<1>2. PixmapOK(x) /\ x.buffer.type = SharedType
  BY NewPixmapOK DEF SharedType, Types
<1>3. /\ PixmapsInv' /\ Live' = Live \cup {p} /\ pix'[p] = x
      /\ \A q \in Pixmaps : q # p => pix'[q] = pix[q]
  BY <1>1, <1>2, PutPixmap DEF PixInv
<1>4. RootInv'
  BY <1>2, <1>3 DEF lorieRRScreenSetSize, PixInv, RootInv, SharedType
<1>5. AccessInv' /\ FlagsInv' /\ AbortsForAndroid'
  BY <1>3 DEF lorieRRScreenSetSize, Idle, PixInv, AccessInv, FlagsInv, AbortsForAndroid
<1> QED BY <1>3, <1>4, <1>5 DEF PixInv

LEMMA ReplaceStep ==
  ASSUME PixInv, ReplaceOldPixmap
  PROVE  PixInv'
<1>1. /\ resizing = rootPixmap /\ resizing # screenPixmap
      /\ resizing \in Pixmaps /\ screenPixmap \in Pixmaps
      /\ pix[resizing].live /\ pix[screenPixmap].live
      /\ pix \in [Pixmaps -> PixmapPrivs]
      /\ \A q \in Pixmaps : pix[q].live => PixmapOK(pix[q])
  BY DEF ReplaceOldPixmap, PixInv, RootInv, PixmapsInv, Live
<1>2. PICK g \in lorieSetWindowPixmap(pix, resizing, screenPixmap) :
        /\ pix' = [g EXCEPT ![resizing] = Free]
        /\ leaked' = leaked \cup Destroyed(g[resizing])
  BY DEF ReplaceOldPixmap
<1>3. /\ g \in [Pixmaps -> PixmapPrivs]
      /\ \A q \in Pixmaps : /\ g[q].live = pix[q].live
                            /\ g[q].live => PixmapOK(g[q])
                            /\ g[q].buffer.type = pix[q].buffer.type
  BY <1>1, SetWindowKeeps
<1>4. Free \in PixmapPrivs /\ ~Free.live
  BY DEF Free, PixmapPrivs, NoBuffer, Buffers, NULL
<1>5. /\ pix' \in [Pixmaps -> PixmapPrivs] /\ pix'[resizing] = Free
      /\ \A q \in Pixmaps : q # resizing => pix'[q] = g[q]
  BY <1>1, <1>2, <1>3, <1>4
<1>6. PixmapsInv'
  BY <1>3, <1>4, <1>5 DEF PixmapsInv, Live
<1>7. leaked' = leaked
  BY <1>1, <1>2, <1>3, DestroyedLeavesNothing
<1>8. RootInv'
  <2>1. screenPixmap' = screenPixmap /\ rootPixmap' = screenPixmap /\ resizing' = NoPixmap
        /\ legacyDrawing' = legacyDrawing
    BY DEF ReplaceOldPixmap
  <2>2. screenPixmap \in Live'
    BY <1>1, <1>3, <1>5 DEF Live
  <2>3. pix'[screenPixmap].buffer.type = SharedType
    BY <1>1, <1>3, <1>5 DEF PixInv, RootInv
  <2> QED BY <2>1, <2>2, <2>3 DEF RootInv, SharedType
<1>9. AccessInv' /\ FlagsInv' /\ AbortsForAndroid'
  BY <1>7 DEF ReplaceOldPixmap, PixInv, AccessInv, FlagsInv, AbortsForAndroid
<1> QED BY <1>6, <1>8, <1>9 DEF PixInv

LEMMA InitOK == PixInit => PixInv
<1> SUFFICES ASSUME PixInit PROVE PixInv
  OBVIOUS
<1>1. PICK p \in Pixmaps :
        /\ legacyDrawing \in BOOLEAN
        /\ pix \in {[[q \in Pixmaps |-> Free] EXCEPT ![p] = x] : x \in NewPixmap(SharedType)}
        /\ screenPixmap = p /\ rootPixmap = p
        /\ resizing = NoPixmap /\ access = {} /\ leaked = {} /\ aborted = FALSE
  BY DEF PixInit
<1>2. PICK x \in NewPixmap(SharedType) : pix = [[q \in Pixmaps |-> Free] EXCEPT ![p] = x]
  BY <1>1
<1>3. PixmapOK(x) /\ x.buffer.type = SharedType /\ x \in PixmapPrivs /\ x.live
  BY NewPixmapOK DEF SharedType, Types, PixmapOK
<1>4. Free \in PixmapPrivs /\ ~Free.live
  BY DEF Free, PixmapPrivs, NoBuffer, Buffers, NULL
<1>5. /\ pix \in [Pixmaps -> PixmapPrivs] /\ pix[p] = x
      /\ \A q \in Pixmaps : q # p => pix[q] = Free
  BY <1>2, <1>3, <1>4
<1>6. Live = {p}
  BY <1>3, <1>4, <1>5 DEF Live
<1>7. PixmapsInv
  BY <1>3, <1>5, <1>6 DEF PixmapsInv
<1> QED BY <1>1, <1>3, <1>5, <1>6, <1>7
        DEF PixInv, RootInv, AccessInv, FlagsInv, AbortsForAndroid

LEMMA NextOK == PixInv /\ [PixNext]_pixVars => PixInv'
<1> SUFFICES ASSUME PixInv, [PixNext]_pixVars PROVE PixInv'
  OBVIOUS
<1>1. CASE PixNext
  BY <1>1, CreateStep, ScratchStep, ImportStep, DestroyStep, PrepareStep, FinishStep,
     FlipStep, SetSizeStep, RedrawStep, UnflipStep, ReplaceStep DEF PixNext
<1>2. CASE UNCHANGED pixVars
  BY <1>2 DEF pixVars, PixInv, PixmapsInv, RootInv, AccessInv, FlagsInv, AbortsForAndroid,
              Live, SharedType
<1> QED BY <1>1, <1>2

----------------------------------------------------------------------------
(* Theorems.                                                               *)

\* The invariant holds in every behaviour of the driver.
THEOREM Invariance == PixSpec => []PixInv
BY InitOK, NextOK, PTL DEF PixSpec

\* The types of PixmapAccess, for any pixmaps.
THEOREM TypeCorrect == PixSpec => []PixTypeOK
BY Invariance, InvImplies, PTL

\* The driver never draws to memory that a conversion has freed or to a
\* hardware buffer that is not locked (loriePrepareAccess, loriePresentFlip),
\* and a buffer leaves nothing behind, for any number of pixmaps.
THEOREM MemorySafe == PixSpec => []MemoryExact
BY Invariance, InvImplies, PTL

\* The X server only gives up when Android does not lock a buffer
\* (LorieBuffer_lock), for any number of pixmaps.
THEOREM OnlyAndroidAborts == PixSpec => []AbortsForAndroid
<1>1. PixInv => AbortsForAndroid
  BY DEF PixInv
<1> QED BY <1>1, Invariance, PTL

===============================================================================
