# TLA+ models of termux-x11-extra

Termux:X11 is an X server for Android.  The X server (`Xlorie`, a patched
xorg-server) runs in a Termux process started by `CmdEntryPoint`; an Android
activity in another process shows its screen and feeds it input.  The two share
a socket, a memory-mapped `struct lorie_shared_server_state` and graphics
buffers.  This directory models the parts of that system whose correctness
depends on the order in which threads, processes, messages and failures
interleave.  Paths below are relative to `src/app/src/main/`.

## 1. Inventory

| component | code | state it keeps | operations | behaviour that is hard | what makes it correct |
|---|---|---|---|---|---|
| Shared lock | `cpp/lorie/lorie.h:40-90` | a process-shared recursive mutex and `lockingPid` per lock | `lorie_mutex_lock`, `lorie_mutex_unlock` | a process dies or disconnects with the lock; the peer reinitialises the mutex | exclusion; recovery after a death; no theft from a live, connected holder |
| Renderer | `cpp/lorie/renderer.c` | `state`, `win`, `sfc`, pending handovers, three buffer lists, the condition variable proxy | handovers from the GUI thread, the thread loop, a frame, the proxy thread | two condition variables, signals without the lock, `munmap` under a waiter, buffers freed while drawn, failing EGL | handovers complete when they return, no use after unmap or free, requested frames drawn |
| Screen output | `cpp/lorie/InitOutput.c` | the root pixmap, damage, the cursor, the flags of the shared state | drawing access, `lorieRedraw`, cursor functions, RandR resize, Present | flags set and cleared by two processes without a common lock | no change is lost; the display converges |
| Connection, X server side | `cpp/lorie/cmdentrypoint.c` | `conn_fd`, `registeredBuffers`, the work queue | `addFd`, `handleLorieEvents`, register and unregister buffers, send functions | main, input and binder thread share them; old and new sockets overlap | the peer has exactly the registered buffers; events arrive as sent |
| Connection, activity side | `cpp/lorie/activity.c`, `MainActivity.java` | `conn_fd`, the looper callback | `connect_`, `xcallback`, send functions, `tryConnect`, `requestConnection` | hang-ups, restarts of either side, retries of the bootstrap | reconnects after any death; one live socket |
| Buffers | `cpp/lorie/buffer.c` | reference counts, list links, EGL images | allocate, convert, lock, send, receive, attach, lists | ownership crosses processes and threads | every reference is released exactly once |
| Clipboard | `cpp/lorie/clipboard.c`, `LorieView.java` | selection owner, cached text, pending conversion requests, time stamps | announce, request, data, conversion, selection callbacks | answers come later and from another process; clients vanish; reconnections | every request is answered, with text that is not older than the last announcement |
| Keyboard | `cpp/lorie/InputXKB.c` | spare keycodes in the order of their use, the key symbol each keycode was pressed for | key symbol events, allocation and reuse of keycodes, fake modifiers | held, locked and faked modifiers at once; clients that change the keymap | a character comes out as itself; nothing stays pressed; keycodes last |
| Input devices | `cpp/lorie/InitInput.c`, `cmdentrypoint.c:232-379` | devices, the buttons of the last stylus event | device control, stylus, mouse and touch events | devices come and go while buttons are down; one `buttons_prev` for three devices | buttons and touches are what the user holds |
| Shared memory | `cpp/lorie/shm/shmem.c`, `xshmfence.c` | a table of segments, a descriptor server thread, key symlinks | `shmget`, `shmat`, `shmdt`, `shmctl`, remote lookup | several processes, ids that wrap around, a lock held across a remote call | an id names one segment; deletion only after detach |
| Bootstrap | `CmdEntryPoint.java`, `Loader.java`, `cmdentrypoint.c:528-573` | the binder, the listening port | broadcast, `listenForConnections`, `requestConnection` | lost broadcasts, several servers | an activity finds a running server |
| View | `LorieView.java` | surface, IME connection, clipboard time stamps | surface callbacks, key release workaround | timers against events | surfaces reach the renderer before they die |
| Touch gestures | `input/*Detector.java`, `input/TouchInputHandler.java`, `input/InputEventSender.java` | finger positions, pending long press, held button | touch events, timers, strategy switches | fingers and timers in any order | every press is released; one meaning per gesture |
| Virtual keys | `input/VirtualKeyHandler.java`, mapper activities | pressed keys, layout | press, slide, release, edit | several fingers on several keys | as above |
| Mapper commands | `mapper/*.java` | undo and redo stacks | execute, undo, redo | long sequences | undo restores the earlier layout |
| Gamepad | `input/GamepadInputHandler.java`, `ipc/GamepadIpc.java` | clients, last state | datagram protocol | lost and reordered datagrams, clients that vanish | clients see the last state |
| Extra keys | `com/termux/shared/termux/extrakeys/*` | active and locked modifiers, repeat timer | touch, long press, popup, repeat | timer thread against main thread | modifiers are read once, locked ones stay |
| Preferences, helpers, build | `LoriePreferences.java`, `utils/*`, build files, patches | stored values | user interface | none of their own | not modelled |

How they interact: the activity obtains a socket through a binder call
(`getXConnection`); `addFd` then runs on the X server's main thread and sends
the descriptor of the shared state and of every buffer through the socket;
`xcallback` on the activity's main thread hands them to the renderer thread,
which waits for it on a condition variable.  Afterwards drawing is coordinated
through flags, two process-shared locks and a process-shared condition variable
inside the shared state; input and clipboard events go through the socket.

## 2. Modules

| module | models | checked by | proofs |
|---|---|---|---|
| `SharedLock` | the lock functions step by step, in two processes that start, connect, hang up and die | `MCSharedLock`, `MCSharedLockRestart` | `SharedLockProofs` |
| `Renderer` | the GUI thread's handovers, the renderer thread, the condition variable proxy, and what the X server does to the shared state | `MCRenderer`, `MCRendererLive`, `MCRendererStart`, `MCRendererStale` | `RendererProofs` |
| `FrameFlow` | how drawing, cursor and resizing reach the display through the flags | `MCFrameFlow`, `MCFrameFlowResize` | `FrameFlowProofs` |
| `ClipboardService` | what pasting promises, without cache, queues and sockets | as a property of `MCClipboard` | |
| `Clipboard` | the clipboard on both sides of the socket, its clients, restarts of the activity | `MCClipboard`, `MCClipboardStale` | `ClipboardProofs` |
| `Connection` | the three threads of the X server and the activity as connections come and go, the root pixmap's buffer and the size of the screen | `MCConnection` | `ConnectionProofs` |
| `Shmem` | System V shared memory between processes | `MCParts` | `ShmemProofs` |
| `Keysym` | typing characters: keycodes, spare keycodes and fake modifiers | `MCParts` | `InputProofs` |
| `PixmapAccess` | pixmaps, their buffers and the pointers the driver keeps | `MCParts` | `PixmapAccessProofs` |
| `Pointer` | pens, mouse buttons and fingers from the activity to the X server's devices | `MCParts` | `InputProofs` |

A definition named `XMutant` is `X` with a plausible bug; no specification uses
it.  It shows that the property it is listed with in `PROJECT.json` notices.

### SharedLock

`mutex` is the pthread mutex: its owner and recursion depth.  `lockingPid` is
the field of the same name.  `pc[p]` is the position of the one thread of
process `p` that takes the lock: the X server's main thread in
`loriePrepareAccess` .. `lorieFinishAccess`, the activity's renderer thread in
`rendererRedrawLocked`.  One action is one access to shared memory or one
system call: `pthread_mutex_timedlock` (which acquires or times out),
the test `*lockingPid == getpid() || lorieConnectionAlive()`, the
reinitialisation, the store of `lockingPid`, and in the unlock the store of 0
and `pthread_mutex_unlock`.  A timeout needs no waiting: the deadline is
computed from `CLOCK_MONOTONIC` and compared with `CLOCK_REALTIME`.

`lorieConnectionAlive` is what makes the lock hard, so the socket's life is in
the module: `getXConnection` (`tryConnect`) queues `addFd` on the server's main
thread, each side keeps its `conn_fd`, each learns of a hang-up on its own
thread, `connect_(-1)` closes the descriptor before it resets `conn_fd`, and the
number may be given to another file in between (`ReuseDescriptor`).  Processes
die at any step and leave the mutex as it is.

`cursor.lock` uses the same functions and is never held together with this lock
by the X server: it is another instance.

### Renderer

Three threads.  The GUI thread (`guiPc`) performs `rendererSetSharedState` and
`rendererSetWindow` as a lock, a signal and a wait for
`stateChangeFinishCond`, and the three buffer list functions.  The renderer
thread (`renderPc`) is `rendererThread` with one action per stretch between two
synchronisation points: `rendererShouldWait`, sleeping, the handover of the
state (switch the proxy, `munmap` the old state), of the window
(`rendererRefreshContext` with every early return), attaching buffers, a frame,
sweeping removed buffers.  A window's handover is `surfaceChanged` followed by
`rendererSetWindow`: the first takes two references to the window
(`ANativeWindow_fromSurface` and `ANativeWindow_acquire`), of which
`releaseWinAndSurface` drops one.  `refs` counts them all; the history variables
`handed` and `unreleased` count, for each window, the handovers and the times
that EGL made `releaseWinAndSurface` return before `ANativeWindow_release`.  The proxy thread (`proxyPc`) waits on a condition
variable in the mapped state and forwards its signals to `stateCond`.
`lorieMoveCursor` and `lorieRedraw` are what the X server does to the mapped
state.  Frames are data only as far as a property needs it: which buffer is
drawn, and whether a request is pending.

Signals to a condition variable nobody waits on are lost.  `Spurious` lets
waits return without a signal, `EglFails` lets every set of EGL calls fail
(`Failures`), `FromStart`
lets the threads start at their first instruction instead of parked in their
waits, `NewServers` lets a shared state name a root buffer that was never sent,
as a fresh X server's does.

### FrameFlow

One connection, seen at the level of single accesses to the shared flags.
`content` counts the drawing operations in each root pixmap, `image` and `pos`
number the cursor's images and positions, `shown`, `shownImage` and `shownPos`
are what the display shows.  The X server's main thread draws, sets the cursor,
resizes, and runs `lorieRedraw` at each vertical sync, in the order of its
statements; the renderer thread draws a frame whenever
`rendererThread`'s condition holds.  `cursor.x` and `cursor.y` are accessed
without a barrier around `cursor.moved`; the second disjuncts of `StoreMoved`
and `drawCursor` let those accesses be reordered, and `reordered` remembers
that it happened.

Sleeping and waking is `Renderer`'s subject, the locks' behaviour under
failures `SharedLock`'s; `FrameFlow` uses both as perfect, which is what the
theorems about them justify while the connection lasts.

### Clipboard

The X server keeps the owner of the `CLIPBOARD` selection, the text it has
cached (`cachedData`), the list of conversion requests it cannot answer yet
(`targets`, the list `lorieDataTargetHead`) and the work queue through which the
input thread hands announcements and texts to the main thread.  The activity
keeps what it knows of the Android clipboard: `fresh` says that the clip's time
stamp is past `lastClipboardTimestamp`, `grace` that `setClipboardText` has put
that time 150 ms into the future.  The socket is two sequences of events,
`toServer` and `toActivity`.  `property` is the property of the root window
through which all owners of the selection answer: a client stores its text there
(`XStoreText`) and the X server reads it when that client's `SendEvent` comes
(`XAnswerText`), whoever has stored something since.  `stored` are the clients
between the two.

Texts are numbers in the order of their appearance, so "older" is `<`; an
announcement carries in the model the number of the text it was made for, which
the code's event does not, and only the history variable `told` uses it.  The
other history variables say why something cannot be expected: `missed` (the
text in the clipboard will never be announced), `lost` (a request or its answer
was lost) and `wanted` (the copy made in X that has to reach Android, `NULL`
after anything that legitimately ends the obligation).  `overwritten` is set
when a client stores a text while the copy wanted is stored but not yet sent.

The activity reads one byte more than a text has (`clipboard[count + 1]` and
`sizeof(clipboard)`).  If an event follows directly it loses its first byte, and
everything up to the next short read is misread: `setClipboardText` sets
`shifted`, `ReadShifted` drops events, `ReadShort` ends it.

Assumed: texts are not empty and hold no control characters (the bytes misread
are then of no known event type); a payload arrives with its header; X clients
own one request at a time and answer in the order they are asked; the X server
has noticed the end of one connection before the next is made.  The list may
still have a client that has exited, whose `ClientRec` is freed when its entry
is used: that has no effect (the window to be told is gone as well) or ends the
X server (`Crash`, after which `running` is false and only the activity goes
on).

`ClipboardService` is the abstract specification: the Android clipboard goes
through texts, the server is told of some of them, and whoever asks gets, at
once or later, a text that is no older than the last one told, or the empty one;
one answer serves all who wait.  `Refines` maps `version` to its `clip` and
`targets` to its `waiting`.

### Connection

`getXConnection` makes a pair of sockets on a binder thread and queues `addFd`;
the X server's main thread installs it (`addFd`, `InstallFd`), sends the shared
state and registers the root pixmap's buffer in two steps, the write and
`LorieBuffer_addToList`; the input thread reads sizes and handles a hang-up in
three steps (`HangUp`, `ResetFd`, `EmptyList`).  `conn_fd` and
`registeredBuffers` belong to both threads and have no lock; only registering
the descriptor waits for the input thread's lock.  `ReplaceRoot` is
`lorieRRScreenSetSize`, which unregisters and frees the old root pixmap's buffer
and then registers the new one.  On the activity's side are `xcallback`,
`connect_`, `tryConnect`, the binder's death notice, and `sendWindowChange`.

`tangled` remembers that the two threads interfered: `conn_fd` was overwritten
while it held another connection, reset while it held a newer one, or a buffer
went to another connection than the one on whose list it was put.  The
properties hold without that; with it the X server may send nothing to a living
connection, for ever (section 5).

### Shmem

`table[p]` is the table of process `p`, `link[k]` the symbolic link of a key.
`shmget` is a step for every system call it makes (`readlink`, the question to
another process, `unlink`, `symlink`), each of which may fail for reasons of its
own: `AskBreaks` is every failure of a question whatever the process asked does
(no socket, `send`, `read`, no descriptor, no size), `Refused` is a file system
that does not read, remove or make a link.  `shmget` acts on them as on the
failures it expects.  The other functions are one step, as they run under the
mutex of their process.  The mutex is held from a call's start to its
return, so that `Answers` needs the process asked to be idle.  Processes start,
as forks or not, and end; a child may keep the socket of its parent bound
(`orphans`).  Ids are computed as in the code, negative ones included.  Every
entry and link carries the segment it was made for, which the program does not
know: that is how the properties tell that an id has changed its meaning.
`misjudged` are the keys whose link was taken for stale although its segment was
there, `raced` those whose link was removed by a process that had read another.
Left out: failures of `mmap` and `listen` and of the listener's own socket,
several threads in one process, sizes and content.

### Keysym

`lorieKeysymKeyboardEvent` as one operator per question it asks (`FindKey`,
`AvoidFakeShift`, `KeepShift`, `FakeShift`, `FakeLevelThree`) and one action per
way it ends (`TypeFails`, `TypeStops`, `TypePress`, `TypeRelease`).  A press and
its release are two actions of the input thread, between which the main thread
may process the queue and other clients may change the keymap.  Keys are groups
of key type, symbols and actions, as XKB has them; `ProcessKey` is as much of
XKB's key actions as set and lock modifiers.  `held`, `typed` and `leftover` are
what the user holds, the last characters, and the keys faked before an early
return.  An entry of `typed` also keeps what its keycode carried, which is what
`SparesKept` compares with the keymap later.

The queue is processed by a recursive function over its events
(`mieqProcessInputEvents`), and the keys of a fake press or release are queued
in the order of their numbers (`EventOfEach`).  `KeysymAssumption` says what the
X server makes sure of in every keymap: keycodes have eight bits, a key has a
symbol (and, if it has actions, an action) for every level of its types, and
case conversion is stable.  `PlainModifiers` and `SingleModifiers` are no part of
it: they are predicates of a keymap under which two of the theorems hold, and
`MCParts` states with an `ASSUME`, which TLC evaluates, that its own keymap has
them.

### PixmapAccess

A buffer is its type, whether it is locked, the pointer it is locked to and what
it owns; a pixmap is the driver's record about it (`LoriePixmapPriv`).  Actions
are the driver's functions: create, import, destroy, prepare and finish an
access, redraw, flip, and `lorieRRScreenSetSize` in two steps, because the
copy between them accesses both pixmaps.  Android may fail to lock a hardware
buffer.  Which pixmaps have the size for a flip is left out, and a flip that
succeeds goes on as the driver is written for (section 5 says what Present does
in this version).

### Pointer

`stylus` and `savedBS` are what the activity's listeners know, `buttons_prev`
and `down` what the X server knows.  Events are read in the order they are
written, so sending and reading one is a single step, except for touches, which
wait in the work queue (`touchWork`) while all other events overtake them.
`pointers` is the array of `InputEventSender`: it keeps the fingers of all moves
of this activity, so that a move ends the touch of an absent finger only if no
earlier move was about it.  `unseen` are the fingers that went down or up without
an event, or on a closed connection, and about which nothing was sent since.
`steady` is reset by what makes the two sides disagree about buttons (no
connection, no device, a pen turned around with a button held, a pen that acts
as mouse and shares a button with the mouse) and set again when all buttons are
up.  Motion, pressure and wheel are left out.

## 3. Runs

The runs take seconds to a minute with two workers, `MCParts` two to three.

| run | expected | what it shows |
|---|---|---|
| `MCSharedLock` | passes | exclusion while connected, no theft from a connected holder, recovery from dead owners except for the cases of section 5 |
| `MCSharedLockRestart` | violation | recovery fails when a successor connects first |
| `MCRenderer` | passes | seven safety properties of handovers, mappings, buffers and window references, with two states, two windows, invalid windows, failing EGL and spurious wake-ups |
| `MCRendererLive` | passes | handovers return and requested frames are drawn, also when EGL fails |
| `MCRendererStart` | violation | a handover made before the renderer thread's first wait is missed |
| `MCRendererStale` | violation | `lastRequestedBufferId` of an old connection suppresses frames of a new one |
| `MCFrameFlow` | passes | no lost drawing without a resize, no lost cursor change without reordering, convergence |
| `MCFrameFlowResize` | violation | a resize can be lost |
| `MCClipboard` | passes | the cache follows the announcements, requests and copies are not lost, `ClipboardService` is implemented |
| `MCClipboardStale` | violation | a text copied between two activities is never announced |
| `MCConnection` | passes | both sides agree on the buffers, the last size wins, a new activity gets the screen, unless the X server's threads interfere |
| `MCParts` | passes | `Shmem`, `Keysym`, `PixmapAccess` and `Pointer`, which share no state, one at a time: 12 properties |

Run one with `tlc -config MCSharedLock.cfg MCSharedLock.tla`; check proofs with
`tlapm SharedLockProofs.tla`.

### Properties

SharedLock: `ExclusionWhileConnected` (server and renderer are never both
between lock and unlock while they share a healthy connection, whatever
happened before), `StolenOnlyAfterLoss` (a step takes the mutex from a running
holder only if the connection is gone), `NeverWaitsForItself` (the
`lockingPid == getpid()` shortcut never keeps a thread waiting for somebody
else, as long as no `LorieBuffer_lock` failed), `ServerRecoversLock` and
`RendererSurvivesServerDeath` (the lock of a dead process is recovered).

Renderer: `DrawnBufferAlive`, `ProxyOnMappedState`, `MappingsExact` (no leak and
no use after `munmap`), `NothingPendingWhenIdle`, `SurfaceGone` (after a
handover no EGL surface is left on another window, which Android is about to
destroy, unless EGL refused to let go of it), `RefsBalanced` (between handovers
the references to a window are one if it is in use, one for each handover of it
and one for each time EGL cut its release short: so the code leaks just these,
and drops nothing twice), `GuiReturns` and `FrameDrawn`.

FrameFlow: `NoLostFrame` and `NoLostCursor` (in a state where nobody has
anything left to do, the display shows the current contents) and `Converges`.

Clipboard: `CacheFresh` (a cached text other than the current one is there only
while its successor is to be noticed, or announced, or was missed for a known
reason), `RequestCovered` (while clients wait, a request or an answer is on the
way unless one was lost), `CopyCovered` (a copy made in X is delivered or on the
way as long as its owner keeps the selection and the connection lasts, unless
another client overwrote it in the root window's property before it was read) and
`Refines`.  The first three are conditions on what is in flight at each state:
they are what "in the end the clipboard is right" needs, whatever the schedule.

Connection: `PeersAgree` (what the activity's renderer has, once it has read
what is under way, is what `registeredBuffers` says, the root pixmap's buffer among it), `SizeCovered`
(the last size sent on a connection is the last one the screen gets, over
reconnections) and `ScreenArrives` (a new activity gets the state and the
buffer, in the end).

Shmem: `OneIdOneSegment` (an id, also in a key's link, stands for one segment,
but for the wrap-around of the counter and numbers of processes that are gone), `OneSegmentPerKey` (two processes never both own a segment of a key,
but for the unlink race and for questions that failed although the owner lives), `OwnSegmentKept` (nobody loses a segment it has not
removed, but for negative ids), `CallReturns` (a call returns, but for processes
that wait in a circle or for a socket without a listener, and unless the file
system refuses again and again).

Keysym: `TypedRight` (clients decode a character as itself), `KeysAsHeld`
(fake presses and releases are undone), `SparesKept` (the keycodes of the last
characters keep their symbols, as many as there are spare keycodes, and no
keycode is used up for ever).

PixmapAccess: `MemoryExact` (the pointer kept for a pixmap points to locked,
existing memory of its buffer, and nothing a buffer owned outlives it),
`AbortsForAndroid` (the X server gives up for no other reason than a failed
lock).

Pointer: `ButtonsAsHeld` and `TouchesAsFingers` (X clients see the buttons and
the fingers the user holds, but for the fingers in `unseen` and until the buttons
are `steady` again).

### Bounds

SharedLock: two incarnations of the activity, two sockets and one failed access.
Two incarnations are what it takes for a predecessor's death to meet a
successor's connection; a third repeats the situation of the second, because
every trace the first leaves (an unread hang-up, a queued `addFd`, the mutex) is
there when the second starts.  The safety properties are proved for any number.

Renderer: two states (one to unmap while the other is handed over), two windows,
one buffer id with one copy.  More buffers only repeat `rendererAddBuffer`;
what happens between buffers is list order, which no property depends on.  The
liveness run has one state and one window.  `MaxRefs` is the number of
references a window may have: a handover leaves one behind, so that three let a
window be handed over twice, while another one is in use or not, or once with an
EGL call that keeps one more.  The theorems hold for any number.

FrameFlow: one operation of each kind, one resize between two root pixmaps, one
new surface.  A connection starts with both flags set, so a first frame is
always wanted and the operation can fall into any of its steps; the second
frame shows it or does not.

Clipboard: two clients (to wait together, and for one to copy while the other
answers), two texts in all, two connections (so that cache and list survive a
restart) and two events in flight when a user's action sends another, which is
what it takes for one to be misread behind another.  Two texts suffice for a
stale cache; the proofs hold for any number.  In the violation run nobody copies
in X.

Connection: three connections, so that one is made while two earlier ones are
still to be hung up; three root pixmaps; one restart of the X server.

Shmem: two places for processes, of which three are started.  `shm` makes three
calls with processes that end: an id can be issued again (`CounterMod` is 2), a
socket number taken over, and one process has negative ids.  `waits` makes four
calls with processes that stay, which is what it takes for two of them to wait
for each other; the file system refuses nothing there, as `CallReturns` excepts
behaviours in which it goes on doing so.  The division of ids uses small numbers (`Base`, `Half`) in the
proportions of the real ones.

Keysym: nine keycodes, two of them spare, so that a third new character takes
one back; two level-three keys, a keypad key under Num Lock, a key whose symbols
depend on the group, a Shift key that sets its modifier through the modifier
map.  Four inputs are a held key, a lock or another client's change, and two
characters.

PixmapAccess: three pixmaps, the most a flip during a change of the screen's
size involves.  The state space has no other bound.

Pointer: two buttons and two fingers, one to change while the other stays; four
touches in the work queue.  Buttons and touches run apart, since they share the
connection only.

### Fairness

Connection assumes that the X server's two threads and the activity's looper go
on while they have something to do (weak fairness of each).  Nobody has to
connect, to resize or to die.  Shmem assumes that a process goes on with a call
it has begun; answers come from listeners, which run whenever the mutex is free.

Clipboard makes no liveness claim and assumes no fairness.

SharedLock assumes weak fairness of every lock step, of the ends of critical
sections, and of the delivery of hang-ups.  Nothing obliges anybody to draw, to
connect or to die.

Renderer assumes strong fairness of the three threads: their steps are disabled
again and again while another thread holds `stateLock` or the proxy's lock, and
a pthread mutex that is released infinitely often, with milliseconds in
between, is granted.  `lorieRedraw` is called by the Choreographer at every
vertical sync, which is weak fairness of `Vsync`.  It does not depend on the
renderer.

FrameFlow assumes that the X server finishes its operations, that vertical
syncs go on, and that the renderer thread goes on when a frame is wanted (the
result of `Renderer`).

## 4. Proofs

TLAPS proves, for all values of the constants:

| module | theorem | property |
|---|---|---|
| `SharedLockProofs` | `TypeCorrect`, `Exclusion`, `NotStolen`, `NoSelfWait` | `TypeOK`, `ExclusionWhileConnected`, `StolenOnlyAfterLoss`, `NeverWaitsForItself` |
| `RendererProofs` | `TypeCorrect`, `DrawnBufferSafe`, `ProxySafe`, `MappingsSafe`, `NothingLeftPending`, `SurfaceReleased`, `WindowRefsBalance` | `TypeOK`, `DrawnBufferAlive`, `ProxyOnMappedState`, `MappingsExact`, `NothingPendingWhenIdle`, `SurfaceGone`, `RefsBalanced` |
| `FrameFlowProofs` | `TypeCorrect`, `CursorNotLost`, `FrameNotLost` | `TypeOK`, `NoLostCursor`, `NoLostFrame` |
| `ClipboardProofs` | `TypeCorrect`, `CacheIsFresh`, `RequestsCovered`, `CopiesCovered`, `Implements` | `TypeOK`, `CacheFresh`, `RequestCovered`, `CopyCovered`, `Refines` |
| `PixmapAccessProofs` | `TypeCorrect`, `MemorySafe`, `OnlyAndroidAborts` | `PixTypeOK`, `MemoryExact`, `AbortsForAndroid` |
| `InputProofs` (Pointer) | `TypeCorrect`, `ButtonsSeen`, `TouchesFollow` | `PointerTypeOK`, `ButtonsAsHeld`, `TouchesAsFingers` |
| `InputProofs` (Keysym) | `KeysymTypes`, `SparesStay`, `KeysFollow`, `CharactersSeen` | `KeysymTypeOK`, `SparesKept`, `KeysAsHeld`, `TypedRight` |
| `ConnectionProofs` | `TypeCorrect`, `LastSizeWins`, `BuffersAgree` | `TypeOK`, `SizeCovered`, `PeersAgree` |
| `ShmemProofs` | `TypeCorrect`, `IdsAreUnique`, `KeysAreUnique`, `SegmentsStay` | `ShmTypeOK`, `OneIdOneSegment`, `OneSegmentPerKey`, `OwnSegmentKept` |

*SharedLock.*  Exclusion holds because the mutex is owned by whoever is between
lock and unlock, unless it was reinitialised under a holder, and whoever is
about to reinitialise it has seen its connection dead.  The invariant
therefore ties a thread in step `reinit` to the descriptor it looked at: that
one is closed on some side and, for the server, `addFd` cannot have replaced it,
because it runs on the thread that is in the middle of `lorie_mutex_lock`.  The
queue of `addFd` work holds only sockets newer than every closed one, which is
needed to see that a connection once broken never becomes healthy again.
`NeverWaitsForItself` rests on `PidInv`: a running process finds its own pid in
`lockingPid` only after it has the mutex and before it gives it back, and a
process that has not started yet is never named there.

*Renderer.*  `DrawnBufferSafe` needs only that the lists are changed by the GUI
thread in ways that never free what `drawing` names: a buffer in use is moved to
`removedBuffers`, and only the renderer thread empties that list, after the
frame.  The other three follow from one invariant made of named parts: who holds
`stateLock` at which step (`LockInv`), what is pending at each pair of GUI and
renderer steps (`HandoverInv`), which states are mapped (`MappedInv`) and where
the proxy is (`ProxyInv`).  They assume `~FromStart`: threads that have not
reached their waits can miss a handover (section 5).  The theorems about windows
add `WindowInv`: the pending window is the one handed over last, and while none
is pending the surface is on that one, and counts the references.  EGL may fail
in every way: the lemma `LeftStep` says of each window what one call of
`releaseWinAndSurface` leaves of its references, and `unreleased` grows by one
exactly when a failure makes it keep one.

*FrameFlow.*  `NoLostFrame` and `NoLostCursor` speak about quiescent states only.
The invariants say of every state that either the display is up to date or
somebody is obliged to act: a flag is set, damage is recorded, or a thread is at
the very step that will announce or show the change.

*Clipboard.*  What is on the way to the X server's main thread, first on the
socket and then on the work queue, is in the order of the texts (`OrderInv`:
both sequences are sorted, the queue comes before the socket, and everything in
them lies between `told` and `version`).  That is why an announcement never
lowers `told` and why a text that arrives is never older than what was
announced, which is the step of `Implements` that is not immediate.
`FreshInv` extends `CacheFresh` to the texts still on their way, since one of
them will be cached next.  `WaitInv` and `CopyInv` add to their properties that
the connection is up.  `CopyInv` also follows a copy through the property of the
root window: as long as nobody has overwritten it, what its owner has stored is
the copy, or the owner has been asked once more and will store it.

*PixmapAccess.*  The properties need an invariant of each pixmap (`PixmapOK`): the
driver's pointer and the buffer's `lockedData` are the same, and a buffer owns
Android's lock exactly while it has the address of a locked hardware buffer.  So
unlocking, which looks at the pointer, never leaves a lock behind, and an access
that finds no pointer on a locked buffer knows that Android refused.  Lemmas
about each buffer and pixmap operation carry it through flips and new sizes.
`NoPixmapAssumption` says that `NoPixmap` is none of the pixmaps.

*Pointer.*  `Follows` is what `ButtonsAsHeld` lacks to be inductive: while nothing
went unseen the static `buttons_prev` is what the pen holds, so that an event of
one device cannot release or press what another one holds.  For touches the
invariant is about the work queue: the last event of a finger in it, or the
device if there is none, says whether the finger is on the screen (`Tells`).
The set of fingers is assumed finite.

*Keysym.*  `SparesStay` holds for every keymap.  Its invariant is about
`addedKeysyms` beside the last characters: while no other client has changed the
keymap the list names every spare keycode that carries a symbol exactly once,
with the symbol it carries (`ListInv`), and the keycode of the `i`-th last
character is at one of the first `i` places (`Kept`).  `getReusableKeycode` takes
a spare keycode away only when all of them are listed, and then takes the last
entry, at place `Window`; the character that loses it is the `Window`-th last, which
the new one pushes out of the history.  Each press moves an entry down by at most
one place (`ListFollows`), which needs `vncOnKeyUsed`.

`KeysFollow` and `CharactersSeen` are about what a queue of events leaves of the
keyboard.  The prover has no induction over sequences, so the lemmas about
`mieqProcessInputEvents` argue with the least position of the queue at which a
statement fails.  They give for each key the last event about it, or the state
before the queue, as what decides whether the key is down.  With that the
invariant of `KeysFollow` says of every moment, not only between characters,
what will be down once the queue is processed: the keys held (`HeldInv`), those
in `leftover`, and the key of the character being typed, which `pressedKeys`
names (`PressedInv`); a key that is down sets the modifiers its action says
(`DevPlain`).

`CharactersSeen` follows one press through the code.  `KeyForIs`: the keycode that
`lorieKeysymToKeycode` finds yields the symbol in the state it was looked up in,
with the modifiers it returns.  `TurnedIs` and `OnIs`: after the faked presses
and releases exactly the modifiers in which the two states differ have been
turned on or off.  `FakedStateIs` puts these together: the state in which the
client sees the press is the one the search asked for, unless Shift or level
three is locked, which no release of a key takes away and `TypedRight` excepts.
`DevSingle` is the part of the invariant that makes releases exact: no key that
is down sets Shift or level three beside another modifier, so releasing the keys
that hold one of them takes nothing else away.

The last two theorems have hypotheses about the keymap, since no theorem of this
kind holds for all of them: a key that types a character and sets Shift would
change the state it is meant to be pressed in.  `PlainModifiers`: a key sets the
same modifiers in every state, a key that yields `ISO_Level3_Shift` or
`Mode_switch` sets level three if it sets modifiers at all, a key that yields a
character sets none, and spare keys get no actions from others.
`SingleModifiers`: whatever sets Shift or level three sets just that one.  This
is how the X server's default layout, the one `InitInput.c:60` asks for, is meant
to work: Shift and `ISO_Level3_Shift` keys have one `SetMods` action, Caps Lock and
Num Lock are `LockMods` of another modifier, `Mode_switch` changes the group, and
keys of characters have no modifier action.  A layout in which, say, a Shift key
locks Caps while the other one is down does not set the same modifiers in every
state and is outside of the theorems.

*Connection.*  `LastSizeWins` needs that a new connection starts without anything
left of the one before (`Untold`): no size sent, nothing to read.  With that
each step only moves the last size along the socket, the work queue and into
the screen.  `BuffersAgree` rests on `Matches`, which states `PeersAgree` for
every step of the main thread and one buffer at a time: the last event about a
buffer on the way, or the renderer's list if there is none, says whether it is
on `registeredBuffers` or about to be put there.  `Emptied` says that a
connection that has ended took its list with it, as long as the threads have
not interfered; `Numbers` keeps connections apart.

*Shmem.*  The arithmetic of ids is two lemmas: `IdParts` (the socket number and
the counter can be told from an id, negative or not, since `CounterMod` is at
most `Base`) and `IdIs` (`ashv_socket_id_from_shmid` gives back the number,
for positive ids).  `IdsAreUnique` follows from `PairsOK`, about all pairs of an
id and a segment that are anywhere: in tables, in links, in what a call has read
of a link, and in a call that has an id but no link yet.  Each was made by a
process when its counter was as many ids back as it has issued since (`Made`),
so that an id issued now equals none of the last `CounterMod - 1`.  That two
processes issue different ids is the part of `ShmTypeOK` about their socket
numbers.  `KeysAreUnique` adds `KeyOK` (a segment of a key that is in its
maker's table is the one the key is linked to) and `UnlinkOK` (a process that
is about to remove a link has asked the process that would know the segment,
so nobody owns it, unless the question failed and the key is in `misjudged`);
`NewOK` is what keeps the second true when an id is linked that was allocated
earlier in a call.  `SegmentsStay` needs that an id leads back to its maker.
The constants are assumed to be as in the code: `CounterMod` at most `Base`,
socket numbers from 0 to `2 * Half - 1`, and `IPC_PRIVATE` not among the keys.

Every part of these invariants was checked with TLC, as an invariant of the
module's run, before it was proved.

Only model-checked, because they are out of the prover's reach: the liveness
properties (`ServerRecoversLock`, `RendererSurvivesServerDeath`, `GuiReturns`,
`FrameDrawn`, `Converges`, `ScreenArrives`, `CallReturns`), which need `ENABLED`
and fairness.  `MCParts.TypeOK` is the conjunction of the four type invariants
`ShmTypeOK`, `KeysymTypeOK`, `PixTypeOK` and `PointerTypeOK`, each of which is
proved for its own module; the conjunction over the run's choice of a part is
left to TLC.

## 5. Where code and comments disagree

The five violation runs are listed under "findings" in `PROJECT.json`.  More
observations have no run of their own but show in the models:

* `connect_` closes `conn_fd` before it resets it; if the number is reused
  meanwhile, the renderer thread takes the new file for a live connection and
  never recovers a lock the dead X server left.  `RendererSurvivesServerDeath`
  excludes this with `fdReused`.
* A failed `LorieBuffer_lock` makes `loriePrepareAccess` return with the lock
  held.  `lockingPid` then names the X server for ever, and
  `NeverWaitsForItself` and `ServerRecoversLock` exclude it with `failures`.
* `surfaceChanged` takes two references to a window, by `ANativeWindow_fromSurface`
  and `ANativeWindow_acquire` (`activity.c:378-380`), and the renderer drops one:
  every handover leaks a reference.  When EGL refuses to change the context or to
  destroy the surface, `releaseWinAndSurface` returns before
  `ANativeWindow_release`, so that one more is left and the surface with it
  (`handed` and `unreleased` in `Renderer`).
* When a window is invalid or `eglCreateWindowSurface` fails,
  `rendererRefreshContext` returns without clearing `surfaceAvailable`.
* The cursor's position can be lost when its accesses are reordered
  (`NoLostCursor` excludes it with `reordered`).
* Two events of the X server in quick succession, the first one a text, are one
  event for the activity: the second is lost (`shifted` in `Clipboard`).
* All owners of the selection answer through the same property of the root window
  (`clipboard.c:233-273`), which the X server reads when it is told, not when it is
  written: a former owner that answers late replaces a newer copy that was stored
  but not yet sent, and Android gets the older text (`overwritten`).
* The list of waiting requests keeps the `ClientPtr` of clients that have exited
  (`clipboard.c:538`), whose memory is freed or used for something else by the
  time a text arrives (`Crash`).
* An empty text that was pasted while sharing was off stays cached after sharing
  is switched on again, until the next announcement.
* The hang-up of an old connection may be handled after `addFd` has installed the
  new one: `conn_fd` becomes -1, the X server sends nothing any more, and neither
  side finds the connection broken (`tangled` in `Connection`).  While the
  activity handles a hang-up, `clientConnectedStateChanged` runs before
  `conn_fd` is reset, so that `LorieView.connected()` still answers yes where
  `MainActivity.java:1187` means to recover the connection; `tryConnect` is
  called again later.
* `loriePresentFlip` compares the width of the screen with the height of the
  pixmap (`InitOutput.c:782`), which refuses all flips except on square screens.
  There, Present (`patches/xserver.patch`) calls `after_flip`, which
  `InitOutput.c:834` leaves NULL.
* `LorieBuffer_recvHandleFromUnixSocket` resets what belongs to the sender
  (`locked`, `lockedData`, `refcount`) before the `read` that overwrites it.
* An imported hardware buffer of a wrong format is not released
  (`"refused import"` in `PixmapAccess`).
* Processes whose number modulo 65536 is 32768 or more get negative ids, which
  nobody else can attach and which `shmdt` removes from their own table.
* Two processes that ask each other for segments wait for ever, and so does one
  that asks for a segment of its own that it has removed (`Hangs` in `Shmem`).
* `shmget` does not tell why a question failed.  If the owner lives and only the
  question failed, it removes the owner's link and makes a second segment of the
  key, as the comment at `shmem.c:441` fears (`misjudged`).
* The loop of `shmget` ignores what `unlink` returns and takes every failure of
  `symlink` for an existing link.  While the file system refuses, it runs for ever
  with the mutex held, and whoever asks this process waits as long (the TODO at
  `shmem.c:447`, the second disjunct of `CallReturns`).
* When no key for level three is found, a fake Shift stays as it is (`leftover`
  in `Keysym`).
* A pen event for a device that does not exist yet is dropped without a change of
  `buttons_prev`, and a pen turned around with a button held releases the button
  on the wrong device (`steady` in `Pointer`).
* `ACTION_CANCEL` ends the touch of one finger (`unseen` in `Pointer`).
* A move is meant to end the touches of fingers that Android forgot to report as
  lifted (`InputEventSender.java:123`), but `pointers[]` forgets a finger only
  when a move is about it again: the touch of a finger that was part of an earlier
  move stays until its number is used again (`pointers` and `unseen`).

## 6. Not modelled

GL shaders and drawing, EGL set-up and the capability test; screen, RandR and
GLX initialisation (calls into xorg-server with no state of their own); the
user interface of the preferences and of the layout editor; build files,
patches to third-party code and generated tables.  `pthread`, EGL, binder and
the kernel's socket semantics are external and modelled from their use.  Memory
ordering is sequentially consistent except where `FrameFlow` says otherwise.

Of modelled components: a second server generation (`-reset` and the like), the
queue of vertical sync events Present waits for (a list without concurrency),
`xshmfence.c` (it chooses between two implementations), `fbconfigs.h` (a table),
the log socket, the conversion of text to key symbols, motion and scrolling, the
gamepad, what two threads do inside xorg-server's own functions.  The gesture
recognisers, extra keys, virtual keys and the mapper's commands are Java user
interface code around one thread with timers; they are next in the plan.

## 7. Plan

Next, in this order:

1. `TapGesture`, `SwipeGesture`, `TouchInput`: fingers and timers in any order;
   every button that is pressed is released.
2. `ExtraKeys`, `VirtualKeys`: modifiers and the repeat thread.
3. `CommandManager`, `GamepadIpc`, the vertical sync events of Present.
