----------------------------- MODULE Clipboard -----------------------------
(***************************************************************************)
(* The clipboard that Android and the X clients share.                     *)
(*                                                                         *)
(* A change of the Android clipboard is announced to the X server, which   *)
(* takes the CLIPBOARD selection and forgets the text it had cached; a     *)
(* client that pastes waits until the text has been fetched over the       *)
(* socket.  When a client owns the selection, the server asks it for its   *)
(* targets and then for the text.  The answers are stored in properties of *)
(* the root window, which all clients share, and announced with SendEvent; *)
(* the server sends the text it then finds there to the activity.          *)
(*                                                                         *)
(* Texts are numbers: those of the Android clipboard in the order in which *)
(* it had them, those copied in X in the order of the copies.  The socket  *)
(* is two sequences of events; an event and its payload are one element.   *)
(* The server reads events on its input thread and acts on most of them    *)
(* later, from its work queue.  A new connection is made after the server  *)
(* has noticed the end of the old one.                                     *)
(***************************************************************************)
EXTENDS Naturals, Sequences

CONSTANTS
  Clients,      \* the X clients
  Copiers,      \* bound: those of them that copy
  Root,         \* the owner of a selection when it is the root window
  NULL,         \* no owner, no text
  Empty,        \* the text ""
  MaxTexts,     \* bound: texts of the Android clipboard and copies made in X
                \* when a user copies another one
  MaxConn,      \* bound: connections
  MaxInFlight   \* bound: unread events in one direction when a user's action
                \* sends another

ASSUME ClipboardAssumption ==
  /\ Root \notin Clients /\ NULL \notin Clients /\ Root # NULL
  /\ NULL \notin Nat /\ Empty \notin Nat /\ Empty # NULL
  /\ MaxTexts \in Nat /\ MaxConn \in Nat /\ MaxInFlight \in Nat

VARIABLES
  \* the X server and its clients
  clipboardEnabled,
  owner,        \* of the CLIPBOARD selection
  cachedData,   \* NULL: has to be fetched
  targets,      \* the clients on the list lorieDataTargetHead
  workQueue,
  asked,        \* the selection requests each client has not answered
  text,         \* what each client offers, the number of a copy
  property,     \* the text stored on the root window
  stored,       \* clients that have stored theirs and not sent the event yet
  gone,         \* clients that have exited
  copies,
  running,      \* has the X server not crashed?
  \* the socket
  conn,         \* "none", "up", or "hung": closed by the activity only
  connections,
  toServer, toActivity,
  shifted,      \* has the activity read into an event with the text before it?
  \* the activity and the Android clipboard
  alive,        \* does the activity exist?
  sync,         \* clipboardSyncEnabled
  focus, listening,
  notified,     \* is handleClipboardChange due?
  version,      \* the text in the clipboard
  clipText,     \* is it plain text or HTML?
  fresh,        \* is its timestamp past lastClipboardTimestamp?
  grace,        \* is lastClipboardTimestamp in the future?
  \* history
  told,         \* the text that was announced last to the X server
  answer,       \* what each client pasted last
  missed,       \* will the text in the clipboard never be announced?
  lost,         \* was a request for the text, or its answer, lost?
  wanted,       \* the copy made in X that has to reach Android, if any
  overwritten,  \* was it replaced on the root window before it was sent?
  delivered     \* the copies that did

serverVars   == <<clipboardEnabled, owner, cachedData, targets, workQueue, running>>
clientVars   == <<asked, text, property, stored, gone, copies>>
connVars     == <<conn, connections, shifted>>
socketVars   == <<toServer, toActivity>>
activityVars == <<alive, sync, focus, listening, notified>>
androidVars  == <<version, clipText, fresh, grace>>
historyVars  == <<told, answer, missed, lost, wanted, overwritten, delivered>>
vars == <<serverVars, clientVars, connVars, socketVars, activityVars, androidVars,
          historyVars>>

\* Events, and the work the events of the activity give the main thread.
Message(t, x) == [type |-> t, text |-> x]
Work == [type : {"announce"}, text : Nat] \union [type : {"data"}, text : Nat \union {Empty}]
ServerEvent == Work \union [type : {"enable", "disable"}, text : {NULL}]
ActivityEvent == [type : {"request"}, text : {NULL}] \union [type : {"text"}, text : Nat]
Elements(s) == {s[i] : i \in DOMAIN s}

ServerType ==
  /\ clipboardEnabled \in BOOLEAN
  /\ owner \in Clients \union {Root, NULL}
  /\ cachedData \in Nat \union {NULL, Empty}
  /\ targets \subseteq Clients
  /\ workQueue \in Seq(Work)
  /\ asked \in [Clients -> Seq({"TARGETS", "TEXT"})]
  /\ text \in [Clients -> Nat \union {NULL}]
  /\ property \in Nat \union {NULL}
  /\ stored \subseteq Clients /\ gone \subseteq Clients
  /\ copies \in Nat /\ running \in BOOLEAN

ActivityType ==
  /\ conn \in {"none", "up", "hung"} /\ connections \in Nat
  /\ toServer \in Seq(ServerEvent) /\ toActivity \in Seq(ActivityEvent)
  /\ shifted \in BOOLEAN /\ alive \in BOOLEAN /\ sync \in BOOLEAN
  /\ focus \in BOOLEAN /\ listening \in BOOLEAN /\ notified \in BOOLEAN
  /\ version \in Nat
  /\ clipText \in BOOLEAN /\ fresh \in BOOLEAN /\ grace \in BOOLEAN

HistoryType ==
  /\ told \in Nat
  /\ answer \in [Clients -> Nat \union {NULL, Empty}]
  /\ missed \in BOOLEAN /\ lost \in BOOLEAN
  /\ wanted \in Nat \union {NULL} /\ overwritten \in BOOLEAN
  /\ delivered \subseteq Nat

TypeOK == ServerType /\ ActivityType /\ HistoryType

Init ==
  /\ clipboardEnabled = FALSE
  /\ owner = NULL /\ cachedData = NULL /\ targets = {} /\ workQueue = <<>>
  /\ asked = [c \in Clients |-> <<>>] /\ text = [c \in Clients |-> NULL]
  /\ property = NULL /\ stored = {} /\ gone = {} /\ copies = 0 /\ running = TRUE
  /\ conn = "none" /\ connections = 0 /\ toServer = <<>> /\ toActivity = <<>>
  /\ shifted = FALSE
  /\ alive = FALSE /\ sync \in BOOLEAN /\ focus = FALSE /\ listening = FALSE
  /\ notified = FALSE
  /\ version = 0 /\ clipText \in BOOLEAN /\ fresh = TRUE /\ grace = FALSE
  /\ told = 0 /\ answer = [c \in Clients |-> NULL]
  /\ missed = FALSE /\ lost = FALSE /\ wanted = NULL /\ overwritten = FALSE
  /\ delivered = {}
-----------------------------------------------------------------------------
(* The X server and its clients. *)

\* The request for target t that a client owning the selection gets.
lorieSelectionRequest(q, o, t) ==
  IF clipboardEnabled /\ o \in Clients THEN [q EXCEPT ![o] = Append(@, t)] ELSE q

\* A client copies: it becomes the owner and lorieSelectionCallback asks it
\* for its targets.  The owner before it is only told so.
XCopy(c) ==
  /\ c \in Copiers \ gone /\ version + copies < MaxTexts
  /\ copies' = copies + 1
  /\ text' = [text EXCEPT ![c] = copies + 1]
  /\ owner' = c
  /\ asked' = lorieSelectionRequest(asked, c, "TARGETS")
  /\ wanted' = IF clipboardEnabled /\ conn = "up" THEN copies + 1 ELSE NULL
  /\ overwritten' = FALSE
  /\ UNCHANGED <<clipboardEnabled, cachedData, targets, workQueue, running, property, stored,
                 gone, connVars, socketVars, activityVars, androidVars, told, answer, missed,
                 lost, delivered>>

\* Mutant: the targets are received, and the text is not asked for.
XAnswerTargetsMutant(c) ==
  /\ asked[c] # <<>> /\ Head(asked[c]) = "TARGETS"
  /\ asked' = [asked EXCEPT ![c] = Tail(@)]
  /\ UNCHANGED <<serverVars, text, property, stored, gone, copies, connVars, socketVars,
                 activityVars, androidVars, historyVars>>

\* A client has stored its targets on the root window and says so.  The text
\* is asked of the client that owns the selection by now.  All clients offer
\* UTF8_STRING, so it does not matter whose targets the server finds.
XAnswerTargets(c) ==
  /\ asked[c] # <<>> /\ Head(asked[c]) = "TARGETS"
  /\ asked' = lorieSelectionRequest([asked EXCEPT ![c] = Tail(@)], owner, "TEXT")
  /\ UNCHANGED <<serverVars, text, property, stored, gone, copies, connVars, socketVars,
                 activityVars, androidVars, historyVars>>

\* A client, perhaps no longer the owner, stores its text on the root window
\* (XChangeProperty), in place of what anybody else has stored there ...
XStoreText(c) ==
  /\ c \notin stored /\ asked[c] # <<>> /\ Head(asked[c]) = "TEXT"
  /\ property' = text[c]
  /\ stored' = stored \union {c}
  /\ overwritten' = (overwritten \/ (owner \in stored /\ property = wanted))
  /\ UNCHANGED <<serverVars, asked, text, gone, copies, connVars, socketVars, activityVars,
                 androidVars, told, answer, missed, lost, wanted, delivered>>

\* ... and says so.  The server sends what the root window has by now.
XAnswerText(c) ==
  /\ c \in stored
  /\ stored' = stored \ {c}
  /\ asked' = [asked EXCEPT ![c] = Tail(@)]
  /\ toActivity' = IF clipboardEnabled /\ conn = "up"
                   THEN Append(toActivity, Message("text", property)) ELSE toActivity
  /\ UNCHANGED <<serverVars, text, property, gone, copies, connVars, toServer, activityVars,
                 androidVars, historyVars>>

\* A client pastes what the root window owns: the cached text, or it waits on
\* the list and the text is fetched.
lorieProcConvertSelection(c) ==
  /\ c \notin gone /\ c \notin targets /\ owner = Root
  /\ Len(toActivity) < MaxInFlight
  /\ \/ /\ cachedData # NULL
        /\ answer' = [answer EXCEPT ![c] = cachedData]
        /\ UNCHANGED <<targets, toActivity, lost>>
     \/ /\ cachedData = NULL
        /\ targets' = targets \union {c}
        /\ toActivity' = IF conn = "up" THEN Append(toActivity, Message("request", NULL))
                         ELSE toActivity
        /\ lost' = (lost \/ conn # "up")
        /\ UNCHANGED answer
  /\ UNCHANGED <<clipboardEnabled, owner, cachedData, workQueue, running, clientVars, connVars,
                 toServer, activityVars, androidVars, told, missed, wanted, overwritten,
                 delivered>>

\* Mutant: requests to a client that has exited are still answered.
ClientGoneMutant(c) ==
  /\ c \notin gone
  /\ gone' = gone \union {c}
  /\ owner' = IF owner = c THEN NULL ELSE owner
  /\ text' = [text EXCEPT ![c] = NULL]
  /\ wanted' = IF owner = c THEN NULL ELSE wanted
  /\ stored' = stored \ {c}
  /\ UNCHANGED <<clipboardEnabled, cachedData, targets, workQueue, running, asked, property,
                 copies, connVars, socketVars, activityVars, androidVars, told, answer, missed,
                 lost, overwritten, delivered>>

\* A client exits.  Its entry stays on the list of those who wait.
ClientGone(c) ==
  /\ c \notin gone
  /\ gone' = gone \union {c}
  /\ owner' = IF owner = c THEN NULL ELSE owner
  /\ asked' = [asked EXCEPT ![c] = <<>>]
  /\ text' = [text EXCEPT ![c] = NULL]
  /\ wanted' = IF owner = c THEN NULL ELSE wanted
  /\ stored' = stored \ {c}
  /\ UNCHANGED <<clipboardEnabled, cachedData, targets, workQueue, running, property, copies,
                 connVars, socketVars, activityVars, androidVars, told, answer, missed, lost,
                 overwritten, delivered>>

\* The input thread reads an event.  EVENT_CLIPBOARD_ENABLE counts at once,
\* announcements and texts are put on the work queue.
handleLorieEvents ==
  /\ conn # "none" /\ toServer # <<>>
  /\ toServer' = Tail(toServer)
  /\ LET e == Head(toServer) IN
     \/ /\ e.type \in {"enable", "disable"}
        /\ clipboardEnabled' = (e.type = "enable")
        /\ wanted' = IF e.type = "enable" THEN wanted ELSE NULL
        /\ UNCHANGED workQueue
     \/ /\ e.type \in {"announce", "data"}
        /\ workQueue' = Append(workQueue, e)
        /\ UNCHANGED <<clipboardEnabled, wanted>>
  /\ UNCHANGED <<owner, cachedData, targets, running, clientVars, connVars, toActivity,
                 activityVars, androidVars, told, answer, missed, lost, overwritten, delivered>>

\* Mutant: those who wait for a text from the lost connection are forgotten.
HangUpMutant ==
  /\ conn = "hung"
  /\ conn' = "none"
  /\ clipboardEnabled' = FALSE
  /\ toServer' = <<>> /\ targets' = {}
  /\ missed' = (missed \/ Message("announce", version) \in Elements(toServer))
  /\ UNCHANGED <<owner, cachedData, workQueue, running, clientVars, connections, shifted,
                 toActivity, activityVars, androidVars, told, answer, lost, wanted, overwritten,
                 delivered>>

\* The input thread notices the end of the connection; unread events are gone.
HangUp ==
  /\ conn = "hung"
  /\ conn' = "none"
  /\ clipboardEnabled' = FALSE
  /\ toServer' = <<>>
  /\ missed' = (missed \/ Message("announce", version) \in Elements(toServer))
  /\ UNCHANGED <<owner, cachedData, targets, workQueue, running, clientVars, connections,
                 shifted, toActivity, activityVars, androidVars, told, answer, lost, wanted,
                 overwritten, delivered>>

\* Mutant: the cached text is kept until the new one arrives.
lorieHandleClipboardAnnounceMutant ==
  /\ workQueue # <<>> /\ Head(workQueue).type = "announce"
  /\ workQueue' = Tail(workQueue)
  /\ owner' = Root
  /\ told' = Head(workQueue).text
  /\ wanted' = NULL
  /\ UNCHANGED <<clipboardEnabled, cachedData, targets, running, clientVars, connVars,
                 socketVars, activityVars, androidVars, answer, missed, lost, overwritten,
                 delivered>>

\* Work of the main thread: the text cached is no longer that of Android, and
\* the root window takes the selection.
lorieHandleClipboardAnnounce ==
  /\ workQueue # <<>> /\ Head(workQueue).type = "announce"
  /\ workQueue' = Tail(workQueue)
  /\ cachedData' = NULL
  /\ owner' = Root
  /\ told' = Head(workQueue).text
  /\ wanted' = NULL
  /\ UNCHANGED <<clipboardEnabled, targets, running, clientVars, connVars, socketVars,
                 activityVars, androidVars, answer, missed, lost, overwritten, delivered>>

\* Work of the main thread: a text from Android is cached and answers all
\* requests on the list.  The list also has clients that have exited, whose
\* ClientRec is freed: using it has no effect, as the client's window is gone
\* too, or ends the X server (Crash).
lorieHandleClipboardData ==
  /\ workQueue # <<>> /\ Head(workQueue).type = "data"
  /\ workQueue' = Tail(workQueue)
  /\ cachedData' = Head(workQueue).text
  /\ answer' = [c \in Clients |->
                  IF c \in targets \ gone THEN Head(workQueue).text ELSE answer[c]]
  /\ targets' = {}
  /\ lost' = FALSE
  /\ UNCHANGED <<clipboardEnabled, owner, running, clientVars, connVars, socketVars,
                 activityVars, androidVars, told, missed, wanted, overwritten, delivered>>

\* The same, where the memory of an exited client has other contents by now.
Crash ==
  /\ workQueue # <<>> /\ Head(workQueue).type = "data"
  /\ targets \intersect gone # {}
  /\ running' = FALSE
  /\ conn' = "none" /\ toServer' = <<>> /\ toActivity' = <<>> /\ shifted' = FALSE
  /\ missed' = TRUE /\ lost' = TRUE /\ wanted' = NULL
  /\ UNCHANGED <<clipboardEnabled, owner, cachedData, targets, workQueue, clientVars,
                 connections, activityVars, androidVars, told, answer, overwritten, delivered>>
-----------------------------------------------------------------------------
(* The activity. *)

\* Another program copies, text or something else.
AndroidCopy ==
  /\ version + copies < MaxTexts
  /\ version' = version + 1
  /\ clipText' \in BOOLEAN
  /\ fresh' = ~grace
  /\ missed' = grace
  /\ notified' = (notified \/ listening)
  /\ UNCHANGED <<serverVars, clientVars, connVars, socketVars, alive, sync, focus, listening,
                 grace, told, answer, lost, wanted, overwritten, delivered>>

\* A text is announced if it is newer than the time remembered.  The time is
\* remembered also when there is nobody to announce it to.
checkForClipboardChange ==
  IF sync /\ clipText /\ fresh
  THEN /\ fresh' = FALSE
       /\ toServer' = IF conn = "up" THEN Append(toServer, Message("announce", version))
                      ELSE toServer
       /\ missed' = (conn # "up")
  ELSE UNCHANGED <<fresh, toServer, missed>>

\* The listener is called for a copy made while the window had the focus.
handleClipboardChange ==
  /\ notified
  /\ Len(toServer) < MaxInFlight
  /\ notified' = FALSE
  /\ checkForClipboardChange
  /\ UNCHANGED <<serverVars, clientVars, connVars, toActivity, alive, sync, focus, listening,
                 version, clipText, grace, told, answer, lost, wanted, overwritten, delivered>>

\* The window gets or loses the focus.
onWindowFocusChanged ==
  /\ alive
  /\ Len(toServer) < MaxInFlight
  /\ focus' = ~focus
  /\ \/ /\ sync /\ focus'
        /\ listening' = TRUE
        /\ checkForClipboardChange
        /\ UNCHANGED notified
     \/ /\ ~(sync /\ focus')
        /\ listening' = FALSE
        /\ notified' = FALSE
        /\ UNCHANGED <<fresh, toServer, missed>>
  /\ UNCHANGED <<serverVars, clientVars, connVars, toActivity, alive, sync, version, clipText,
                 grace, told, answer, lost, wanted, overwritten, delivered>>

\* The event for the value of the preference.
EnableEvent(b) == Message(IF b THEN "enable" ELSE "disable", NULL)

\* The user changes the preference.
reloadPreferences ==
  /\ alive
  /\ Len(toServer) < MaxInFlight
  /\ sync' = ~sync
  /\ toServer' = IF conn = "up" THEN Append(toServer, EnableEvent(~sync)) ELSE toServer
  /\ UNCHANGED <<serverVars, clientVars, connVars, toActivity, alive, focus, listening, notified,
                 androidVars, historyVars>>

\* Mutant: nothing is sent when the clipboard is not shared.
SendClipboardMutant ==
  toServer' = IF sync /\ clipText THEN Append(toServer, Message("data", version)) ELSE toServer

\* sendClipboardEvent as requestClipboard calls it.
SendClipboard ==
  toServer' = IF sync /\ ~clipText THEN toServer
              ELSE Append(toServer, Message("data", IF sync THEN version ELSE Empty))

\* EVENT_CLIPBOARD_REQUEST: the text is sent, the empty one if the clipboard
\* is not shared; there is no answer if the clipboard holds no text.
requestClipboard ==
  /\ conn = "up" /\ ~shifted /\ toActivity # <<>> /\ Head(toActivity).type = "request"
  /\ toActivity' = Tail(toActivity)
  /\ SendClipboard
  /\ lost' = (lost \/ (sync /\ ~clipText))
  /\ UNCHANGED <<serverVars, clientVars, connVars, activityVars, androidVars, told, answer,
                 missed, wanted, overwritten, delivered>>

\* EVENT_CLIPBOARD_SEND: the text becomes that of the clipboard, and no copy
\* is announced for the next 150 ms.  One byte more than the text is read: if
\* there is another event, it has lost its first byte.
setClipboardText ==
  /\ conn = "up" /\ ~shifted /\ toActivity # <<>> /\ Head(toActivity).type = "text"
  /\ toActivity' = Tail(toActivity)
  /\ shifted' = (Tail(toActivity) # <<>>)
  /\ version' = version + 1
  /\ clipText' = TRUE /\ fresh' = FALSE /\ grace' = TRUE /\ missed' = TRUE
  /\ delivered' = delivered \union {Head(toActivity).text}
  /\ UNCHANGED <<serverVars, clientVars, conn, connections, toServer, activityVars, told,
                 answer, lost, wanted, overwritten>>

\* What is read out of step has an unknown type and is dropped.
ReadShifted ==
  /\ conn = "up" /\ shifted /\ toActivity # <<>>
  /\ toActivity' = Tail(toActivity)
  /\ lost' = (lost \/ Head(toActivity).type = "request")
  /\ wanted' = IF Head(toActivity).type = "text" THEN NULL ELSE wanted
  /\ UNCHANGED <<serverVars, clientVars, connVars, toServer, activityVars, androidVars, told,
                 answer, missed, overwritten, delivered>>

\* The last read is too short for an event; the next one is in step again.
ReadShort ==
  /\ conn = "up" /\ shifted /\ toActivity = <<>>
  /\ shifted' = FALSE
  /\ UNCHANGED <<serverVars, clientVars, conn, connections, socketVars, activityVars,
                 androidVars, historyVars>>

\* The 150 ms are over.
GraceEnds ==
  /\ grace
  /\ grace' = FALSE
  /\ UNCHANGED <<serverVars, clientVars, connVars, socketVars, activityVars, version, clipText,
                 fresh, historyVars>>
-----------------------------------------------------------------------------
(* The life of the activity and of the connection. *)

\* A new activity: what is in the clipboard is older than its view.
ActivityStart ==
  /\ ~alive
  /\ alive' = TRUE
  /\ fresh' = FALSE
  /\ missed' = (missed \/ fresh)
  /\ UNCHANGED <<serverVars, clientVars, connVars, socketVars, sync, focus, listening, notified,
                 version, clipText, grace, told, answer, lost, wanted, overwritten, delivered>>

\* tryConnect: a new socket, and reloadPreferences tells the server whether
\* the clipboard is shared.
Connect ==
  /\ alive /\ running /\ conn = "none" /\ connections < MaxConn
  /\ conn' = "up"
  /\ connections' = connections + 1
  /\ toServer' = <<EnableEvent(sync)>>
  /\ UNCHANGED <<serverVars, clientVars, shifted, toActivity, activityVars, androidVars,
                 historyVars>>

\* The activity ends, and the socket with it.
ActivityGone ==
  /\ alive
  /\ alive' = FALSE /\ focus' = FALSE /\ listening' = FALSE /\ notified' = FALSE
  /\ conn' = IF conn = "up" THEN "hung" ELSE conn
  /\ toActivity' = <<>> /\ shifted' = FALSE
  /\ grace' = FALSE
  /\ lost' = (lost \/ targets # {})
  /\ wanted' = NULL
  /\ UNCHANGED <<serverVars, clientVars, connections, toServer, sync, version, clipText, fresh,
                 told, answer, missed, overwritten, delivered>>
-----------------------------------------------------------------------------
ServerWork == lorieHandleClipboardAnnounce \/ lorieHandleClipboardData \/ Crash
ActivityReads == requestClipboard \/ setClipboardText \/ ReadShifted \/ ReadShort

Next ==
  \/ running /\ \E c \in Clients : \/ XCopy(c) \/ XAnswerTargets(c)
                                   \/ XStoreText(c) \/ XAnswerText(c)
                                   \/ lorieProcConvertSelection(c) \/ ClientGone(c)
  \/ running /\ (handleLorieEvents \/ HangUp \/ ServerWork)
  \/ AndroidCopy \/ handleClipboardChange \/ onWindowFocusChanged \/ reloadPreferences
  \/ ActivityReads \/ GraceEnds
  \/ ActivityStart \/ Connect \/ ActivityGone

Spec == Init /\ [][Next]_vars
-----------------------------------------------------------------------------
(* Properties. *)

\* What is on the way to the X server's main thread.
Pipe == Elements(workQueue) \union Elements(toServer)

\* A cached text that may be pasted is the one in the Android clipboard, or
\* the change has yet to be noticed, or its announcement is on the way, or it
\* is one of those the code never announces: lorieHandleClipboardAnnounce
\* empties the cache before a text can be older than what was announced.
CacheFresh ==
  (owner = Root /\ cachedData \in Nat /\ cachedData # version) =>
    \/ fresh \/ missed
    \/ Message("announce", version) \in Pipe

\* A request on the list lorieDataTargetHead is on its way to the activity or
\* its answer is on its way back, unless it was lost for a reason known.
RequestCovered ==
  (targets # {} /\ ~lost) =>
    \/ \E m \in Elements(toActivity) : m.type = "request"
    \/ \E m \in Pipe : m.type = "data"

\* A text copied in X, by a client that still owns the selection while the
\* clipboard is shared, has reached Android or is on the way: the owner has
\* a request to answer or the activity a text to read; the property it is
\* stored in is shared, so it is lost if another client replaces it there
\* between the owner's XChangeProperty and its SendEvent (lorieHandleSelection).
CopyCovered ==
  (wanted # NULL /\ ~overwritten) =>
    \/ wanted \in delivered
    \/ owner \in Clients /\ text[owner] = wanted /\ asked[owner] # <<>>
    \/ Message("text", wanted) \in Elements(toActivity)

\* The cache, the queues and the two sides of the socket provide what pasting
\* promises: nobody gets a text older than the last one announced.
Service == INSTANCE ClipboardService WITH clip <- version, waiting <- targets
Refines == Service!Spec

\* A text that is cached can be used again (clipboard.c): in a state where
\* the activity has the focus and nothing is on its way, the text cached is
\* the one in the Android clipboard.
CacheReusable ==
  (/\ owner = Root /\ cachedData \in Nat /\ conn = "up" /\ sync /\ focus /\ ~fresh
   /\ Pipe = {} /\ toActivity = <<>> /\ clipText)
  => cachedData = version
=============================================================================
