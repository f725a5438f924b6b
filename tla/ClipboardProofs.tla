-------------------------- MODULE ClipboardProofs --------------------------
(***************************************************************************)
(* Proofs about Clipboard, for any number of clients, texts, copies,       *)
(* connections and events in flight.                                       *)
(***************************************************************************)
EXTENDS Clipboard, TLAPS

USE ClipboardAssumption

\* What a client is asked for it has: the request goes to the owner of the
\* selection, who has copied something.  Who has stored a text was asked for it
\* and has not said so yet.
Offers ==
  /\ owner \in Clients => text[owner] \in Nat
  /\ \A c \in Clients : asked[c] # <<>> => text[c] \in Nat
  /\ \A c \in stored : asked[c] # <<>> /\ Head(asked[c]) = "TEXT" /\ property \in Nat

TypeInv == ServerType /\ ActivityType /\ HistoryType /\ Offers

\* The first element and the others are the elements of a sequence.
LEMMA HeadTail ==
  ASSUME NEW S, NEW s \in Seq(S), s # <<>>
  PROVE  /\ Head(s) \in S
         /\ Tail(s) \in Seq(S)
         /\ Elements(s) = {Head(s)} \union Elements(Tail(s))
<1>1. Head(s) \in S /\ Tail(s) \in Seq(S) /\ Head(s) = s[1] /\ Len(s) \in Nat \ {0}
  OBVIOUS
<1>2. DOMAIN s = 1..Len(s) /\ DOMAIN Tail(s) = 1..(Len(s) - 1)
  OBVIOUS
<1>3. \A i \in 1..(Len(s) - 1) : Tail(s)[i] = s[i + 1]
  OBVIOUS
<1>4. \A i \in 2..Len(s) : i - 1 \in 1..(Len(s) - 1) /\ s[i] = Tail(s)[i - 1]
  BY <1>1, <1>3
<1>5. Elements(s) \subseteq {Head(s)} \union Elements(Tail(s))
  <2> SUFFICES ASSUME NEW i \in 1..Len(s) PROVE s[i] \in {Head(s)} \union Elements(Tail(s))
    BY <1>2 DEF Elements
  <2>1. CASE i = 1 BY <2>1, <1>1
  <2>2. CASE i # 1
    <3>1. i \in 2..Len(s) BY <2>2, <1>1
    <3> QED BY <3>1, <1>2, <1>4 DEF Elements
  <2> QED BY <2>1, <2>2
<1>6. {Head(s)} \union Elements(Tail(s)) \subseteq Elements(s)
  <2>1. \A i \in 1..(Len(s) - 1) : i + 1 \in 1..Len(s) BY <1>1
  <2>2. 1 \in 1..Len(s) BY <1>1
  <2> QED BY <2>1, <2>2, <1>1, <1>2, <1>3 DEF Elements
<1> QED BY <1>1, <1>5, <1>6

\* An element appended joins the others.
LEMMA AppendElement ==
  ASSUME NEW S, NEW s \in Seq(S), NEW x \in S
  PROVE  /\ Append(s, x) \in Seq(S)
         /\ Elements(Append(s, x)) = Elements(s) \union {x}
<1>1. /\ Append(s, x) \in Seq(S) /\ Len(s) \in Nat
      /\ DOMAIN s = 1..Len(s) /\ DOMAIN Append(s, x) = 1..(Len(s) + 1)
      /\ Append(s, x)[Len(s) + 1] = x
      /\ \A i \in 1..Len(s) : Append(s, x)[i] = s[i]
  OBVIOUS
<1>2. \A i \in 1..(Len(s) + 1) : i \in 1..Len(s) \/ i = Len(s) + 1
  BY <1>1
<1>3. 1..Len(s) \subseteq 1..(Len(s) + 1) /\ Len(s) + 1 \in 1..(Len(s) + 1)
  BY <1>1
<1> QED BY <1>1, <1>2, <1>3 DEF Elements

\* A sequence with an element appended is not empty; its head is the old one if
\* there was one, and then it has a tail.
LEMMA AppendNotEmpty ==
  ASSUME NEW S, NEW s \in Seq(S), NEW x \in S
  PROVE  /\ Append(s, x) # <<>>
         /\ s # <<>> => Head(Append(s, x)) = Head(s) /\ Tail(Append(s, x)) # <<>>
<1>1. Len(Append(s, x)) = Len(s) + 1 /\ Len(s) \in Nat /\ Len(<<>>) = 0
  OBVIOUS
<1>2. ASSUME s # <<>> PROVE Head(Append(s, x)) = Head(s) /\ Tail(Append(s, x)) # <<>>
  <2>1. Len(s) > 0 /\ Append(s, x) \in Seq(S) /\ Append(s, x)[1] = s[1]
    BY <1>1, <1>2
  <2>2. Len(Tail(Append(s, x))) = Len(s)
    BY <1>1, <2>1
  <2> QED BY <1>1, <2>1, <2>2
<1> QED BY <1>1, <1>2

LEMMA AppendKeepsText ==
  ASSUME NEW s \in Seq({"TARGETS", "TEXT"}), NEW x \in {"TARGETS", "TEXT"},
         s # <<>>, Head(s) = "TEXT"
  PROVE  Append(s, x) # <<>> /\ Head(Append(s, x)) = "TEXT"
  BY AppendNotEmpty

\* The events the model makes are of the types it declares.
LEMMA MessageTypes ==
  /\ \A n \in Nat : /\ Message("announce", n) \in ServerEvent
                     /\ Message("data", n) \in ServerEvent
                     /\ Message("text", n) \in ActivityEvent
  /\ Message("data", Empty) \in ServerEvent
  /\ \A b \in BOOLEAN : EnableEvent(b) \in ServerEvent
  /\ Message("request", NULL) \in ActivityEvent
  BY DEF Message, ServerEvent, ActivityEvent, Work, EnableEvent

\* What the events hold, by their type.
LEMMA EventTexts ==
  /\ \A e \in ActivityEvent : e.type = "text" => e.text \in Nat
  /\ \A e \in ServerEvent : e.type \in {"announce", "data"} => e \in Work
  /\ \A e \in Work : /\ e.type = "announce" => e.text \in Nat
                     /\ e.type = "data" => e.text \in Nat \union {Empty}
  BY DEF ServerEvent, ActivityEvent, Work

\* An announcement is an event.
LEMMA CheckTypes ==
  ASSUME ActivityType, checkForClipboardChange
  PROVE  toServer' \in Seq(ServerEvent) /\ fresh' \in BOOLEAN
<1>1. Append(toServer, Message("announce", version)) \in Seq(ServerEvent)
  BY MessageTypes, AppendElement DEF ActivityType
<1>2. toServer' \in {toServer, Append(toServer, Message("announce", version))}
  BY DEF checkForClipboardChange
<1> QED BY <1>1, <1>2 DEF checkForClipboardChange, ActivityType

\* Every step keeps the types and what is offered.
LEMMA TypeStep == TypeInv /\ [Next]_vars => TypeInv'
<1> SUFFICES ASSUME TypeInv, [Next]_vars
             PROVE  ServerType' /\ ActivityType' /\ HistoryType' /\ Offers'
  BY DEF TypeInv
<1> USE DEF TypeInv, serverVars, clientVars, connVars, socketVars, activityVars, androidVars,
            historyVars
<1>1. ASSUME NEW c \in Clients, XCopy(c) PROVE ServerType' /\ ActivityType' /\ HistoryType' /\ Offers'
  <2>1. ServerType' BY <1>1 DEF ServerType, XCopy, lorieSelectionRequest
  <2>2. ActivityType' BY <1>1 DEF ServerType, ActivityType, XCopy, lorieSelectionRequest
  <2>3. HistoryType'
    <3>1. wanted' \in Nat \union {NULL}
      BY <1>1 DEF ServerType, XCopy
    <3>2. overwritten' = FALSE /\ UNCHANGED <<told, answer, missed, lost, delivered>>
      BY <1>1 DEF XCopy
    <3> QED BY <3>1, <3>2 DEF HistoryType
  <2>4. Offers'
    <3>1. \A d \in Clients : asked[d] \in Seq({"TARGETS", "TEXT"})
      BY DEF ServerType
    <3>2. \A d \in stored : asked'[d] = asked[d] \/ asked'[d] = Append(asked[d], "TARGETS")
      BY <1>1 DEF ServerType, XCopy, lorieSelectionRequest
    <3>3. \A d \in stored : asked'[d] # <<>> /\ Head(asked'[d]) = "TEXT"
      <4> SUFFICES ASSUME NEW d \in stored PROVE asked'[d] # <<>> /\ Head(asked'[d]) = "TEXT"
        OBVIOUS
      <4>1. asked[d] \in Seq({"TARGETS", "TEXT"}) /\ asked[d] # <<>> /\ Head(asked[d]) = "TEXT"
        BY <3>1 DEF ServerType, Offers
      <4> QED BY <3>2, <4>1, AppendKeepsText
    <3>4. /\ owner' \in Clients => text'[owner'] \in Nat
          /\ \A d \in Clients : asked'[d] # <<>> => text'[d] \in Nat
      BY <1>1 DEF ServerType, Offers, XCopy, lorieSelectionRequest
    <3> QED BY <1>1, <3>3, <3>4 DEF Offers, XCopy
  <2> QED BY <2>1, <2>2, <2>3, <2>4
<1>2. ASSUME NEW c \in Clients, XAnswerTargets(c) PROVE ServerType' /\ ActivityType' /\ HistoryType' /\ Offers'
  <2>1. ServerType'
    <3> DEFINE q == [asked EXCEPT ![c] = Tail(@)]
    <3>1. q \in [Clients -> Seq({"TARGETS", "TEXT"})]
      <4>1. Tail(asked[c]) \in Seq({"TARGETS", "TEXT"})
        BY <1>2, HeadTail DEF XAnswerTargets, ServerType
      <4> QED BY <4>1 DEF ServerType
    <3>2. asked' = q \/ (owner \in Clients /\ asked' = [q EXCEPT ![owner] = Append(@, "TEXT")])
      BY <1>2 DEF XAnswerTargets, lorieSelectionRequest
    <3>3. asked' \in [Clients -> Seq({"TARGETS", "TEXT"})]
      <4> HIDE DEF q
      <4>1. CASE owner \in Clients /\ asked' = [q EXCEPT ![owner] = Append(@, "TEXT")]
        <5>1. q[owner] \in Seq({"TARGETS", "TEXT"}) BY <3>1, <4>1
        <5>2. Append(q[owner], "TEXT") \in Seq({"TARGETS", "TEXT"}) BY <5>1, AppendElement
        <5> QED BY <3>1, <4>1, <5>2
      <4> QED BY <3>1, <3>2, <4>1
    <3> QED BY <1>2, <3>3 DEF XAnswerTargets, ServerType
  <2>2. ActivityType' BY <1>2 DEF ServerType, ActivityType, XAnswerTargets, lorieSelectionRequest
  <2>3. HistoryType' BY <1>2 DEF ServerType, ActivityType, HistoryType, Offers, XAnswerTargets, lorieSelectionRequest
  <2>4. Offers'
    <3> DEFINE q == [asked EXCEPT ![c] = Tail(@)]
    <3>1. c \notin stored
      BY <1>2 DEF XAnswerTargets, Offers
    <3>2. \A d \in stored : q[d] = asked[d] /\ asked[d] \in Seq({"TARGETS", "TEXT"})
      BY <3>1 DEF ServerType
    <3>3. \A d \in stored : asked'[d] = q[d] \/ asked'[d] = Append(q[d], "TEXT")
      BY <1>2 DEF ServerType, XAnswerTargets, lorieSelectionRequest
    <3>4. \A d \in stored : asked'[d] # <<>> /\ Head(asked'[d]) = "TEXT"
      <4> SUFFICES ASSUME NEW d \in stored PROVE asked'[d] # <<>> /\ Head(asked'[d]) = "TEXT"
        OBVIOUS
      <4> HIDE DEF q
      <4>1. q[d] \in Seq({"TARGETS", "TEXT"}) /\ q[d] # <<>> /\ Head(q[d]) = "TEXT"
        BY <3>2 DEF Offers
      <4> QED BY <3>3, <4>1, AppendKeepsText
    <3>5. \A d \in Clients : asked'[d] # <<>> => text'[d] \in Nat
      BY <1>2 DEF ServerType, Offers, XAnswerTargets, lorieSelectionRequest
    <3> QED BY <1>2, <3>4, <3>5 DEF Offers, XAnswerTargets
  <2> QED BY <2>1, <2>2, <2>3, <2>4
<1>3. ASSUME NEW c \in Clients, XAnswerText(c) PROVE ServerType' /\ ActivityType' /\ HistoryType' /\ Offers'
  <2>1. ServerType'
    <3>1. asked[c] # <<>> /\ asked[c] \in Seq({"TARGETS", "TEXT"})
      BY <1>3 DEF XAnswerText, Offers, ServerType
    <3>2. Tail(asked[c]) \in Seq({"TARGETS", "TEXT"})
      BY <3>1, HeadTail
    <3> QED BY <1>3, <3>2 DEF ServerType, XAnswerText
  <2>2. ActivityType'
    <3>1. property \in Nat BY <1>3 DEF XAnswerText, Offers
    <3>2. toActivity' \in Seq(ActivityEvent)
      BY <1>3, <3>1, MessageTypes, AppendElement DEF XAnswerText, ActivityType
    <3> QED BY <1>3, <3>2 DEF XAnswerText, ActivityType
  <2>3. HistoryType' BY <1>3 DEF ServerType, ActivityType, HistoryType, Offers, XAnswerText, Message, ActivityEvent
  <2>4. Offers' BY <1>3 DEF ServerType, Offers, XAnswerText, Message, ActivityEvent
  <2> QED BY <2>1, <2>2, <2>3, <2>4
<1>4. ASSUME NEW c \in Clients, lorieProcConvertSelection(c) PROVE ServerType' /\ ActivityType' /\ HistoryType' /\ Offers'
  <2>1. ServerType' BY <1>4 DEF ServerType, lorieProcConvertSelection, Message, ActivityEvent
  <2>2. ActivityType'
    <3>1. toActivity' \in Seq(ActivityEvent)
      BY <1>4, MessageTypes, AppendElement DEF lorieProcConvertSelection, ActivityType
    <3> QED BY <1>4, <3>1 DEF lorieProcConvertSelection, ActivityType
  <2>3. HistoryType'
    <3>1. answer' \in [Clients -> Nat \union {NULL, Empty}]
      <4>1. CASE answer' = [answer EXCEPT ![c] = cachedData]
        BY <4>1 DEF ServerType, HistoryType
      <4>2. CASE UNCHANGED answer BY <4>2 DEF HistoryType
      <4> QED BY <1>4, <4>1, <4>2 DEF lorieProcConvertSelection
    <3>2. lost' \in BOOLEAN BY <1>4 DEF lorieProcConvertSelection, HistoryType
    <3> QED BY <1>4, <3>1, <3>2 DEF lorieProcConvertSelection, HistoryType
  <2>4. Offers' BY <1>4 DEF ServerType, Offers, lorieProcConvertSelection, Message, ActivityEvent
  <2> QED BY <2>1, <2>2, <2>3, <2>4
<1>5. ASSUME NEW c \in Clients, ClientGone(c) PROVE ServerType' /\ ActivityType' /\ HistoryType' /\ Offers'
  <2>1. ServerType' BY <1>5 DEF ServerType, ClientGone
  <2>2. ActivityType' BY <1>5 DEF ServerType, ActivityType, ClientGone
  <2>3. HistoryType' BY <1>5 DEF ServerType, ActivityType, HistoryType, Offers, ClientGone
  <2>4. Offers'
    <3>1. \A d \in Clients : d # c => asked'[d] = asked[d] /\ text'[d] = text[d]
      BY <1>5 DEF ServerType, ClientGone
    <3>2. asked'[c] = <<>> /\ stored' = stored \ {c} /\ owner' \in {owner, NULL} /\ owner' # c
      BY <1>5 DEF ServerType, ClientGone
    <3> QED BY <1>5, <3>1, <3>2 DEF Offers, ServerType, ClientGone
  <2> QED BY <2>1, <2>2, <2>3, <2>4
<1>6. CASE handleLorieEvents
  <2>1. ServerType'
    <3>1. Head(toServer) \in ServerEvent
      BY <1>6, HeadTail DEF handleLorieEvents, ActivityType
    <3>2. workQueue' \in Seq(Work)
      <4>1. \/ workQueue' = workQueue
            \/ /\ Head(toServer).type \in {"announce", "data"}
               /\ workQueue' = Append(workQueue, Head(toServer))
        BY <1>6 DEF handleLorieEvents
      <4>2. workQueue \in Seq(Work)
        BY DEF ServerType
      <4> QED BY <3>1, <4>1, <4>2, EventTexts, AppendElement
    <3>3. clipboardEnabled' \in BOOLEAN
      BY <1>6 DEF handleLorieEvents, ServerType
    <3> QED BY <1>6, <3>2, <3>3 DEF handleLorieEvents, ServerType
  <2>2. ActivityType' BY <1>6 DEF ServerType, ActivityType, handleLorieEvents, ServerEvent, Work
  <2>3. HistoryType' BY <1>6 DEF ServerType, ActivityType, HistoryType, Offers, handleLorieEvents, ServerEvent, Work
  <2>4. Offers' BY <1>6 DEF ServerType, Offers, handleLorieEvents, ServerEvent, Work
  <2> QED BY <2>1, <2>2, <2>3, <2>4
<1>7. CASE HangUp
  <2>1. ServerType' BY <1>7 DEF ServerType, HangUp, Message
  <2>2. ActivityType' BY <1>7 DEF ServerType, ActivityType, HangUp, Message
  <2>3. HistoryType' BY <1>7 DEF ServerType, ActivityType, HistoryType, Offers, HangUp, Message
  <2>4. Offers' BY <1>7 DEF ServerType, Offers, HangUp, Message
  <2> QED BY <2>1, <2>2, <2>3, <2>4
<1>8. CASE lorieHandleClipboardAnnounce
  <2>1. ServerType' BY <1>8 DEF ServerType, lorieHandleClipboardAnnounce, Work
  <2>2. ActivityType' BY <1>8 DEF ServerType, ActivityType, lorieHandleClipboardAnnounce, Work
  <2>3. HistoryType' BY <1>8 DEF ServerType, ActivityType, HistoryType, Offers, lorieHandleClipboardAnnounce, Work
  <2>4. Offers' BY <1>8 DEF ServerType, Offers, lorieHandleClipboardAnnounce, Work
  <2> QED BY <2>1, <2>2, <2>3, <2>4
<1>9. CASE lorieHandleClipboardData
  <2>1. ServerType' BY <1>9 DEF ServerType, lorieHandleClipboardData, Work
  <2>2. ActivityType' BY <1>9 DEF ServerType, ActivityType, lorieHandleClipboardData, Work
  <2>3. HistoryType'
    <3>1. Head(workQueue).text \in Nat \union {Empty}
      BY <1>9, HeadTail, EventTexts DEF lorieHandleClipboardData, ServerType
    <3>2. answer' \in [Clients -> Nat \union {NULL, Empty}]
      <4> DEFINE t == Head(workQueue).text
      <4>1. t \in Nat \union {Empty} BY <3>1
      <4>2. answer' = [d \in Clients |-> IF d \in targets \ gone THEN t ELSE answer[d]]
        BY <1>9 DEF lorieHandleClipboardData
      <4> HIDE DEF t
      <4> QED BY <4>1, <4>2 DEF HistoryType
    <3> QED BY <1>9, <3>2 DEF lorieHandleClipboardData, HistoryType
  <2>4. Offers' BY <1>9 DEF ServerType, Offers, lorieHandleClipboardData, Work
  <2> QED BY <2>1, <2>2, <2>3, <2>4
<1>10. CASE AndroidCopy
  <2>1. ServerType' BY <1>10 DEF ServerType, AndroidCopy
  <2>2. ActivityType' BY <1>10 DEF ServerType, ActivityType, AndroidCopy
  <2>3. HistoryType' BY <1>10 DEF ServerType, ActivityType, HistoryType, Offers, AndroidCopy
  <2>4. Offers' BY <1>10 DEF ServerType, Offers, AndroidCopy
  <2> QED BY <2>1, <2>2, <2>3, <2>4
<1>11. CASE handleClipboardChange
  <2>1. ServerType' BY <1>11 DEF ServerType, handleClipboardChange, checkForClipboardChange, Message, ServerEvent, Work
  <2>2. ActivityType'
    <3>1. toServer' \in Seq(ServerEvent) /\ fresh' \in BOOLEAN
      BY <1>11, CheckTypes DEF handleClipboardChange, ActivityType
    <3> QED BY <1>11, <3>1 DEF handleClipboardChange, ActivityType
  <2>3. HistoryType' BY <1>11 DEF ServerType, ActivityType, HistoryType, Offers, handleClipboardChange, checkForClipboardChange, Message, ServerEvent, Work
  <2>4. Offers' BY <1>11 DEF ServerType, Offers, handleClipboardChange, checkForClipboardChange, Message, ServerEvent, Work
  <2> QED BY <2>1, <2>2, <2>3, <2>4
<1>12. CASE onWindowFocusChanged
  <2>1. ServerType' BY <1>12 DEF ServerType, onWindowFocusChanged, checkForClipboardChange, Message, ServerEvent, Work
  <2>2. ActivityType'
    <3>1. toServer' \in Seq(ServerEvent) /\ fresh' \in BOOLEAN
      BY <1>12, CheckTypes DEF onWindowFocusChanged, ActivityType
    <3>2. focus' \in BOOLEAN /\ listening' \in BOOLEAN /\ notified' \in BOOLEAN
      BY <1>12 DEF onWindowFocusChanged, ActivityType
    <3> QED BY <1>12, <3>1, <3>2 DEF onWindowFocusChanged, ActivityType
  <2>3. HistoryType' BY <1>12 DEF ServerType, ActivityType, HistoryType, Offers, onWindowFocusChanged, checkForClipboardChange, Message, ServerEvent, Work
  <2>4. Offers' BY <1>12 DEF ServerType, Offers, onWindowFocusChanged, checkForClipboardChange, Message, ServerEvent, Work
  <2> QED BY <2>1, <2>2, <2>3, <2>4
<1>13. CASE reloadPreferences
  <2>1. ServerType' BY <1>13 DEF ServerType, reloadPreferences, EnableEvent, Message, ServerEvent
  <2>2. ActivityType' BY <1>13 DEF ServerType, ActivityType, reloadPreferences, EnableEvent, Message, ServerEvent
  <2>3. HistoryType' BY <1>13 DEF ServerType, ActivityType, HistoryType, Offers, reloadPreferences, EnableEvent, Message, ServerEvent
  <2>4. Offers' BY <1>13 DEF ServerType, Offers, reloadPreferences, EnableEvent, Message, ServerEvent
  <2> QED BY <2>1, <2>2, <2>3, <2>4
<1>14. CASE requestClipboard
  <2>1. ServerType' BY <1>14 DEF ServerType, requestClipboard, SendClipboard, Message, ServerEvent, Work, ActivityEvent
  <2>2. ActivityType'
    <3>1. Message("data", IF sync THEN version ELSE Empty) \in ServerEvent
      BY MessageTypes DEF ActivityType
    <3>2. toServer' \in Seq(ServerEvent)
      BY <1>14, <3>1, AppendElement DEF requestClipboard, SendClipboard, ActivityType
    <3>3. toActivity' \in Seq(ActivityEvent)
      BY <1>14, HeadTail DEF requestClipboard, ActivityType
    <3> QED BY <1>14, <3>2, <3>3 DEF requestClipboard, ActivityType
  <2>3. HistoryType' BY <1>14 DEF ServerType, ActivityType, HistoryType, Offers, requestClipboard, SendClipboard, Message, ServerEvent, Work, ActivityEvent
  <2>4. Offers' BY <1>14 DEF ServerType, Offers, requestClipboard, SendClipboard, Message, ServerEvent, Work, ActivityEvent
  <2> QED BY <2>1, <2>2, <2>3, <2>4
<1>15. CASE setClipboardText
  <2>1. ServerType' BY <1>15 DEF ServerType, setClipboardText, ActivityEvent
  <2>2. ActivityType'
    <3>1. toActivity' \in Seq(ActivityEvent)
      BY <1>15, HeadTail DEF setClipboardText, ActivityType
    <3>2. shifted' \in BOOLEAN /\ version' \in Nat
      BY <1>15 DEF setClipboardText, ActivityType
    <3> QED BY <1>15, <3>1, <3>2 DEF setClipboardText, ActivityType
  <2>3. HistoryType'
    <3>1. Head(toActivity).text \in Nat
      BY <1>15, HeadTail, EventTexts DEF setClipboardText, ActivityType
    <3> QED BY <1>15, <3>1 DEF setClipboardText, HistoryType
  <2>4. Offers' BY <1>15 DEF ServerType, Offers, setClipboardText, ActivityEvent
  <2> QED BY <2>1, <2>2, <2>3, <2>4
<1>16. CASE ReadShifted
  <2>1. ServerType' BY <1>16 DEF ServerType, ReadShifted, ActivityEvent
  <2>2. ActivityType' BY <1>16 DEF ServerType, ActivityType, ReadShifted, ActivityEvent
  <2>3. HistoryType' BY <1>16 DEF ServerType, ActivityType, HistoryType, Offers, ReadShifted, ActivityEvent
  <2>4. Offers' BY <1>16 DEF ServerType, Offers, ReadShifted, ActivityEvent
  <2> QED BY <2>1, <2>2, <2>3, <2>4
<1>17. CASE ReadShort
  <2>1. ServerType' BY <1>17 DEF ServerType, ReadShort
  <2>2. ActivityType' BY <1>17 DEF ServerType, ActivityType, ReadShort
  <2>3. HistoryType' BY <1>17 DEF ServerType, ActivityType, HistoryType, Offers, ReadShort
  <2>4. Offers' BY <1>17 DEF ServerType, Offers, ReadShort
  <2> QED BY <2>1, <2>2, <2>3, <2>4
<1>18. CASE GraceEnds
  <2>1. ServerType' BY <1>18 DEF ServerType, GraceEnds
  <2>2. ActivityType' BY <1>18 DEF ServerType, ActivityType, GraceEnds
  <2>3. HistoryType' BY <1>18 DEF ServerType, ActivityType, HistoryType, Offers, GraceEnds
  <2>4. Offers' BY <1>18 DEF ServerType, Offers, GraceEnds
  <2> QED BY <2>1, <2>2, <2>3, <2>4
<1>19. CASE ActivityStart
  <2>1. ServerType' BY <1>19 DEF ServerType, ActivityStart
  <2>2. ActivityType' BY <1>19 DEF ServerType, ActivityType, ActivityStart
  <2>3. HistoryType' BY <1>19 DEF ServerType, ActivityType, HistoryType, Offers, ActivityStart
  <2>4. Offers' BY <1>19 DEF ServerType, Offers, ActivityStart
  <2> QED BY <2>1, <2>2, <2>3, <2>4
<1>20. CASE Connect
  <2>1. ServerType' BY <1>20 DEF ServerType, Connect, EnableEvent, Message, ServerEvent
  <2>2. ActivityType' BY <1>20 DEF ServerType, ActivityType, Connect, EnableEvent, Message, ServerEvent
  <2>3. HistoryType' BY <1>20 DEF ServerType, ActivityType, HistoryType, Offers, Connect, EnableEvent, Message, ServerEvent
  <2>4. Offers' BY <1>20 DEF ServerType, Offers, Connect, EnableEvent, Message, ServerEvent
  <2> QED BY <2>1, <2>2, <2>3, <2>4
<1>21. CASE ActivityGone
  <2>1. ServerType' BY <1>21 DEF ServerType, ActivityGone
  <2>2. ActivityType'
    <3>1. toActivity' \in Seq(ActivityEvent) /\ conn' \in {"none", "up", "hung"}
      BY <1>21 DEF ActivityGone, ActivityType
    <3> QED BY <1>21, <3>1 DEF ActivityGone, ActivityType
  <2>3. HistoryType' BY <1>21 DEF ServerType, ActivityType, HistoryType, Offers, ActivityGone
  <2>4. Offers' BY <1>21 DEF ServerType, Offers, ActivityGone
  <2> QED BY <2>1, <2>2, <2>3, <2>4
<1>22. CASE UNCHANGED vars
  BY <1>22 DEF vars, ServerType, ActivityType, HistoryType, Offers
<1>23. ASSUME NEW c \in Clients, XStoreText(c)
       PROVE  ServerType' /\ ActivityType' /\ HistoryType' /\ Offers'
  <2>1. text[c] \in Nat BY <1>23 DEF XStoreText, Offers
  <2>2. ServerType' BY <1>23, <2>1 DEF ServerType, XStoreText
  <2>3. ActivityType' BY <1>23 DEF ActivityType, XStoreText
  <2>4. HistoryType' BY <1>23 DEF ServerType, HistoryType, XStoreText
  <2>5. Offers' BY <1>23, <2>1 DEF ServerType, Offers, XStoreText
  <2> QED BY <2>2, <2>3, <2>4, <2>5
<1>24. CASE Crash
  <2>1. ServerType' BY <1>24 DEF ServerType, Crash
  <2>2. ActivityType'
    <3>1. toServer' \in Seq(ServerEvent) /\ toActivity' \in Seq(ActivityEvent)
      BY <1>24 DEF Crash
    <3> QED BY <1>24, <3>1 DEF ActivityType, Crash
  <2>3. HistoryType' BY <1>24 DEF HistoryType, Crash
  <2>4. Offers' BY <1>24 DEF Offers, Crash
  <2> QED BY <2>1, <2>2, <2>3, <2>4
<1> QED BY <1>1, <1>2, <1>3, <1>4, <1>5, <1>6, <1>7, <1>8, <1>9, <1>10, <1>11, <1>12,
            <1>13, <1>14, <1>15, <1>16, <1>17, <1>18, <1>19, <1>20, <1>21, <1>22, <1>23, <1>24
       DEF Next, ServerWork, ActivityReads

\* The initial states have the types.
LEMMA TypeInit == Init => TypeInv
<1> SUFFICES ASSUME Init PROVE TypeInv
  OBVIOUS
<1>1. ServerType
  <2>1. workQueue \in Seq(Work) BY DEF Init
  <2>2. asked \in [Clients -> Seq({"TARGETS", "TEXT"})] BY DEF Init
  <2> QED BY <2>1, <2>2 DEF Init, ServerType
<1>2. ActivityType
  <2>1. toServer \in Seq(ServerEvent) BY DEF Init
  <2>2. toActivity \in Seq(ActivityEvent) BY DEF Init
  <2> QED BY <2>1, <2>2 DEF Init, ActivityType
<1>3. HistoryType BY DEF Init, HistoryType
<1>4. Offers BY DEF Init, Offers
<1> QED BY <1>1, <1>2, <1>3, <1>4 DEF TypeInv

\* Every variable of Clipboard keeps its type, and nobody is asked for a text
\* without having one, in every reachable state.
THEOREM TypeCorrect == Spec => []TypeOK
<1>1. TypeInv => TypeOK
  BY DEF TypeInv, TypeOK
<1> QED BY <1>1, TypeInit, TypeStep, PTL DEF Spec
-----------------------------------------------------------------------------
(* Requests are covered. *)

\* A client that waits, with nothing lost, waits for a connection that is up:
\* the end of a connection counts as a loss for everybody on the list.
WaitInv ==
  (targets # {} /\ ~lost) =>
    /\ conn = "up"
    /\ \/ \E m \in Elements(toActivity) : m.type = "request"
       \/ \E m \in Pipe : m.type = "data"

\* What handleLorieEvents takes from the socket is still on its way, unless it
\* is the value of the preference.
LEMMA PipeMoves ==
  ASSUME ServerType, ActivityType, handleLorieEvents
  PROVE  Pipe' = Pipe \/ \E e \in ServerEvent : e.type \in {"enable", "disable"} /\ Pipe = Pipe' \union {e}
<1> DEFINE e == Head(toServer)
<1>1. e \in ServerEvent /\ Elements(toServer) = {e} \union Elements(Tail(toServer))
  BY HeadTail DEF handleLorieEvents, ActivityType
<1>2. Elements(toServer') = Elements(Tail(toServer))
  BY DEF handleLorieEvents
<1>3. CASE e.type \in {"enable", "disable"} /\ workQueue' = workQueue
  BY <1>1, <1>2, <1>3 DEF Pipe
<1>4. CASE e.type \in {"announce", "data"} /\ workQueue' = Append(workQueue, e)
  <2>1. e \in Work BY <1>1, <1>4, EventTexts
  <2>2. Elements(workQueue') = Elements(workQueue) \union {e}
    BY <1>4, <2>1, AppendElement DEF ServerType
  <2> QED BY <1>1, <1>2, <2>2 DEF Pipe
<1> QED BY <1>3, <1>4 DEF handleLorieEvents

\* An announcement adds nothing but itself.
LEMMA PipeAnnounces ==
  ASSUME ActivityType, checkForClipboardChange, UNCHANGED <<workQueue, version, conn>>
  PROVE  \/ UNCHANGED <<Pipe, fresh, missed>>
         \/ UNCHANGED Pipe /\ missed'
         \/ Pipe' = Pipe \union {Message("announce", version)}
<1>1. Elements(Append(toServer, Message("announce", version)))
        = Elements(toServer) \union {Message("announce", version)}
  BY MessageTypes, AppendElement DEF ActivityType
<1>2. CASE sync /\ clipText /\ fresh /\ conn = "up"
  BY <1>1, <1>2 DEF checkForClipboardChange, Pipe
<1>3. CASE sync /\ clipText /\ fresh /\ conn # "up"
  BY <1>3 DEF checkForClipboardChange, Pipe
<1>4. CASE ~(sync /\ clipText /\ fresh)
  BY <1>4 DEF checkForClipboardChange, Pipe
<1> QED BY <1>2, <1>3, <1>4

\* Every step keeps the requests covered.
LEMMA WaitStep == TypeInv /\ WaitInv /\ [Next]_vars => WaitInv'
<1> SUFFICES ASSUME TypeInv, WaitInv, [Next]_vars PROVE WaitInv'
  OBVIOUS
<1> USE DEF TypeInv, serverVars, clientVars, connVars, socketVars, activityVars, androidVars,
            historyVars
<1>1. ASSUME NEW c \in Clients, XCopy(c) PROVE WaitInv'
  BY <1>1 DEF XCopy, WaitInv, Pipe
<1>2. ASSUME NEW c \in Clients, XAnswerTargets(c) PROVE WaitInv'
  BY <1>2 DEF XAnswerTargets, WaitInv, Pipe
<1>3. ASSUME NEW c \in Clients, XAnswerText(c) PROVE WaitInv'
  <2>1. property \in Nat BY <1>3 DEF XAnswerText, Offers
  <2>2. Elements(toActivity) \subseteq Elements(toActivity')
    BY <1>3, <2>1, MessageTypes, AppendElement DEF XAnswerText, ActivityType
  <2> QED BY <1>3, <2>2 DEF WaitInv, XAnswerText, Pipe
<1>4. ASSUME NEW c \in Clients, lorieProcConvertSelection(c) PROVE WaitInv'
  <2>1. CASE conn = "up" /\ toActivity' = Append(toActivity, Message("request", NULL))
    <3>1. Message("request", NULL) \in Elements(toActivity')
      BY <2>1, MessageTypes, AppendElement DEF ActivityType
    <3>2. Message("request", NULL).type = "request" BY DEF Message
    <3> QED BY <1>4, <2>1, <3>1, <3>2 DEF lorieProcConvertSelection, WaitInv
  <2>2. CASE UNCHANGED <<targets, toActivity, lost>>
    BY <1>4, <2>2 DEF lorieProcConvertSelection, WaitInv, Pipe
  <2>3. CASE lost'
    BY <2>3 DEF WaitInv
  <2> QED BY <1>4, <2>1, <2>2, <2>3 DEF lorieProcConvertSelection, HistoryType
<1>5. ASSUME NEW c \in Clients, ClientGone(c) PROVE WaitInv'
  BY <1>5 DEF ClientGone, WaitInv, Pipe
<1>6. CASE handleLorieEvents
  <2>1. \A m \in Pipe : m.type = "data" => m \in Pipe'
    BY <1>6, PipeMoves
  <2> QED BY <1>6, <2>1 DEF handleLorieEvents, WaitInv
<1>7. CASE HangUp
  BY <1>7 DEF HangUp, WaitInv, Pipe
<1>8. CASE lorieHandleClipboardAnnounce
  <2>1. Elements(workQueue) = {Head(workQueue)} \union Elements(workQueue')
    BY <1>8, HeadTail DEF lorieHandleClipboardAnnounce, ServerType
  <2>2. \A m \in Pipe : m.type = "data" => m \in Pipe'
    BY <1>8, <2>1 DEF lorieHandleClipboardAnnounce, Pipe
  <2> QED BY <1>8, <2>2 DEF lorieHandleClipboardAnnounce, WaitInv
<1>9. CASE lorieHandleClipboardData
  BY <1>9 DEF lorieHandleClipboardData, WaitInv, Pipe
<1>10. CASE AndroidCopy
  BY <1>10 DEF AndroidCopy, WaitInv, Pipe
<1>11. CASE handleClipboardChange
  <2>1. Pipe \subseteq Pipe'
    BY <1>11, PipeAnnounces DEF handleClipboardChange, Pipe
  <2> QED BY <1>11, <2>1 DEF handleClipboardChange, WaitInv
<1>12. CASE onWindowFocusChanged
  <2>1. Pipe \subseteq Pipe'
    BY <1>12, PipeAnnounces DEF onWindowFocusChanged, Pipe
  <2> QED BY <1>12, <2>1 DEF onWindowFocusChanged, WaitInv
<1>13. CASE reloadPreferences
  <2>1. Elements(toServer) \subseteq Elements(toServer')
    <3>1. EnableEvent(~sync) \in ServerEvent BY DEF EnableEvent, Message, ServerEvent
    <3>2. Elements(Append(toServer, EnableEvent(~sync)))
            = Elements(toServer) \union {EnableEvent(~sync)}
      BY <3>1, AppendElement DEF ActivityType
    <3> QED BY <1>13, <3>2 DEF reloadPreferences
  <2> QED BY <1>13, <2>1 DEF reloadPreferences, WaitInv, Pipe
<1>14. CASE requestClipboard
  <2> DEFINE m == Message("data", IF sync THEN version ELSE Empty)
  <2>1. CASE sync /\ ~clipText
    BY <1>14, <2>1 DEF requestClipboard, WaitInv
  <2>2. CASE ~(sync /\ ~clipText)
    <3>1. m \in ServerEvent BY MessageTypes DEF ActivityType
    <3>2. m \in Elements(toServer')
      BY <1>14, <2>2, <3>1, AppendElement DEF requestClipboard, SendClipboard, ActivityType
    <3>3. m.type = "data" BY DEF Message
    <3>4. m \in Pipe' BY <3>2 DEF Pipe
    <3> QED BY <1>14, <3>3, <3>4 DEF requestClipboard, WaitInv
  <2> QED BY <2>1, <2>2
<1>15. CASE setClipboardText
  <2>1. Elements(toActivity) = {Head(toActivity)} \union Elements(toActivity')
    BY <1>15, HeadTail DEF setClipboardText, ActivityType
  <2> QED BY <1>15, <2>1 DEF setClipboardText, WaitInv, Pipe
<1>16. CASE ReadShifted
  <2>1. Elements(toActivity) = {Head(toActivity)} \union Elements(toActivity')
    BY <1>16, HeadTail DEF ReadShifted, ActivityType
  <2> QED BY <1>16, <2>1 DEF ReadShifted, WaitInv, Pipe
<1>17. CASE ReadShort
  BY <1>17 DEF ReadShort, WaitInv, Pipe
<1>18. CASE GraceEnds
  BY <1>18 DEF GraceEnds, WaitInv, Pipe
<1>19. CASE ActivityStart
  BY <1>19 DEF ActivityStart, WaitInv, Pipe
<1>20. CASE Connect
  BY <1>20 DEF Connect, WaitInv, Pipe
<1>21. CASE ActivityGone
  BY <1>21 DEF ActivityGone, WaitInv, Pipe
<1>22. CASE UNCHANGED vars
  BY <1>22 DEF vars, WaitInv, Pipe
<1>23. ASSUME NEW c \in Clients, XStoreText(c) PROVE WaitInv'
  BY <1>23 DEF XStoreText, WaitInv, Pipe
<1>24. CASE Crash
  BY <1>24 DEF Crash, WaitInv
<1> QED BY <1>1, <1>2, <1>3, <1>4, <1>5, <1>6, <1>7, <1>8, <1>9, <1>10, <1>11, <1>12,
            <1>13, <1>14, <1>15, <1>16, <1>17, <1>18, <1>19, <1>20, <1>21, <1>22, <1>23, <1>24
       DEF Next, ServerWork, ActivityReads

\* A request for the text on the list lorieDataTargetHead is on its way to the
\* activity, or its answer is on its way back, unless the connection was lost,
\* the clipboard held no text or the socket was read out of step.
THEOREM RequestsCovered == Spec => []RequestCovered
<1>1. Init => WaitInv
  BY DEF Init, WaitInv
<1>2. WaitInv => RequestCovered
  BY DEF WaitInv, RequestCovered
<1> QED BY <1>1, <1>2, TypeInit, TypeStep, WaitStep, PTL DEF Spec
-----------------------------------------------------------------------------
(* Announcements and texts reach the X server in the order of the texts. *)

LE(a, b) == (a.text \in Nat /\ b.text \in Nat) => a.text <= b.text
Sorted(s) == \A i, j \in DOMAIN s : i < j => LE(s[i], s[j])
Before(S, T) == \A a \in S, b \in T : LE(a, b)

\* Nothing on the way to the X server, and nothing it has cached, is older
\* than what was announced last or than what is before it.
OrderInv ==
  /\ conn = "none" => toServer = <<>>
  /\ Sorted(workQueue) /\ Sorted(toServer)
  /\ Before(Elements(workQueue), Elements(toServer))
  /\ \A a \in Pipe : a.text \in Nat => told <= a.text /\ a.text <= version
  /\ told <= version
  /\ cachedData \in Nat => told <= cachedData /\ cachedData <= version

\* The rest of a sorted sequence is sorted, and comes after the first element.
LEMMA SortedTail ==
  ASSUME NEW S, NEW s \in Seq(S), s # <<>>, Sorted(s)
  PROVE  Sorted(Tail(s)) /\ Before({Head(s)}, Elements(Tail(s)))
<1>1. /\ DOMAIN s = 1..Len(s) /\ DOMAIN Tail(s) = 1..(Len(s) - 1)
      /\ Len(s) \in Nat \ {0} /\ Head(s) = s[1]
      /\ \A i \in 1..(Len(s) - 1) : Tail(s)[i] = s[i + 1]
  OBVIOUS
<1>2. \A i \in 1..(Len(s) - 1) : i + 1 \in 1..Len(s) /\ 1 < i + 1
  BY <1>1
<1>3. 1 \in 1..Len(s)
  BY <1>1
<1>4. Sorted(Tail(s))
  <2> SUFFICES ASSUME NEW i \in 1..(Len(s) - 1), NEW j \in 1..(Len(s) - 1), i < j
               PROVE  LE(Tail(s)[i], Tail(s)[j])
    BY <1>1 DEF Sorted
  <2>1. i + 1 < j + 1 BY <1>1
  <2>2. LE(s[i + 1], s[j + 1]) BY <2>1, <1>1, <1>2 DEF Sorted
  <2> QED BY <2>2, <1>1
<1>5. \A i \in 1..(Len(s) - 1) : LE(s[1], Tail(s)[i])
  BY <1>1, <1>2, <1>3 DEF Sorted
<1> QED BY <1>1, <1>4, <1>5 DEF Before, Elements

\* An element that comes after all others can be appended.
LEMMA SortedAppend ==
  ASSUME NEW S, NEW s \in Seq(S), NEW x \in S, Sorted(s), Before(Elements(s), {x})
  PROVE  Sorted(Append(s, x))
<1>1. /\ DOMAIN s = 1..Len(s) /\ DOMAIN Append(s, x) = 1..(Len(s) + 1) /\ Len(s) \in Nat
      /\ Append(s, x)[Len(s) + 1] = x
      /\ \A i \in 1..Len(s) : Append(s, x)[i] = s[i]
  OBVIOUS
<1> SUFFICES ASSUME NEW i \in 1..(Len(s) + 1), NEW j \in 1..(Len(s) + 1), i < j
             PROVE  LE(Append(s, x)[i], Append(s, x)[j])
  BY <1>1 DEF Sorted
<1>2. i \in 1..Len(s)
  BY <1>1
<1>3. CASE j = Len(s) + 1
  <2>1. s[i] \in Elements(s) BY <1>1, <1>2 DEF Elements
  <2>2. LE(s[i], x) BY <2>1 DEF Before
  <2> QED BY <2>2, <1>1, <1>2, <1>3
<1>4. CASE j # Len(s) + 1
  <2>1. j \in 1..Len(s) BY <1>1, <1>4
  <2>2. LE(s[i], s[j]) BY <2>1, <1>1, <1>2 DEF Sorted
  <2> QED BY <2>1, <2>2, <1>1, <1>2
<1> QED BY <1>3, <1>4

\* What the activity sends is about the text in the clipboard now, or about
\* none, so the order is kept.
LEMMA SendKeepsOrder ==
  ASSUME ServerType, ActivityType, HistoryType, OrderInv, conn = "up",
         NEW x \in ServerEvent, x.text \in Nat => x.text = version,
         toServer' = Append(toServer, x),
         UNCHANGED <<conn, workQueue, told, version, cachedData>>
  PROVE  OrderInv'
<1>1. Elements(toServer') = Elements(toServer) \union {x}
  BY AppendElement DEF ActivityType
<1>2. Before(Elements(workQueue), {x}) /\ Before(Elements(toServer), {x})
  BY DEF OrderInv, Before, LE, Pipe
<1>3. Sorted(toServer')
  BY <1>2, SortedAppend DEF ActivityType, OrderInv
<1>4. Before(Elements(workQueue'), Elements(toServer'))
  BY <1>1, <1>2 DEF OrderInv, Before
<1>5. Pipe' = Pipe \union {x}
  BY <1>1 DEF Pipe
<1>6. \A a \in Pipe' : a.text \in Nat => told' <= a.text /\ a.text <= version'
  BY <1>5 DEF OrderInv, HistoryType, ActivityType
<1> QED BY <1>3, <1>4, <1>6 DEF OrderInv

\* Every step keeps the order.
LEMMA OrderStep == TypeInv /\ OrderInv /\ [Next]_vars => OrderInv'
<1> SUFFICES ASSUME TypeInv, OrderInv, [Next]_vars PROVE OrderInv'
  OBVIOUS
<1> USE DEF TypeInv, serverVars, clientVars, connVars, socketVars, activityVars, androidVars,
            historyVars
<1>1. ASSUME NEW c \in Clients, XCopy(c) PROVE OrderInv'
  BY <1>1 DEF XCopy, OrderInv, Pipe
<1>2. ASSUME NEW c \in Clients, XAnswerTargets(c) PROVE OrderInv'
  BY <1>2 DEF XAnswerTargets, OrderInv, Pipe
<1>3. ASSUME NEW c \in Clients, XAnswerText(c) PROVE OrderInv'
  BY <1>3 DEF XAnswerText, OrderInv, Pipe
<1>4. ASSUME NEW c \in Clients, lorieProcConvertSelection(c) PROVE OrderInv'
  BY <1>4 DEF lorieProcConvertSelection, OrderInv, Pipe
<1>5. ASSUME NEW c \in Clients, ClientGone(c) PROVE OrderInv'
  BY <1>5 DEF ClientGone, OrderInv, Pipe
<1>6. CASE handleLorieEvents
  <2> DEFINE e == Head(toServer)
  <2>1. /\ e \in ServerEvent
        /\ Elements(toServer) = {e} \union Elements(toServer')
        /\ Sorted(toServer') /\ Before({e}, Elements(toServer'))
    BY <1>6, HeadTail, SortedTail DEF handleLorieEvents, ActivityType, OrderInv
  <2>2. Sorted(workQueue') /\ Before(Elements(workQueue'), Elements(toServer'))
    <3>1. CASE workQueue' = workQueue
      BY <2>1, <3>1 DEF OrderInv, Before
    <3>2. CASE e.type \in {"announce", "data"} /\ workQueue' = Append(workQueue, e)
      <4>1. e \in Work BY <2>1, <3>2, EventTexts
      <4>2. Before(Elements(workQueue), {e}) BY <2>1 DEF OrderInv, Before
      <4>3. Sorted(workQueue') BY <3>2, <4>1, <4>2, SortedAppend DEF ServerType, OrderInv
      <4>4. Elements(workQueue') = Elements(workQueue) \union {e}
        BY <3>2, <4>1, AppendElement DEF ServerType
      <4>5. Before(Elements(workQueue), Elements(toServer')) BY <2>1 DEF OrderInv, Before
      <4> QED BY <2>1, <4>3, <4>4, <4>5 DEF Before
    <3> QED BY <1>6, <3>1, <3>2 DEF handleLorieEvents
  <2>3. Pipe' \subseteq Pipe
    BY <1>6, PipeMoves
  <2> QED BY <1>6, <2>1, <2>2, <2>3 DEF handleLorieEvents, OrderInv
<1>7. CASE HangUp
  <2>1. Elements(toServer') = {} /\ Sorted(toServer')
    BY <1>7 DEF HangUp, Elements, Sorted
  <2>2. Pipe' \subseteq Pipe /\ Before(Elements(workQueue'), Elements(toServer'))
    BY <1>7, <2>1 DEF HangUp, Pipe, Before
  <2> QED BY <1>7, <2>1, <2>2 DEF HangUp, OrderInv
<1>8. CASE lorieHandleClipboardAnnounce
  <2> DEFINE e == Head(workQueue)
  <2>1. /\ e \in Work /\ Elements(workQueue) = {e} \union Elements(workQueue')
        /\ Sorted(workQueue') /\ Before({e}, Elements(workQueue'))
    BY <1>8, HeadTail, SortedTail DEF lorieHandleClipboardAnnounce, ServerType, OrderInv
  <2>2. e.text \in Nat
    BY <1>8, <2>1, EventTexts DEF lorieHandleClipboardAnnounce
  <2>3. Before({e}, Elements(toServer)) /\ Before(Elements(workQueue'), Elements(toServer))
    BY <2>1 DEF OrderInv, Before
  <2>4. \A a \in Pipe' : a.text \in Nat => e.text <= a.text /\ a.text <= version
    BY <1>8, <2>1, <2>2, <2>3 DEF lorieHandleClipboardAnnounce, OrderInv, Pipe, Before, LE
  <2>5. e.text <= version
    BY <2>1, <2>2 DEF OrderInv, Pipe
  <2> QED BY <1>8, <2>1, <2>3, <2>4, <2>5 DEF lorieHandleClipboardAnnounce, OrderInv
<1>9. CASE lorieHandleClipboardData
  <2> DEFINE e == Head(workQueue)
  <2>1. /\ Elements(workQueue) = {e} \union Elements(workQueue') /\ Sorted(workQueue')
    BY <1>9, HeadTail, SortedTail DEF lorieHandleClipboardData, ServerType, OrderInv
  <2>2. Before(Elements(workQueue'), Elements(toServer')) /\ Pipe' \subseteq Pipe /\ e \in Pipe
    BY <1>9, <2>1 DEF lorieHandleClipboardData, OrderInv, Before, Pipe
  <2> QED BY <1>9, <2>1, <2>2 DEF lorieHandleClipboardData, OrderInv
<1>10. CASE AndroidCopy
  <2>1. version <= version + 1 /\ told <= version + 1
    BY DEF OrderInv, ActivityType, HistoryType
  <2>2. \A n \in Nat : n <= version => n <= version + 1
    BY DEF ActivityType
  <2> QED BY <1>10, <2>1, <2>2 DEF AndroidCopy, OrderInv, Pipe
<1>11. CASE handleClipboardChange
  <2>1. CASE toServer' = Append(toServer, Message("announce", version)) /\ conn = "up"
    <3>1. /\ Message("announce", version) \in ServerEvent
          /\ Message("announce", version).text = version
      BY MessageTypes DEF ActivityType, Message
    <3> QED BY <1>11, <2>1, <3>1, SendKeepsOrder DEF handleClipboardChange
  <2>2. CASE toServer' = toServer
    BY <1>11, <2>2 DEF handleClipboardChange, OrderInv, Pipe
  <2> QED BY <1>11, <2>1, <2>2 DEF handleClipboardChange, checkForClipboardChange
<1>12. CASE onWindowFocusChanged
  <2>1. CASE toServer' = Append(toServer, Message("announce", version)) /\ conn = "up"
    <3>1. /\ Message("announce", version) \in ServerEvent
          /\ Message("announce", version).text = version
      BY MessageTypes DEF ActivityType, Message
    <3> QED BY <1>12, <2>1, <3>1, SendKeepsOrder DEF onWindowFocusChanged
  <2>2. CASE toServer' = toServer
    BY <1>12, <2>2 DEF onWindowFocusChanged, OrderInv, Pipe
  <2> QED BY <1>12, <2>1, <2>2 DEF onWindowFocusChanged, checkForClipboardChange
<1>13. CASE reloadPreferences
  <2>1. CASE toServer' = Append(toServer, EnableEvent(~sync)) /\ conn = "up"
    <3>1. EnableEvent(~sync) \in ServerEvent /\ EnableEvent(~sync).text \notin Nat
      BY DEF EnableEvent, Message, ServerEvent
    <3> QED BY <1>13, <2>1, <3>1, SendKeepsOrder DEF reloadPreferences
  <2>2. CASE toServer' = toServer
    BY <1>13, <2>2 DEF reloadPreferences, OrderInv, Pipe
  <2> QED BY <1>13, <2>1, <2>2 DEF reloadPreferences
<1>14. CASE requestClipboard
  <2> DEFINE m == Message("data", IF sync THEN version ELSE Empty)
  <2>1. CASE toServer' = Append(toServer, m)
    <3>1. m \in ServerEvent BY MessageTypes DEF ActivityType
    <3>2. m.text \in Nat => m.text = version BY DEF Message
    <3> QED BY <1>14, <2>1, <3>1, <3>2, SendKeepsOrder DEF requestClipboard
  <2>2. CASE toServer' = toServer
    BY <1>14, <2>2 DEF requestClipboard, OrderInv, Pipe
  <2> QED BY <1>14, <2>1, <2>2 DEF requestClipboard, SendClipboard
<1>15. CASE setClipboardText
  <2>1. version <= version + 1 /\ told <= version + 1
    BY DEF OrderInv, ActivityType, HistoryType
  <2>2. \A n \in Nat : n <= version => n <= version + 1
    BY DEF ActivityType
  <2> QED BY <1>15, <2>1, <2>2 DEF setClipboardText, OrderInv, Pipe
<1>16. CASE ReadShifted
  BY <1>16 DEF ReadShifted, OrderInv, Pipe
<1>17. CASE ReadShort
  BY <1>17 DEF ReadShort, OrderInv, Pipe
<1>18. CASE GraceEnds
  BY <1>18 DEF GraceEnds, OrderInv, Pipe
<1>19. CASE ActivityStart
  BY <1>19 DEF ActivityStart, OrderInv, Pipe
<1>20. CASE Connect
  <2> DEFINE e == EnableEvent(sync)
  <2>1. e.text \notin Nat
    BY DEF EnableEvent, Message
  <2>2. Elements(toServer') = {e} /\ Sorted(toServer')
    <3>1. toServer' = <<e>> BY <1>20 DEF Connect
    <3>2. DOMAIN <<e>> = {1} /\ <<e>>[1] = e OBVIOUS
    <3> QED BY <3>1, <3>2 DEF Elements, Sorted
  <2>3. Before(Elements(workQueue'), Elements(toServer'))
    BY <2>1, <2>2 DEF Before, LE
  <2>4. \A a \in Pipe' : a.text \in Nat => a \in Pipe
    BY <1>20, <2>1, <2>2 DEF Connect, Pipe
  <2> QED BY <1>20, <2>2, <2>3, <2>4 DEF Connect, OrderInv
<1>21. CASE ActivityGone
  BY <1>21 DEF ActivityGone, OrderInv, Pipe
<1>22. CASE UNCHANGED vars
  BY <1>22 DEF vars, OrderInv, Pipe
<1>23. ASSUME NEW c \in Clients, XStoreText(c) PROVE OrderInv'
  BY <1>23 DEF XStoreText, OrderInv, Pipe
<1>24. CASE Crash
  <2>1. Elements(toServer') = {} /\ Sorted(toServer')
    BY <1>24 DEF Crash, Elements, Sorted
  <2>2. Pipe' \subseteq Pipe /\ Before(Elements(workQueue'), Elements(toServer'))
    BY <1>24, <2>1 DEF Crash, Pipe, Before
  <2> QED BY <1>24, <2>1, <2>2 DEF Crash, OrderInv
<1> QED BY <1>1, <1>2, <1>3, <1>4, <1>5, <1>6, <1>7, <1>8, <1>9, <1>10, <1>11, <1>12,
            <1>13, <1>14, <1>15, <1>16, <1>17, <1>18, <1>19, <1>20, <1>21, <1>22, <1>23, <1>24
       DEF Next, ServerWork, ActivityReads

-----------------------------------------------------------------------------
(* The cached text is that of Android. *)

\* The change to the text in the clipboard now has yet to be noticed, never
\* will be, or its announcement is on the way.
Excused == fresh \/ missed \/ Message("announce", version) \in Pipe

\* A text that is not the one in the clipboard is cached, or on its way to be
\* cached, only as long as there is an excuse.
FreshInv ==
  /\ (cachedData \in Nat /\ cachedData # version) => Excused
  /\ \A m \in Pipe : (m.type = "data" /\ m.text \in Nat /\ m.text # version) => Excused

\* Every step keeps the cache excused.
LEMMA FreshStep == TypeInv /\ OrderInv /\ FreshInv /\ [Next]_vars => FreshInv'
<1> SUFFICES ASSUME TypeInv, OrderInv, FreshInv, [Next]_vars PROVE FreshInv'
  OBVIOUS
<1> USE DEF TypeInv, serverVars, clientVars, connVars, socketVars, activityVars, androidVars,
            historyVars
<1>1. ASSUME NEW c \in Clients, XCopy(c) PROVE FreshInv'
  BY <1>1 DEF XCopy, FreshInv, Excused, Pipe
<1>2. ASSUME NEW c \in Clients, XAnswerTargets(c) PROVE FreshInv'
  BY <1>2 DEF XAnswerTargets, FreshInv, Excused, Pipe
<1>3. ASSUME NEW c \in Clients, XAnswerText(c) PROVE FreshInv'
  BY <1>3 DEF XAnswerText, FreshInv, Excused, Pipe
<1>4. ASSUME NEW c \in Clients, lorieProcConvertSelection(c) PROVE FreshInv'
  BY <1>4 DEF lorieProcConvertSelection, FreshInv, Excused, Pipe
<1>5. ASSUME NEW c \in Clients, ClientGone(c) PROVE FreshInv'
  BY <1>5 DEF ClientGone, FreshInv, Excused, Pipe
<1>6. CASE handleLorieEvents
  <2>1. Pipe' \subseteq Pipe /\ \A m \in Pipe : m.type = "announce" => m \in Pipe'
    BY <1>6, PipeMoves
  <2>2. Message("announce", version).type = "announce"
    BY DEF Message
  <2> QED BY <1>6, <2>1, <2>2 DEF handleLorieEvents, FreshInv, Excused
<1>7. CASE HangUp
  <2>1. Pipe' \subseteq Pipe
    BY <1>7 DEF HangUp, Pipe, Elements
  <2>2. Excused => Excused'
    BY <1>7 DEF HangUp, Excused, Pipe
  <2> QED BY <1>7, <2>1, <2>2 DEF HangUp, FreshInv
<1>8. CASE lorieHandleClipboardAnnounce
  <2> DEFINE e == Head(workQueue)
  <2>1. /\ e \in Work /\ Elements(workQueue) = {e} \union Elements(workQueue')
        /\ Before({e}, Elements(workQueue'))
    BY <1>8, HeadTail, SortedTail DEF lorieHandleClipboardAnnounce, ServerType, OrderInv
  <2>2. e.text \in Nat /\ e.type = "announce"
    BY <1>8, <2>1, EventTexts DEF lorieHandleClipboardAnnounce
  <2>3. Pipe = {e} \union Pipe' /\ Before({e}, Pipe')
    BY <1>8, <2>1 DEF lorieHandleClipboardAnnounce, Pipe, OrderInv, Before
  <2>4. CASE e.text = version
    <3>1. \A m \in Pipe' : m.text \in Nat => m.text = version
      BY <2>2, <2>3, <2>4 DEF Before, LE, OrderInv, ActivityType
    <3> QED BY <1>8, <3>1 DEF lorieHandleClipboardAnnounce, FreshInv
  <2>5. CASE e.text # version
    <3>1. Message("announce", version).text = version
      BY DEF Message
    <3>2. Excused => Excused'
      BY <1>8, <2>3, <2>5, <3>1 DEF lorieHandleClipboardAnnounce, Excused
    <3> QED BY <1>8, <2>3, <3>2 DEF lorieHandleClipboardAnnounce, FreshInv
  <2> QED BY <2>4, <2>5
<1>9. CASE lorieHandleClipboardData
  <2> DEFINE e == Head(workQueue)
  <2>1. Elements(workQueue) = {e} \union Elements(workQueue')
    BY <1>9, HeadTail DEF lorieHandleClipboardData, ServerType
  <2>2. Pipe = {e} \union Pipe' /\ e.type = "data"
    BY <1>9, <2>1 DEF lorieHandleClipboardData, Pipe
  <2>3. Message("announce", version).type = "announce"
    BY DEF Message
  <2>4. Excused => Excused'
    BY <1>9, <2>2, <2>3 DEF lorieHandleClipboardData, Excused
  <2> QED BY <1>9, <2>2, <2>4 DEF lorieHandleClipboardData, FreshInv
<1>10. CASE AndroidCopy
  <2>1. Excused'
    BY <1>10 DEF AndroidCopy, Excused, ActivityType
  <2> QED BY <2>1 DEF FreshInv
<1>11. CASE handleClipboardChange
  <2>1. CASE UNCHANGED <<Pipe, fresh, missed>>
    BY <1>11, <2>1 DEF handleClipboardChange, FreshInv, Excused
  <2>2. CASE UNCHANGED Pipe /\ missed'
    BY <2>2 DEF FreshInv, Excused
  <2>3. CASE Pipe' = Pipe \union {Message("announce", version)}
    <3>1. Excused' BY <1>11, <2>3 DEF handleClipboardChange, Excused
    <3> QED BY <3>1 DEF FreshInv
  <2> QED BY <1>11, <2>1, <2>2, <2>3, PipeAnnounces DEF handleClipboardChange
<1>12. CASE onWindowFocusChanged
  <2>1. CASE sync /\ focus' /\ checkForClipboardChange
    <3>1. CASE UNCHANGED <<Pipe, fresh, missed>>
      BY <1>12, <3>1 DEF onWindowFocusChanged, FreshInv, Excused
    <3>2. CASE UNCHANGED Pipe /\ missed'
      BY <3>2 DEF FreshInv, Excused
    <3>3. CASE Pipe' = Pipe \union {Message("announce", version)}
      <4>1. Excused' BY <1>12, <3>3 DEF onWindowFocusChanged, Excused
      <4> QED BY <4>1 DEF FreshInv
    <3> QED BY <1>12, <2>1, <3>1, <3>2, <3>3, PipeAnnounces DEF onWindowFocusChanged
  <2>2. CASE UNCHANGED <<fresh, toServer, missed>>
    BY <1>12, <2>2 DEF onWindowFocusChanged, FreshInv, Excused, Pipe
  <2> QED BY <1>12, <2>1, <2>2 DEF onWindowFocusChanged
<1>13. CASE reloadPreferences
  <2>1. CASE toServer' = Append(toServer, EnableEvent(~sync))
    <3>1. EnableEvent(~sync) \in ServerEvent /\ EnableEvent(~sync).text \notin Nat
      BY DEF EnableEvent, Message, ServerEvent
    <3>2. Pipe' = Pipe \union {EnableEvent(~sync)}
      BY <1>13, <2>1, <3>1, AppendElement DEF reloadPreferences, ActivityType, Pipe
    <3> QED BY <1>13, <3>1, <3>2 DEF reloadPreferences, FreshInv, Excused
  <2>2. CASE toServer' = toServer
    BY <1>13, <2>2 DEF reloadPreferences, FreshInv, Excused, Pipe
  <2> QED BY <1>13, <2>1, <2>2 DEF reloadPreferences
<1>14. CASE requestClipboard
  <2> DEFINE m == Message("data", IF sync THEN version ELSE Empty)
  <2>1. CASE toServer' = Append(toServer, m)
    <3>1. m \in ServerEvent BY MessageTypes DEF ActivityType
    <3>2. m.text \in Nat => m.text = version BY DEF Message
    <3>3. Pipe' = Pipe \union {m}
      BY <1>14, <2>1, <3>1, AppendElement DEF requestClipboard, ActivityType, Pipe
    <3> HIDE DEF m
    <3> QED BY <1>14, <3>2, <3>3 DEF requestClipboard, FreshInv, Excused
  <2>2. CASE toServer' = toServer
    BY <1>14, <2>2 DEF requestClipboard, FreshInv, Excused, Pipe
  <2> QED BY <1>14, <2>1, <2>2 DEF requestClipboard, SendClipboard
<1>15. CASE setClipboardText
  <2>1. Excused'
    BY <1>15 DEF setClipboardText, Excused
  <2> QED BY <2>1 DEF FreshInv
<1>16. CASE ReadShifted
  BY <1>16 DEF ReadShifted, FreshInv, Excused, Pipe
<1>17. CASE ReadShort
  BY <1>17 DEF ReadShort, FreshInv, Excused, Pipe
<1>18. CASE GraceEnds
  BY <1>18 DEF GraceEnds, FreshInv, Excused, Pipe
<1>19. CASE ActivityStart
  BY <1>19 DEF ActivityStart, FreshInv, Excused, Pipe
<1>20. CASE Connect
  <2> DEFINE e == EnableEvent(sync)
  <2>1. e.text \notin Nat
    BY DEF EnableEvent, Message
  <2>2. toServer = <<>> /\ toServer' = <<e>>
    BY <1>20 DEF Connect, OrderInv
  <2>3. Elements(toServer) = {} /\ Elements(toServer') = {e}
    <3>1. DOMAIN <<e>> = {1} /\ <<e>>[1] = e OBVIOUS
    <3> QED BY <2>2, <3>1 DEF Elements
  <2>4. Pipe' = Pipe \union {e}
    BY <1>20, <2>3 DEF Connect, Pipe
  <2> QED BY <1>20, <2>1, <2>4 DEF Connect, FreshInv, Excused
<1>21. CASE ActivityGone
  BY <1>21 DEF ActivityGone, FreshInv, Excused, Pipe
<1>22. CASE UNCHANGED vars
  BY <1>22 DEF vars, FreshInv, Excused, Pipe
<1>23. ASSUME NEW c \in Clients, XStoreText(c) PROVE FreshInv'
  BY <1>23 DEF XStoreText, FreshInv, Excused, Pipe
<1>24. CASE Crash
  BY <1>24 DEF Crash, FreshInv, Excused
<1> QED BY <1>1, <1>2, <1>3, <1>4, <1>5, <1>6, <1>7, <1>8, <1>9, <1>10, <1>11, <1>12,
            <1>13, <1>14, <1>15, <1>16, <1>17, <1>18, <1>19, <1>20, <1>21, <1>22, <1>23, <1>24
       DEF Next, ServerWork, ActivityReads

\* The initial states are in order, with nothing cached.
LEMMA OrderInit == Init => OrderInv /\ FreshInv
<1> SUFFICES ASSUME Init PROVE OrderInv /\ FreshInv
  OBVIOUS
<1>1. Elements(workQueue) = {} /\ Elements(toServer) = {}
  BY DEF Init, Elements
<1>2. Sorted(workQueue) /\ Sorted(toServer)
  BY DEF Init, Sorted
<1>3. Pipe = {} /\ Before(Elements(workQueue), Elements(toServer))
  BY <1>1 DEF Pipe, Before
<1>4. told <= version /\ cachedData \notin Nat
  BY DEF Init
<1> QED BY <1>2, <1>3, <1>4 DEF Init, OrderInv, FreshInv

\* A text that is cached and may be pasted is the one in the Android clipboard,
\* unless its change has yet to be noticed or announced, or never will be.
THEOREM CacheIsFresh == Spec => []CacheFresh
<1>1. FreshInv => CacheFresh
  BY DEF FreshInv, CacheFresh, Excused
<1> QED BY <1>1, TypeInit, TypeStep, OrderInit, OrderStep, FreshStep, PTL DEF Spec
-----------------------------------------------------------------------------
(* The implementation of ClipboardService. *)

\* A step of the clipboard is a step of the service or none.
LEMMA ServiceStep ==
  TypeInv /\ OrderInv /\ [Next]_vars => [Service!Next]_(Service!vars)
<1> SUFFICES ASSUME TypeInv, OrderInv, [Next]_vars
             PROVE  Service!Next \/ UNCHANGED Service!vars
  OBVIOUS
<1> USE DEF TypeInv, serverVars, clientVars, connVars, socketVars, activityVars, androidVars,
            historyVars
<1>1. ASSUME NEW c \in Clients, XCopy(c) PROVE Service!Next \/ UNCHANGED Service!vars
  BY <1>1 DEF XCopy, Service!vars
<1>2. ASSUME NEW c \in Clients, XAnswerTargets(c) PROVE Service!Next \/ UNCHANGED Service!vars
  BY <1>2 DEF XAnswerTargets, Service!vars
<1>3. ASSUME NEW c \in Clients, XAnswerText(c) PROVE Service!Next \/ UNCHANGED Service!vars
  BY <1>3 DEF XAnswerText, Service!vars
<1>4. ASSUME NEW c \in Clients, lorieProcConvertSelection(c) PROVE Service!Next \/ UNCHANGED Service!vars
  <2>1. CASE cachedData # NULL /\ answer' = [answer EXCEPT ![c] = cachedData] /\ UNCHANGED targets
    <3>1. cachedData \in (told..version) \union {Empty}
      BY <2>1 DEF OrderInv, ServerType, ActivityType, HistoryType
    <3>2. Service!AskKnown(c)
      BY <1>4, <2>1, <3>1 DEF lorieProcConvertSelection, Service!AskKnown, Service!Current
    <3> QED BY <3>2 DEF Service!Next
  <2>2. CASE targets' = targets \union {c} /\ UNCHANGED answer
    <3>1. Service!Ask(c)
      BY <1>4, <2>2 DEF lorieProcConvertSelection, Service!Ask
    <3> QED BY <3>1 DEF Service!Next
  <2> QED BY <1>4, <2>1, <2>2 DEF lorieProcConvertSelection
<1>5. ASSUME NEW c \in Clients, ClientGone(c) PROVE Service!Next \/ UNCHANGED Service!vars
  <2>1. Service!Leave(c)
    BY <1>5 DEF ClientGone, Service!Leave
  <2> QED BY <2>1 DEF Service!Next
<1>6. CASE handleLorieEvents
  BY <1>6 DEF handleLorieEvents, Service!vars
<1>7. CASE HangUp
  BY <1>7 DEF HangUp, Service!vars
<1>8. CASE lorieHandleClipboardAnnounce
  <2> DEFINE e == Head(workQueue)
  <2>1. e \in Work /\ Elements(workQueue) = {e} \union Elements(workQueue')
    BY <1>8, HeadTail DEF lorieHandleClipboardAnnounce, ServerType
  <2>2. e.text \in Nat /\ e \in Pipe
    BY <1>8, <2>1, EventTexts DEF lorieHandleClipboardAnnounce, Pipe
  <2>3. e.text \in told..version
    BY <2>2 DEF OrderInv, ActivityType, HistoryType
  <2>4. Service!Tell
    BY <1>8, <2>3 DEF lorieHandleClipboardAnnounce, Service!Tell
  <2> QED BY <2>4 DEF Service!Next
<1>9. CASE lorieHandleClipboardData
  <2> DEFINE e == Head(workQueue)
  <2>1. e \in Work /\ Elements(workQueue) = {e} \union Elements(workQueue')
    BY <1>9, HeadTail DEF lorieHandleClipboardData, ServerType
  <2>2. e.text \in Nat \union {Empty} /\ e \in Pipe
    BY <1>9, <2>1, EventTexts DEF lorieHandleClipboardData, Pipe
  <2>3. e.text \in (told..version) \union {Empty}
    BY <2>2 DEF OrderInv, ActivityType, HistoryType
  <2>4. Service!Reply
    BY <1>9, <2>3 DEF lorieHandleClipboardData, Service!Reply, Service!Current
  <2> QED BY <2>4 DEF Service!Next
<1>10. CASE AndroidCopy
  <2>1. Service!Change
    BY <1>10 DEF AndroidCopy, Service!Change
  <2> QED BY <2>1 DEF Service!Next
<1>11. CASE handleClipboardChange
  BY <1>11 DEF handleClipboardChange, Service!vars
<1>12. CASE onWindowFocusChanged
  BY <1>12 DEF onWindowFocusChanged, Service!vars
<1>13. CASE reloadPreferences
  BY <1>13 DEF reloadPreferences, Service!vars
<1>14. CASE requestClipboard
  BY <1>14 DEF requestClipboard, Service!vars
<1>15. CASE setClipboardText
  <2>1. Service!Change
    BY <1>15 DEF setClipboardText, Service!Change
  <2> QED BY <2>1 DEF Service!Next
<1>16. CASE ReadShifted
  BY <1>16 DEF ReadShifted, Service!vars
<1>17. CASE ReadShort
  BY <1>17 DEF ReadShort, Service!vars
<1>18. CASE GraceEnds
  BY <1>18 DEF GraceEnds, Service!vars
<1>19. CASE ActivityStart
  BY <1>19 DEF ActivityStart, Service!vars
<1>20. CASE Connect
  BY <1>20 DEF Connect, Service!vars
<1>21. CASE ActivityGone
  BY <1>21 DEF ActivityGone, Service!vars
<1>22. CASE UNCHANGED vars
  BY <1>22 DEF vars, Service!vars
<1>23. ASSUME NEW c \in Clients, XStoreText(c) PROVE Service!Next \/ UNCHANGED Service!vars
  BY <1>23 DEF XStoreText, Service!vars
<1>24. CASE Crash
  BY <1>24 DEF Crash, Service!vars
<1> QED BY <1>1, <1>2, <1>3, <1>4, <1>5, <1>6, <1>7, <1>8, <1>9, <1>10, <1>11, <1>12,
            <1>13, <1>14, <1>15, <1>16, <1>17, <1>18, <1>19, <1>20, <1>21, <1>22, <1>23, <1>24
       DEF Next, ServerWork, ActivityReads

\* The cache, the queues and the socket implement the service: what a client is
\* given is no older than what was announced last, and those who wait are all
\* answered, or wait on.
THEOREM Implements == Spec => Refines
<1>1. Init => Service!Init
  BY DEF Init, Service!Init
<1>2. Spec => [](TypeInv /\ OrderInv)
  BY TypeInit, TypeStep, OrderInit, OrderStep, PTL DEF Spec
<1> QED BY <1>1, <1>2, ServiceStep, PTL DEF Spec, Refines, Service!Spec
-----------------------------------------------------------------------------
(* A copy made in X reaches Android. *)

\* As long as a copy has to reach Android its client owns the selection and the
\* clipboard is shared over a connection that is up.  Until it is sent the client
\* has a request to answer; if it has stored a text, that is the copy and is still
\* there, or the client has another request to answer after this one.
CopyInv ==
  wanted # NULL =>
    /\ owner \in Clients /\ text[owner] = wanted
    /\ clipboardEnabled /\ conn = "up"
    /\ ~overwritten =>
         \/ wanted \in delivered
         \/ Message("text", wanted) \in Elements(toActivity)
         \/ /\ asked[owner] # <<>>
            /\ owner \in stored => property = wanted \/ Tail(asked[owner]) # <<>>

\* Every step keeps the copy on its way.
LEMMA CopyStep == TypeInv /\ CopyInv /\ [Next]_vars => CopyInv'
<1> SUFFICES ASSUME TypeInv, CopyInv, [Next]_vars PROVE CopyInv'
  OBVIOUS
<1> USE DEF TypeInv, serverVars, clientVars, connVars, socketVars, activityVars, androidVars,
            historyVars
<1>1. ASSUME NEW c \in Clients, XCopy(c) PROVE CopyInv'
  <2> SUFFICES ASSUME wanted' # NULL PROVE CopyInv'
    BY DEF CopyInv
  <2>1. clipboardEnabled /\ conn = "up" /\ wanted' = copies + 1
    BY <1>1 DEF XCopy
  <2>2. text'[c] = copies + 1 /\ owner' = c
    BY <1>1 DEF XCopy, ServerType
  <2>3. asked'[c] = Append(asked[c], "TARGETS")
    BY <1>1, <2>1 DEF XCopy, lorieSelectionRequest, ServerType
  <2>4. asked'[c] # <<>> /\ (c \in stored => Tail(asked'[c]) # <<>>)
    <3>1. asked[c] \in Seq({"TARGETS", "TEXT"}) /\ (c \in stored => asked[c] # <<>>)
      BY DEF ServerType, Offers
    <3> QED BY <2>3, <3>1, AppendNotEmpty
  <2>5. UNCHANGED <<clipboardEnabled, conn, stored>>
    BY <1>1 DEF XCopy
  <2> QED BY <2>1, <2>2, <2>4, <2>5 DEF CopyInv
<1>2. ASSUME NEW c \in Clients, XAnswerTargets(c) PROVE CopyInv'
  <2> DEFINE q == [asked EXCEPT ![c] = Tail(@)]
  <2>1. CASE clipboardEnabled /\ owner \in Clients
    <3>1. q \in [Clients -> Seq({"TARGETS", "TEXT"})]
      <4>1. Tail(asked[c]) \in Seq({"TARGETS", "TEXT"})
        BY <1>2, HeadTail DEF XAnswerTargets, ServerType
      <4> QED BY <4>1 DEF ServerType
    <3>2. asked' = [q EXCEPT ![owner] = Append(@, "TEXT")]
      BY <1>2, <2>1 DEF XAnswerTargets, lorieSelectionRequest
    <3>3. owner \in stored => q[owner] # <<>>
      BY <1>2, <2>1 DEF XAnswerTargets, Offers, ServerType
    <3>4. asked'[owner] # <<>> /\ (owner \in stored => Tail(asked'[owner]) # <<>>)
      <4> HIDE DEF q
      <4>1. asked'[owner] = Append(q[owner], "TEXT") BY <2>1, <3>1, <3>2
      <4>2. q[owner] \in Seq({"TARGETS", "TEXT"}) BY <2>1, <3>1
      <4> QED BY <3>3, <4>1, <4>2, AppendNotEmpty
    <3> QED BY <1>2, <3>4 DEF XAnswerTargets, CopyInv
  <2>2. CASE ~(clipboardEnabled /\ owner \in Clients)
    BY <1>2, <2>2 DEF XAnswerTargets, CopyInv
  <2> QED BY <2>1, <2>2
<1>3. ASSUME NEW c \in Clients, XAnswerText(c) PROVE CopyInv'
  <2>1. property \in Nat
    BY <1>3 DEF XAnswerText, Offers
  <2>2. CASE clipboardEnabled /\ conn = "up"
    <3>1. Elements(toActivity') = Elements(toActivity) \union {Message("text", property)}
      BY <1>3, <2>1, <2>2, MessageTypes, AppendElement DEF XAnswerText, ActivityType
    <3>2. \A d \in Clients : d # c => asked'[d] = asked[d]
      BY <1>3 DEF XAnswerText, ServerType
    <3>3. asked'[c] = Tail(asked[c]) /\ stored' = stored \ {c} /\ c \in stored
      BY <1>3 DEF XAnswerText, ServerType
    <3>4. /\ UNCHANGED <<wanted, owner, text, clipboardEnabled, conn, overwritten, delivered>>
          /\ UNCHANGED property
      BY <1>3 DEF XAnswerText
    <3>5. CASE owner = c
      BY <3>1, <3>3, <3>4, <3>5 DEF CopyInv
    <3>6. CASE owner # c
      BY <3>1, <3>2, <3>3, <3>4, <3>6 DEF CopyInv
    <3> QED BY <3>5, <3>6
  <2>3. CASE ~(clipboardEnabled /\ conn = "up")
    BY <1>3, <2>3 DEF XAnswerText, CopyInv
  <2> QED BY <2>2, <2>3
<1>4. ASSUME NEW c \in Clients, lorieProcConvertSelection(c) PROVE CopyInv'
  <2>1. CASE conn = "up" /\ toActivity' = Append(toActivity, Message("request", NULL))
    <3>1. Elements(toActivity') = Elements(toActivity) \union {Message("request", NULL)}
      BY <2>1, MessageTypes, AppendElement DEF ActivityType
    <3> QED BY <1>4, <3>1 DEF lorieProcConvertSelection, CopyInv
  <2>2. CASE UNCHANGED toActivity
    BY <1>4, <2>2 DEF lorieProcConvertSelection, CopyInv
  <2> QED BY <1>4, <2>1, <2>2 DEF lorieProcConvertSelection
<1>5. ASSUME NEW c \in Clients, ClientGone(c) PROVE CopyInv'
  <2>1. CASE owner = c
    BY <1>5, <2>1 DEF ClientGone, CopyInv
  <2>2. CASE owner # c
    <3>1. \A d \in Clients : d # c => asked'[d] = asked[d] /\ text'[d] = text[d]
      BY <1>5 DEF ClientGone, ServerType
    <3> QED BY <1>5, <2>2, <3>1 DEF ClientGone, CopyInv
  <2> QED BY <2>1, <2>2
<1>6. CASE handleLorieEvents
  <2>1. wanted' # NULL => wanted' = wanted /\ (clipboardEnabled => clipboardEnabled')
    BY <1>6 DEF handleLorieEvents
  <2>2. /\ UNCHANGED <<owner, text, asked, conn, toActivity, delivered>>
        /\ UNCHANGED <<property, stored, overwritten>>
    BY <1>6 DEF handleLorieEvents
  <2> QED BY <2>1, <2>2 DEF CopyInv
<1>7. CASE HangUp
  BY <1>7 DEF HangUp, CopyInv
<1>8. CASE lorieHandleClipboardAnnounce
  BY <1>8 DEF lorieHandleClipboardAnnounce, CopyInv
<1>9. CASE lorieHandleClipboardData
  BY <1>9 DEF lorieHandleClipboardData, CopyInv
<1>10. CASE AndroidCopy
  BY <1>10 DEF AndroidCopy, CopyInv
<1>11. CASE handleClipboardChange
  BY <1>11 DEF handleClipboardChange, CopyInv
<1>12. CASE onWindowFocusChanged
  BY <1>12 DEF onWindowFocusChanged, CopyInv
<1>13. CASE reloadPreferences
  BY <1>13 DEF reloadPreferences, CopyInv
<1>14. CASE requestClipboard
  <2>1. Elements(toActivity) = {Head(toActivity)} \union Elements(toActivity')
    BY <1>14, HeadTail DEF requestClipboard, ActivityType
  <2>2. Message("text", wanted).type = "text" /\ Message("text", wanted).text = wanted
    BY DEF Message
  <2> QED BY <1>14, <2>1, <2>2 DEF requestClipboard, CopyInv
<1>15. CASE setClipboardText
  <2>1. Elements(toActivity) = {Head(toActivity)} \union Elements(toActivity')
    BY <1>15, HeadTail DEF setClipboardText, ActivityType
  <2>2. Message("text", wanted).type = "text" /\ Message("text", wanted).text = wanted
    BY DEF Message
  <2> QED BY <1>15, <2>1, <2>2 DEF setClipboardText, CopyInv
<1>16. CASE ReadShifted
  <2>1. Elements(toActivity) = {Head(toActivity)} \union Elements(toActivity')
    BY <1>16, HeadTail DEF ReadShifted, ActivityType
  <2>2. Message("text", wanted).type = "text" /\ Message("text", wanted).text = wanted
    BY DEF Message
  <2> QED BY <1>16, <2>1, <2>2 DEF ReadShifted, CopyInv
<1>17. CASE ReadShort
  BY <1>17 DEF ReadShort, CopyInv
<1>18. CASE GraceEnds
  BY <1>18 DEF GraceEnds, CopyInv
<1>19. CASE ActivityStart
  BY <1>19 DEF ActivityStart, CopyInv
<1>20. CASE Connect
  BY <1>20 DEF Connect, CopyInv
<1>21. CASE ActivityGone
  BY <1>21 DEF ActivityGone, CopyInv
<1>22. CASE UNCHANGED vars
  BY <1>22 DEF vars, CopyInv
<1>23. ASSUME NEW c \in Clients, XStoreText(c) PROVE CopyInv'
  <2>1. CASE owner \in stored /\ property = wanted
    BY <1>23, <2>1 DEF XStoreText, CopyInv
  <2>2. CASE c = owner
    BY <1>23, <2>2 DEF XStoreText, CopyInv
  <2>3. CASE c # owner /\ ~(owner \in stored /\ property = wanted)
    BY <1>23, <2>3 DEF XStoreText, CopyInv
  <2> QED BY <2>1, <2>2, <2>3
<1>24. CASE Crash
  BY <1>24 DEF Crash, CopyInv
<1> QED BY <1>1, <1>2, <1>3, <1>4, <1>5, <1>6, <1>7, <1>8, <1>9, <1>10, <1>11, <1>12,
            <1>13, <1>14, <1>15, <1>16, <1>17, <1>18, <1>19, <1>20, <1>21, <1>22, <1>23, <1>24
       DEF Next, ServerWork, ActivityReads

\* A text copied in X has reached Android, or its owner has a request to answer,
\* or the activity has it to read, unless another client replaced it on the root
\* window between its being stored there and its being sent.
THEOREM CopiesCovered == Spec => []CopyCovered
<1>1. Init => CopyInv
  BY DEF Init, CopyInv
<1>2. CopyInv => CopyCovered
  BY DEF CopyInv, CopyCovered
<1> QED BY <1>1, <1>2, TypeInit, TypeStep, CopyStep, PTL DEF Spec
=============================================================================
