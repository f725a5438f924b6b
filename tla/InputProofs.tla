------------------------------ MODULE InputProofs ------------------------------
(***************************************************************************)
(* Proofs about the two parts of the X server's input.  Of Pointer: for    *)
(* any buttons, any finite set of fingers and any length of the work       *)
(* queue.  Of Keysym: for any keymap, symbols and inputs; of the last two  *)
(* theorems, for any keymap whose modifier keys are plain.                 *)
(***************************************************************************)
EXTENDS Pointer, Keysym, FiniteSetTheorems, WellFoundedInduction, TLAPS

-----------------------------------------------------------------------------
(***************************************************************************)
(* Pointer: the buttons.                                                   *)
(***************************************************************************)
\* The part of the types that buttons need.
ButtonsType ==
  /\ connected \in BOOLEAN /\ available \in BOOLEAN /\ stylusIsMouse \in BOOLEAN
  /\ stylus \in [device : Devices, buttons : SUBSET Buttons]
  /\ savedBS \subseteq Buttons /\ buttons_prev \subseteq Buttons
  /\ down \in [Devices -> SUBSET Buttons]
  /\ steady \in BOOLEAN

\* Besides ButtonsAsHeld: the X server's last buttons are those of the pen.
Follows == steady => buttons_prev = stylus.buttons

ButtonsInv == ButtonsType /\ ButtonsAsHeld /\ Follows

\* Everything ButtonsInv speaks about.
buttonVars == <<connected, stylusVars, stylusIsMouse, savedBS, available, down, steady>>

LEMMA InitOK == PointerInit => ButtonsInv
<1> SUFFICES ASSUME PointerInit PROVE ButtonsInv
  OBVIOUS
<1>1. ButtonsType
  BY DEF PointerInit, ButtonsType, NothingDown, Devices
<1>2. \A d \in Devices : down[d] = {} /\ HeldOn(d) = {}
  BY DEF PointerInit, NothingDown, HeldOn
<1> QED BY <1>1, <1>2 DEF PointerInit, ButtonsInv, ButtonsAsHeld, Follows

LEMMA UnchangedOK == ButtonsInv /\ UNCHANGED buttonVars => ButtonsInv'
BY DEF buttonVars, stylusVars, ButtonsInv, ButtonsType, ButtonsAsHeld, Follows, HeldOn

\* When everything is up, the X server has no button down either.
LEMMA AllUpOK ==
  ASSUME ButtonsType', AllUp'
  PROVE  ButtonsAsHeld' /\ Follows'
BY DEF AllUp, ButtonsType, ButtonsAsHeld, Follows, HeldOn, NothingDown

\* A watched step: only one that goes on being steady has something to show.
LEMMA WatchOK ==
  ASSUME NEW disturbed \in BOOLEAN, steady \in BOOLEAN, Watch(disturbed), ButtonsType',
         steady /\ ~disturbed => ButtonsAsHeld' /\ Follows'
  PROVE  ButtonsInv'
<1>1. CASE AllUp'
  BY <1>1, AllUpOK DEF ButtonsInv
<1>2. CASE ~AllUp' /\ steady /\ ~disturbed
  BY <1>2 DEF ButtonsInv
<1>3. CASE ~AllUp' /\ ~(steady /\ ~disturbed)
  <2>1. ~steady'
    BY <1>3 DEF Watch
  <2> QED BY <2>1 DEF ButtonsInv, ButtonsAsHeld, Follows
<1> QED BY <1>1, <1>2, <1>3

\* An EVENT_STYLUS makes what the X server has down on the device what is held,
\* if it was so before and the last event was the pen's last one.
LEMMA EventOK ==
  ASSUME ButtonsType, ButtonsAsHeld, Follows, steady, NEW d \in Devices, NEW bs \in SUBSET Buttons,
         EventStylus(d, bs), stylus' = [device |-> d, buttons |-> bs], UNCHANGED savedBS,
         d # stylus.device => stylus.buttons = {},
         d = "lorieMouse" => stylus.buttons \cap savedBS = {}
  PROVE  ButtonsAsHeld' /\ Follows'
<1>1. /\ down \in [Devices -> SUBSET Buttons] /\ stylus.buttons \subseteq Buttons
      /\ buttons_prev = stylus.buttons
      /\ \A e \in Devices : down[e] = HeldOn(e)
  BY DEF ButtonsType, ButtonsAsHeld, Follows
<1>2. /\ down'[d] = (down[d] \ (buttons_prev \ bs)) \cup (bs \ buttons_prev)
      /\ \A e \in Devices : e # d => down'[e] = down[e]
      /\ buttons_prev' = bs
  BY <1>1 DEF EventStylus
<1>3. stylus'.device = d /\ stylus'.buttons = bs
  OBVIOUS
<1>4. ASSUME NEW e \in Devices PROVE down'[e] = HeldOn(e)'
  <2>1. CASE e = d /\ d = stylus.device
    BY <1>1, <1>2, <1>3, <2>1 DEF HeldOn
  <2>2. CASE e = d /\ d # stylus.device
    BY <1>1, <1>2, <1>3, <2>2 DEF HeldOn
  <2>3. CASE e # d
    BY <1>1, <1>2, <1>3, <2>3 DEF HeldOn
  <2> QED BY <2>1, <2>2, <2>3
<1>5. Follows'
  BY <1>2, <1>3 DEF Follows
<1> QED BY <1>4, <1>5 DEF ButtonsAsHeld

LEMMA StylusStep ==
  ASSUME ButtonsInv, NEW tool \in Tools, NEW bs \in SUBSET Buttons, onStylus(tool, bs)
  PROVE  ButtonsInv'
<1> DEFINE d == StylusDevice(tool)
           seen == connected /\ Exists(d)
           disturbed == \/ ~seen /\ bs # stylus.buttons
                        \/ d # stylus.device /\ stylus.buttons # {}
                        \/ d = "lorieMouse" /\ stylus.buttons \cap savedBS # {}
<1>1. d \in Devices
  BY DEF StylusDevice, Devices
<1>2. /\ stylus' = [device |-> d, buttons |-> bs]
      /\ IF seen THEN EventStylus(d, bs) ELSE UNCHANGED <<buttons_prev, down>>
      /\ UNCHANGED <<connected, stylusIsMouse, savedBS, available>>
      /\ Watch(disturbed)
  BY DEF onStylus
<1>3. disturbed \in BOOLEAN
  OBVIOUS
<1> HIDE DEF d
<1>4. steady' \in BOOLEAN
  BY <1>2 DEF Watch, AllUp
<1>5. ButtonsType'
  BY <1>1, <1>2, <1>4 DEF ButtonsInv, ButtonsType, EventStylus
<1>6. ASSUME steady, ~disturbed PROVE ButtonsAsHeld' /\ Follows'
  <2>1. CASE seen
    BY <1>1, <1>2, <1>6, <2>1, EventOK DEF ButtonsInv
  <2>2. CASE ~seen
    <3>1. /\ bs = stylus.buttons /\ stylus'.device = d /\ stylus'.buttons = bs
          /\ d # stylus.device => stylus.buttons = {}
          /\ UNCHANGED <<buttons_prev, down, savedBS>>
      BY <1>2, <1>6, <2>2
    <3>2. \A e \in Devices : HeldOn(e)' = HeldOn(e)
      BY <3>1 DEF HeldOn
    <3> QED BY <1>6, <3>1, <3>2 DEF ButtonsInv, ButtonsAsHeld, Follows
  <2> QED BY <2>1, <2>2
<1> HIDE DEF disturbed
<1> QED BY <1>2, <1>3, <1>5, <1>6, WatchOK DEF ButtonsInv, ButtonsType

LEMMA MouseStep ==
  ASSUME ButtonsInv, NEW bs \in SUBSET Buttons, onMouse(bs)
  PROVE  ButtonsInv'
<1> DEFINE disturbed == \/ ~connected
                        \/ stylus.device = "lorieMouse" /\ stylus.buttons \cap savedBS # {}
<1>1. /\ savedBS' = bs /\ UNCHANGED <<connected, stylus, buttons_prev, stylusIsMouse, available>>
      /\ IF connected THEN EventMouse(bs \ savedBS, savedBS \ bs) ELSE UNCHANGED down
      /\ Watch(disturbed)
  BY DEF onMouse, stylusVars
<1>2. disturbed \in BOOLEAN
  OBVIOUS
<1>3. steady' \in BOOLEAN
  BY <1>1 DEF Watch, AllUp
<1>4. ButtonsType'
  BY <1>1, <1>3 DEF ButtonsInv, ButtonsType, EventMouse, Devices
<1>5. ASSUME steady, ~disturbed PROVE ButtonsAsHeld' /\ Follows'
  <2>1. /\ down \in [Devices -> SUBSET Buttons] /\ "lorieMouse" \in Devices
        /\ \A e \in Devices : down[e] = HeldOn(e)
    BY <1>5 DEF ButtonsInv, ButtonsType, ButtonsAsHeld, Devices
  <2>2. /\ down'["lorieMouse"] = (down["lorieMouse"] \cup (bs \ savedBS)) \ (savedBS \ bs)
        /\ \A e \in Devices : e # "lorieMouse" => down'[e] = down[e]
    BY <1>1, <1>5, <2>1 DEF EventMouse
  <2>3. ASSUME NEW e \in Devices PROVE down'[e] = HeldOn(e)'
    <3>1. CASE e = "lorieMouse"
      BY <1>1, <1>5, <2>1, <2>2, <3>1 DEF HeldOn
    <3>2. CASE e # "lorieMouse"
      BY <1>1, <2>1, <2>2, <3>2 DEF HeldOn
    <3> QED BY <3>1, <3>2
  <2>4. Follows'
    BY <1>1, <1>5 DEF ButtonsInv, Follows
  <2> QED BY <2>3, <2>4 DEF ButtonsAsHeld
<1> HIDE DEF disturbed
<1> QED BY <1>1, <1>2, <1>4, <1>5, WatchOK DEF ButtonsInv, ButtonsType

LEMMA DevicesStep ==
  ASSUME ButtonsInv, NEW enabled \in BOOLEAN, refreshInputDevices(enabled)
  PROVE  ButtonsInv'
<1> DEFINE disturbed == ~enabled /\ stylus.device # "lorieMouse" /\ stylus.buttons # {}
<1>1. /\ UNCHANGED <<connected, stylus, buttons_prev, stylusIsMouse, savedBS>>
      /\ available' = enabled
      /\ down' = IF enabled THEN down
                 ELSE [down EXCEPT !["loriePen"] = {}, !["lorieEraser"] = {}]
      /\ Watch(disturbed)
  BY DEF refreshInputDevices, lorieSetStylusEnabled, stylusVars
<1>2. disturbed \in BOOLEAN
  OBVIOUS
<1>3. steady' \in BOOLEAN
  BY <1>1 DEF Watch, AllUp
<1>4. ButtonsType'
  BY <1>1, <1>3 DEF ButtonsInv, ButtonsType, Devices
<1>5. ASSUME steady, ~disturbed PROVE ButtonsAsHeld' /\ Follows'
  <2>1. /\ down \in [Devices -> SUBSET Buttons]
        /\ \A e \in Devices : down[e] = HeldOn(e) /\ HeldOn(e)' = HeldOn(e)
    BY <1>1, <1>5 DEF ButtonsInv, ButtonsType, ButtonsAsHeld, HeldOn
  <2>2. CASE enabled
    BY <1>1, <1>5, <2>1, <2>2 DEF ButtonsInv, ButtonsAsHeld, Follows
  <2>3. CASE ~enabled
    <3>1. HeldOn("loriePen") = {} /\ HeldOn("lorieEraser") = {}
      BY <1>5, <2>3 DEF HeldOn
    <3>2. \A e \in Devices : down'[e] = IF e = "lorieMouse" THEN down[e] ELSE {}
      BY <1>1, <2>1, <2>3 DEF Devices
    <3>3. \A e \in Devices : down'[e] = HeldOn(e)'
      BY <2>1, <3>1, <3>2 DEF Devices
    <3> QED BY <1>1, <1>5, <3>3 DEF ButtonsInv, ButtonsAsHeld, Follows
  <2> QED BY <2>2, <2>3
<1> HIDE DEF disturbed
<1> QED BY <1>1, <1>2, <1>4, <1>5, WatchOK DEF ButtonsInv, ButtonsType

LEMMA PreferencesStep ==
  ASSUME ButtonsInv, reloadPreferences
  PROVE  ButtonsInv'
BY DEF reloadPreferences, stylusVars, ButtonsInv, ButtonsType, ButtonsAsHeld, Follows, HeldOn

LEMMA ConnectionStep ==
  ASSUME ButtonsInv, Connect \/ HangUp
  PROVE  ButtonsInv'
<1>1. /\ UNCHANGED <<stylus, buttons_prev, stylusIsMouse, savedBS, available, down, steady>>
      /\ connected' \in BOOLEAN
  BY DEF Connect, HangUp, stylusVars
<1> QED BY <1>1 DEF ButtonsInv, ButtonsType, ButtonsAsHeld, Follows, HeldOn

LEMMA RestartStep ==
  ASSUME ButtonsInv, ActivityRestart
  PROVE  ButtonsInv'
<1> DEFINE disturbed == stylus.buttons \cup savedBS # {}
<1>1. /\ connected' = FALSE /\ stylus' = [device |-> "loriePen", buttons |-> {}] /\ savedBS' = {}
      /\ UNCHANGED <<buttons_prev, stylusIsMouse, available, down>>
      /\ Watch(disturbed)
  BY DEF ActivityRestart
<1>2. disturbed \in BOOLEAN
  OBVIOUS
<1>3. steady' \in BOOLEAN
  BY <1>1 DEF Watch, AllUp
<1>4. ButtonsType'
  BY <1>1, <1>3 DEF ButtonsInv, ButtonsType, Devices
<1>5. ASSUME steady, ~disturbed PROVE ButtonsAsHeld' /\ Follows'
  <2>1. stylus.buttons = {} /\ savedBS = {}
    BY <1>5
  <2>2. \A e \in Devices : HeldOn(e) = {} /\ HeldOn(e)' = {}
    BY <1>1, <2>1 DEF HeldOn
  <2> QED BY <1>1, <1>5, <2>1, <2>2 DEF ButtonsInv, ButtonsAsHeld, Follows
<1> HIDE DEF disturbed
<1> QED BY <1>1, <1>2, <1>4, <1>5, WatchOK DEF ButtonsInv, ButtonsType

\* Touches leave the buttons alone.
LEMMA TouchStep ==
  ASSUME ButtonsInv, TouchNext
  PROVE  ButtonsInv'
<1>1. UNCHANGED buttonVars
  BY DEF TouchNext, FingerDown, FingerUp, FingerUpMissed, Cancel, FingersMove, handleTouchEvent,
         otherVars, buttonVars, stylusVars
<1> QED BY <1>1, UnchangedOK

LEMMA NextOK == ButtonsInv /\ [PointerNext]_pointerVars => ButtonsInv'
<1> SUFFICES ASSUME ButtonsInv, [PointerNext]_pointerVars PROVE ButtonsInv'
  OBVIOUS
<1>1. CASE ConnectionNext
  BY <1>1, ConnectionStep, RestartStep DEF ConnectionNext
<1>2. CASE ButtonsNext
  BY <1>2, StylusStep, MouseStep, DevicesStep, PreferencesStep DEF ButtonsNext
<1>3. CASE TouchNext
  BY <1>3, TouchStep
<1>4. CASE UNCHANGED pointerVars
  <2>1. UNCHANGED buttonVars
    BY <1>4 DEF pointerVars, buttonVars
  <2> QED BY <2>1, UnchangedOK
<1> QED BY <1>1, <1>2, <1>3, <1>4 DEF PointerNext

\* X clients see exactly the buttons that are held, while nothing went unseen
\* (handleLorieEvents with its static buttons_prev, StylusListener and
\* HardwareMouseListener), for any buttons.
THEOREM ButtonsSeen == PointerSpec => []ButtonsAsHeld
<1>1. ButtonsInv => ButtonsAsHeld
  BY DEF ButtonsInv
<1> QED BY <1>1, InitOK, NextOK, PTL DEF PointerSpec

-----------------------------------------------------------------------------
\* FingersMove sends one event for each element of a set: SetToSeq of a finite
\* set lists exactly its elements.
LEMMA SetToSeqLists ==
  ASSUME NEW S, IsFiniteSet(S)
  PROVE  /\ Cardinality(S) \in Nat
         /\ SetToSeq(S) \in [1..Cardinality(S) -> S]
         /\ \A x \in S : \E i \in 1..Cardinality(S) : SetToSeq(S)[i] = x
<1> DEFINE n == Cardinality(S)
<1>1. n \in Nat
  BY FS_CardinalityType
<1>2. \E f : f \in Bijection(1..n, S)
  BY FS_CardinalityType DEF ExistsBijection
<1>3. \E f \in [1..n -> S] : IsInjective(f)
  BY <1>2 DEF Bijection, Injection, IsInjective
<1>4. SetToSeq(S) \in [1..n -> S] /\ IsInjective(SetToSeq(S))
  BY <1>3 DEF SetToSeq
<1> DEFINE f == SetToSeq(S)
           T == {f[i] : i \in 1..n}
<1> HIDE DEF f, n
<1>5. f \in Bijection(1..n, T)
  BY <1>4 DEF Bijection, Injection, Surjection, IsInjective, f, n
<1>6. IsFiniteSet(T) /\ Cardinality(T) = n
  <2>1. IsFiniteSet(1..n) /\ Cardinality(1..n) = n
    BY <1>1, FS_Interval
  <2>2. ExistsBijection(1..n, T)
    BY <1>5 DEF ExistsBijection
  <2> QED BY <2>1, <2>2, FS_Bijection
<1>7. T \subseteq S
  BY <1>4 DEF f, n
<1>8. T = S
  BY <1>6, <1>7, FS_Subset DEF n
<1> QED BY <1>1, <1>4, <1>8 DEF f, n

\* The events of Each name each of the ids, and no other, with the one type.
LEMMA EachLists ==
  ASSUME NEW type \in {"XI_TouchBegin", "XI_TouchUpdate", "XI_TouchEnd"}, NEW ids \in SUBSET Fingers
  PROVE  /\ Each(type, ids) \in Seq(Touches)
         /\ \A i \in 1..Len(Each(type, ids)) :
              Each(type, ids)[i].type = type /\ Each(type, ids)[i].id \in ids
         /\ \A id \in ids : \E i \in 1..Len(Each(type, ids)) : Each(type, ids)[i].id = id
<1>1. IsFiniteSet(ids)
  BY PointerAssumption, FS_Subset
<1> DEFINE n == Cardinality(ids)
           s == SetToSeq(ids)
<1>2. n \in Nat /\ s \in [1..n -> ids] /\ \A x \in ids : \E i \in 1..n : s[i] = x
  BY <1>1, SetToSeqLists
<1>3. Each(type, ids) = [i \in 1..n |-> Touch(type, s[i])]
  BY DEF Each
<1> HIDE DEF n, s
<1>4. \A i \in 1..n : Touch(type, s[i]) \in Touches
  BY <1>2 DEF Touch, Touches
<1>5. Each(type, ids) \in Seq(Touches) /\ Len(Each(type, ids)) = n
  BY <1>2, <1>3, <1>4
<1> QED BY <1>2, <1>3, <1>5 DEF Touch

-----------------------------------------------------------------------------
TouchType ==
  /\ connected \in BOOLEAN
  /\ fingers \subseteq Fingers /\ pointers \subseteq Fingers
  /\ active \subseteq Fingers /\ unseen \subseteq Fingers
  /\ touchWork \in Seq(Touches) /\ Len(touchWork) <= MaxWork

\* The last of the events of a sequence that are about id ends its touch just
\* when id is not in on; if there is none, the touch is active just when it is.
Tells(work, act, id, on) ==
  /\ (\A i \in 1..Len(work) : work[i].id # id) => (id \in act <=> id \in on)
  /\ \A i \in 1..Len(work) :
       work[i].id = id /\ (\A j \in 1..Len(work) : j > i => work[j].id # id)
         => (work[i].type # "XI_TouchEnd" <=> id \in on)

\* A finger that did not go down or up unseen will have its touch active, when
\* the main thread has caught up, exactly if it is on the screen.
QueueTells == \A id \in Fingers \ unseen : Tells(touchWork, active, id, fingers)

TouchInv == TouchType /\ QueueTells

\* Events about other fingers change nothing.
LEMMA TellsOther ==
  ASSUME NEW w \in Seq(Touches), NEW e \in Seq(Touches), NEW act, NEW id, NEW on,
         Tells(w, act, id, on), \A i \in 1..Len(e) : e[i].id # id
  PROVE  Tells(w \o e, act, id, on)
<1>1. /\ w \o e \in Seq(Touches) /\ Len(w \o e) = Len(w) + Len(e)
      /\ Len(w) \in Nat /\ Len(e) \in Nat
      /\ \A i \in 1..Len(w) : (w \o e)[i] = w[i]
      /\ \A i \in 1..(Len(w) + Len(e)) : i > Len(w) => (w \o e)[i] = e[i - Len(w)]
  OBVIOUS
<1>2. \A i \in 1..Len(w \o e) : (w \o e)[i].id = id => i \in 1..Len(w)
  BY <1>1
<1>3. \A i \in 1..Len(w) : i \in 1..Len(w \o e)
  BY <1>1
<1> QED BY <1>1, <1>2, <1>3 DEF Tells

\* Events about the finger decide, and the last one of them says what holds.
LEMMA TellsNew ==
  ASSUME NEW w \in Seq(Touches), NEW e \in Seq(Touches), NEW act, NEW id, NEW on,
         \E i \in 1..Len(e) : e[i].id = id,
         \A i \in 1..Len(e) :
           e[i].id = id /\ (\A j \in 1..Len(e) : j > i => e[j].id # id)
             => (e[i].type # "XI_TouchEnd" <=> id \in on)
  PROVE  Tells(w \o e, act, id, on)
<1> DEFINE m == Len(w)
           n == Len(e)
           v == w \o e
<1>1. /\ Len(v) = m + n /\ m \in Nat /\ n \in Nat
      /\ \A i \in 1..m : v[i] = w[i]
      /\ \A i \in 1..n : v[m + i] = e[i]
  OBVIOUS
<1> HIDE DEF m, n, v
<1>2. PICK k \in 1..n : e[k].id = id
  BY DEF n
<1>3. m + k \in 1..Len(v) /\ v[m + k].id = id
  <2>1. v[m + k] = e[k]
    BY <1>1, <1>2
  <2>2. m + k \in 1..(m + n)
    BY <1>1, <1>2
  <2> QED BY <1>1, <1>2, <2>1, <2>2
<1>4. ASSUME NEW i \in 1..Len(v), v[i].id = id,
             \A j \in 1..Len(v) : j > i => v[j].id # id
      PROVE  (v[i].type # "XI_TouchEnd" <=> id \in on)
  <2>1. i >= m + k
    BY <1>1, <1>3, <1>4
  <2>2. i - m \in 1..n /\ v[i] = e[i - m]
    <3>1. i - m \in 1..n
      BY <1>1, <2>1
    <3>2. v[m + (i - m)] = e[i - m] /\ m + (i - m) = i
      BY <1>1, <3>1
    <3> QED BY <3>1, <3>2
  <2>3. ASSUME NEW j \in 1..n, j > i - m PROVE e[j].id # id
    <3>1. m + j \in 1..Len(v) /\ m + j > i /\ v[m + j] = e[j]
      BY <1>1, <2>3
    <3> QED BY <1>4, <3>1
  <2> QED BY <1>4, <2>2, <2>3 DEF n
<1> QED BY <1>3, <1>4 DEF Tells, v

\* The main thread takes the first event.
LEMMA TellsTail ==
  ASSUME NEW w \in Seq(Touches), w # <<>>, NEW act, NEW id, NEW on,
         Tells(w, act, id, on)
  PROVE  Tells(Tail(w), IF Head(w).type = "XI_TouchEnd" THEN act \ {Head(w).id}
                        ELSE act \cup {Head(w).id}, id, on)
<1> DEFINE v == Tail(w)
           act1 == IF w[1].type = "XI_TouchEnd" THEN act \ {w[1].id} ELSE act \cup {w[1].id}
<1>1. /\ Len(w) \in Nat /\ Len(w) > 0 /\ Head(w) = w[1]
      /\ Len(v) = Len(w) - 1
      /\ \A i \in 1..(Len(w) - 1) : v[i] = w[i + 1]
  OBVIOUS
<1> HIDE DEF v
<1>2. ASSUME NEW i \in 1..Len(v), v[i].id = id, \A j \in 1..Len(v) : j > i => v[j].id # id
      PROVE  (v[i].type # "XI_TouchEnd" <=> id \in on)
  <2>1. i + 1 \in 1..Len(w) /\ w[i + 1] = v[i]
    BY <1>1
  <2>2. ASSUME NEW j \in 1..Len(w), j > i + 1 PROVE w[j].id # id
    <3>1. j - 1 \in 1..Len(v) /\ j - 1 > i /\ v[j - 1] = w[j]
      BY <1>1, <2>2
    <3> QED BY <1>2, <3>1
  <2> QED BY <1>2, <2>1, <2>2 DEF Tells
<1>3. ASSUME \A i \in 1..Len(v) : v[i].id # id
      PROVE  (id \in act1 <=> id \in on)
  <2>1. \A j \in 1..Len(w) : j > 1 => w[j].id # id
    <3> SUFFICES ASSUME NEW j \in 1..Len(w), j > 1 PROVE w[j].id # id
      OBVIOUS
    <3>1. j - 1 \in 1..Len(v) /\ v[j - 1] = w[j]
      BY <1>1
    <3> QED BY <1>3, <3>1
  <2>2. 1 \in 1..Len(w)
    BY <1>1
  <2>3. CASE w[1].id = id
    <3>1. (w[1].type # "XI_TouchEnd" <=> id \in on)
      BY <2>1, <2>2, <2>3 DEF Tells
    <3> QED BY <2>3, <3>1
  <2>4. CASE w[1].id # id
    <3>1. \A j \in 1..Len(w) : w[j].id # id
      BY <1>1, <2>1, <2>4
    <3>2. (id \in act <=> id \in on)
      BY <3>1 DEF Tells
    <3> QED BY <2>4, <3>2
  <2> QED BY <2>3, <2>4
<1> QED BY <1>1, <1>2, <1>3 DEF Tells, v

-----------------------------------------------------------------------------
\* Begin, end and the pair that FingerUp sends, as sequences of events.
LEMMA TouchPairs ==
  ASSUME NEW id \in Fingers
  PROVE  /\ <<Touch("XI_TouchBegin", id)>> \in Seq(Touches)
         /\ <<Touch("XI_TouchUpdate", id), Touch("XI_TouchEnd", id)>> \in Seq(Touches)
BY DEF Touch, Touches

\* What Send leaves: the events of a connected activity are queued.
LEMMA SendType ==
  ASSUME TouchType, NEW events \in Seq(Touches), Send(events)
  PROVE  touchWork' \in Seq(Touches) /\ Len(touchWork') <= MaxWork
<1>1. touchWork \in Seq(Touches) /\ Len(touchWork) <= MaxWork
  BY DEF TouchType
<1>2. CASE connected
  <2>1. touchWork' = touchWork \o events /\ Len(touchWork) + Len(events) <= MaxWork
    BY <1>2 DEF Send
  <2>2. touchWork \o events \in Seq(Touches) /\ Len(touchWork \o events) = Len(touchWork) + Len(events)
    BY <1>1
  <2> QED BY <2>1, <2>2
<1>3. CASE ~connected
  BY <1>1, <1>3 DEF Send
<1> QED BY <1>2, <1>3

LEMMA DownStep ==
  ASSUME TouchInv, NEW id \in Fingers, FingerDown(id)
  PROVE  TouchInv'
<1> DEFINE e == <<Touch("XI_TouchBegin", id)>>
<1>1. /\ fingers' = fingers \cup {id} /\ Send(e) /\ SeenIf(connected, id)
      /\ UNCHANGED <<connected, pointers, active>>
  BY DEF FingerDown, otherVars
<1>2. e \in Seq(Touches) /\ Len(e) = 1 /\ e[1].id = id /\ e[1].type = "XI_TouchBegin"
  BY TouchPairs DEF Touch
<1> HIDE DEF e
<1>3. TouchType'
  BY <1>1, <1>2, SendType DEF TouchInv, TouchType, SeenIf
<1>4. ASSUME NEW f \in Fingers, f \notin unseen' PROVE Tells(touchWork', active, f, fingers')
  <2>1. CASE f = id
    <3>1. touchWork' = touchWork \o e
      BY <1>1, <1>4, <2>1 DEF Send, SeenIf
    <3>2. /\ \E i \in 1..Len(e) : e[i].id = f
          /\ \A i \in 1..Len(e) : e[i].type # "XI_TouchEnd"
      BY <1>2, <2>1
    <3>3. f \in fingers'
      BY <1>1, <2>1
    <3>4. Tells(touchWork \o e, active, f, fingers')
      BY <1>2, <3>2, <3>3, TellsNew DEF TouchInv, TouchType
    <3> QED BY <3>1, <3>3, <3>4
  <2>2. CASE f # id
    <3>1. f \notin unseen /\ (f \in fingers' <=> f \in fingers)
      BY <1>1, <1>4, <2>2 DEF SeenIf
    <3>2. Tells(touchWork, active, f, fingers)
      BY <3>1 DEF TouchInv, QueueTells
    <3>3. Tells(touchWork \o e, active, f, fingers)
      BY <1>2, <2>2, <3>2, TellsOther DEF TouchInv, TouchType
    <3>4. Tells(touchWork', active, f, fingers)
      BY <1>1, <3>2, <3>3 DEF Send
    <3> QED BY <3>1, <3>4 DEF Tells
  <2> QED BY <2>1, <2>2
<1> QED BY <1>1, <1>3, <1>4 DEF TouchInv, QueueTells

\* FingerUp and Cancel send the same events for one finger; any other finger
\* that they take from the screen counts as unseen.
LEMMA LiftStep ==
  ASSUME TouchInv, NEW id \in Fingers, UNCHANGED <<connected, pointers, active>>,
         Send(<<Touch("XI_TouchUpdate", id), Touch("XI_TouchEnd", id)>>),
         fingers' \subseteq fingers \ {id}, unseen' \subseteq Fingers,
         unseen \ {id} \subseteq unseen',
         fingers \ (fingers' \cup {id}) \subseteq unseen',
         ~connected => id \in unseen'
  PROVE  TouchInv'
<1> DEFINE e == <<Touch("XI_TouchUpdate", id), Touch("XI_TouchEnd", id)>>
<1>2. /\ e \in Seq(Touches) /\ Len(e) = 2 /\ e[1].id = id /\ e[2].id = id
      /\ e[2].type = "XI_TouchEnd"
  BY TouchPairs DEF Touch
<1>3. Send(e)
  OBVIOUS
<1> HIDE DEF e
<1>4. TouchType'
  BY <1>2, <1>3, SendType DEF TouchInv, TouchType
<1>5. ASSUME NEW f \in Fingers, f \notin unseen' PROVE Tells(touchWork', active, f, fingers')
  <2>1. CASE f = id
    <3>1. touchWork' = touchWork \o e
      BY <1>3, <1>5, <2>1 DEF Send
    <3>2. /\ \E i \in 1..Len(e) : e[i].id = f
          /\ \A i \in 1..Len(e) : e[i].id = f /\ (\A j \in 1..Len(e) : j > i => e[j].id # f)
               => e[i].type = "XI_TouchEnd"
      <4>1. 1..Len(e) = {1, 2}
        BY <1>2
      <4> QED BY <1>2, <2>1, <4>1
    <3>3. f \notin fingers'
      BY <2>1
    <3>4. Tells(touchWork \o e, active, f, fingers')
      BY <1>2, <3>2, <3>3, TellsNew DEF TouchInv, TouchType
    <3> QED BY <3>1, <3>3, <3>4
  <2>2. CASE f # id
    <3>1. f \notin unseen /\ (f \in fingers' <=> f \in fingers)
      BY <1>5, <2>2
    <3>2. Tells(touchWork, active, f, fingers)
      BY <3>1 DEF TouchInv, QueueTells
    <3>3. \A i \in 1..Len(e) : e[i].id # f
      <4>1. 1..Len(e) = {1, 2}
        BY <1>2
      <4> QED BY <1>2, <2>2, <4>1
    <3>4. Tells(touchWork \o e, active, f, fingers)
      BY <1>2, <3>2, <3>3, TellsOther DEF TouchInv, TouchType
    <3>5. Tells(touchWork', active, f, fingers)
      BY <1>3, <3>2, <3>4 DEF Send
    <3> QED BY <3>1, <3>5 DEF Tells
  <2> QED BY <2>1, <2>2
<1> QED BY <1>4, <1>5 DEF TouchInv, QueueTells

LEMMA UpStep ==
  ASSUME TouchInv, NEW id \in Fingers, FingerUp(id) \/ Cancel(id)
  PROVE  TouchInv'
<1>1. CASE FingerUp(id)
  BY <1>1, LiftStep DEF FingerUp, SeenIf, otherVars, TouchInv, TouchType
<1>2. CASE Cancel(id)
  BY <1>2, LiftStep DEF Cancel, otherVars, TouchInv, TouchType
<1> QED BY <1>1, <1>2

\* A finger lifted without a word, or with the activity, counts as unseen.
LEMMA UnseenStep ==
  ASSUME TouchInv, UNCHANGED <<touchWork, active>>, connected' \in BOOLEAN, pointers' \subseteq Fingers,
         fingers' \subseteq fingers, unseen' \subseteq Fingers,
         unseen \cup (fingers \ fingers') \subseteq unseen'
  PROVE  TouchInv'
<1>1. TouchType'
  BY DEF TouchInv, TouchType
<1>2. ASSUME NEW f \in Fingers, f \notin unseen' PROVE Tells(touchWork, active, f, fingers')
  <2>1. f \notin unseen /\ (f \in fingers' <=> f \in fingers)
    BY <1>2
  <2>2. Tells(touchWork, active, f, fingers)
    BY <2>1 DEF TouchInv, QueueTells
  <2> QED BY <2>1, <2>2 DEF Tells
<1> QED BY <1>1, <1>2 DEF TouchInv, QueueTells

\* A move tells of the fingers on the screen and of those that no move was
\* about; of the others nothing new is known.
LEMMA MoveStep ==
  ASSUME TouchInv, FingersMove
  PROVE  TouchInv'
<1> DEFINE gone == Fingers \ pointers'
           u == Each("XI_TouchUpdate", fingers)
           d == Each("XI_TouchEnd", gone)
<1>0. fingers \in SUBSET Fingers /\ gone \in SUBSET Fingers
  BY DEF TouchInv, TouchType
<1>1. /\ Send(u \o d) /\ UNCHANGED <<connected, active, fingers>>
      /\ pointers' = pointers \cup fingers
      /\ unseen' = IF connected THEN unseen \cap (pointers' \ fingers) ELSE unseen
  BY DEF FingersMove, otherVars
<1>8. gone \cap fingers = {}
  BY <1>1
<1>2. /\ u \in Seq(Touches)
      /\ \A i \in 1..Len(u) : u[i].type = "XI_TouchUpdate" /\ u[i].id \in fingers
      /\ \A f \in fingers : \E i \in 1..Len(u) : u[i].id = f
  BY <1>0, EachLists
<1>3. /\ d \in Seq(Touches)
      /\ \A i \in 1..Len(d) : d[i].type = "XI_TouchEnd" /\ d[i].id \in gone
      /\ \A f \in gone : \E i \in 1..Len(d) : d[i].id = f
  BY <1>0, EachLists
<1> HIDE DEF u, d, gone
<1>4. /\ u \o d \in Seq(Touches) /\ Len(u \o d) = Len(u) + Len(d)
      /\ Len(u) \in Nat /\ Len(d) \in Nat
      /\ \A i \in 1..Len(u) : (u \o d)[i] = u[i]
      /\ \A i \in 1..Len(d) : (u \o d)[Len(u) + i] = d[i]
      /\ \A i \in 1..(Len(u) + Len(d)) : i > Len(u) => (u \o d)[i] = d[i - Len(u)]
  BY <1>2, <1>3
<1>5. TouchType'
  BY <1>1, <1>4, SendType DEF TouchInv, TouchType
<1>6. CASE connected
  <2>1. touchWork' = touchWork \o (u \o d)
    BY <1>1, <1>6 DEF Send
  <2>2. ASSUME NEW i \in 1..Len(u \o d)
        PROVE  (u \o d)[i].type # "XI_TouchEnd" <=> (u \o d)[i].id \in fingers
    <3>1. CASE i \in 1..Len(u)
      BY <1>2, <1>4, <3>1
    <3>2. CASE i \notin 1..Len(u)
      <4>1. i - Len(u) \in 1..Len(d) /\ (u \o d)[i] = d[i - Len(u)]
        BY <1>4, <3>2
      <4> QED BY <1>3, <1>8, <4>1
    <3> QED BY <3>1, <3>2
  <2>3. ASSUME NEW f \in fingers \cup gone PROVE \E i \in 1..Len(u \o d) : (u \o d)[i].id = f
    <3>1. CASE f \in fingers
      <4>1. PICK i \in 1..Len(u) : u[i].id = f
        BY <1>2, <3>1
      <4>2. i \in 1..Len(u \o d)
        BY <1>4
      <4> QED BY <1>4, <4>1, <4>2
    <3>2. CASE f \notin fingers
      <4>1. PICK i \in 1..Len(d) : d[i].id = f
        BY <1>3, <3>2
      <4>2. Len(u) + i \in 1..Len(u \o d)
        BY <1>4
      <4> QED BY <1>4, <4>1, <4>2
    <3> QED BY <3>1, <3>2
  <2>4. ASSUME NEW f \in Fingers, f \notin unseen'
        PROVE  Tells(touchWork \o (u \o d), active, f, fingers)
    <3>1. CASE f \in fingers \cup gone
      BY <1>4, <2>2, <2>3, <3>1, TellsNew DEF TouchInv, TouchType
    <3>2. CASE f \notin fingers \cup gone
      <4>1. f \notin unseen
        BY <1>1, <1>6, <2>4, <3>2 DEF gone
      <4>2. Tells(touchWork, active, f, fingers)
        BY <4>1 DEF TouchInv, QueueTells
      <4>3. \A i \in 1..Len(u \o d) : (u \o d)[i].id # f
        <5> SUFFICES ASSUME NEW i \in 1..Len(u \o d) PROVE (u \o d)[i].id \in fingers \cup gone
          BY <3>2
        <5>1. CASE i \in 1..Len(u)
          BY <1>2, <1>4, <5>1
        <5>2. CASE i \notin 1..Len(u)
          <6>1. i - Len(u) \in 1..Len(d) /\ (u \o d)[i] = d[i - Len(u)]
            BY <1>4, <5>2
          <6> QED BY <1>3, <6>1
        <5> QED BY <5>1, <5>2
      <4> QED BY <1>4, <4>2, <4>3, TellsOther DEF TouchInv, TouchType
    <3> QED BY <3>1, <3>2
  <2> QED BY <1>1, <1>5, <2>1, <2>4 DEF TouchInv, QueueTells
<1>7. CASE ~connected
  <2>1. UNCHANGED <<touchWork, unseen>>
    BY <1>1, <1>7 DEF Send
  <2> QED BY <1>1, <1>5, <2>1 DEF TouchInv, QueueTells
<1> QED BY <1>6, <1>7 DEF TouchInv, TouchType

LEMMA HandleStep ==
  ASSUME TouchInv, handleTouchEvent
  PROVE  TouchInv'
<1>1. /\ touchWork # <<>> /\ touchWork' = Tail(touchWork)
      /\ active' = IF Head(touchWork).type = "XI_TouchEnd" THEN active \ {Head(touchWork).id}
                   ELSE active \cup {Head(touchWork).id}
      /\ UNCHANGED <<connected, fingers, pointers, unseen>>
  BY DEF handleTouchEvent
<1>2. touchWork \in Seq(Touches) /\ Head(touchWork) \in Touches
  BY <1>1 DEF TouchInv, TouchType
<1>3. TouchType'
  <2>1. touchWork' \in Seq(Touches) /\ Len(touchWork') = Len(touchWork) - 1
    BY <1>1, <1>2
  <2>2. Len(touchWork') <= MaxWork
    BY <1>2, <2>1, PointerAssumption DEF TouchInv, TouchType
  <2>3. Head(touchWork).id \in Fingers
    BY <1>2 DEF Touches
  <2> QED BY <1>1, <2>1, <2>2, <2>3 DEF TouchInv, TouchType
<1>4. ASSUME NEW f \in Fingers \ unseen PROVE Tells(touchWork', active', f, fingers)
  <2>1. Tells(touchWork, active, f, fingers)
    BY DEF TouchInv, QueueTells
  <2> QED BY <1>1, <1>2, <2>1, TellsTail
<1> QED BY <1>1, <1>3, <1>4 DEF TouchInv, QueueTells

LEMMA TouchNextOK == TouchInv /\ [PointerNext]_pointerVars => TouchInv'
<1> SUFFICES ASSUME TouchInv, [PointerNext]_pointerVars PROVE TouchInv'
  OBVIOUS
<1>1. ASSUME UNCHANGED touchVars, connected' \in BOOLEAN PROVE TouchInv'
  BY <1>1 DEF touchVars, TouchInv, TouchType, QueueTells
<1>2. CASE ConnectionNext
  <2>1. CASE ActivityRestart
    BY <2>1, UnseenStep DEF ActivityRestart, TouchInv, TouchType
  <2> QED BY <1>1, <1>2, <2>1 DEF ConnectionNext, Connect, HangUp
<1>3. CASE ButtonsNext
  BY <1>1, <1>3 DEF ButtonsNext, onStylus, onMouse, refreshInputDevices, reloadPreferences,
                    TouchInv, TouchType
<1>4. CASE TouchNext
  <2>1. ASSUME NEW id \in Fingers, FingerUpMissed(id) PROVE TouchInv'
    BY <2>1, UnseenStep DEF FingerUpMissed, SeenIf, otherVars, TouchInv, TouchType
  <2> QED BY <1>4, <2>1, DownStep, UpStep, MoveStep, HandleStep DEF TouchNext
<1>5. CASE UNCHANGED pointerVars
  BY <1>1, <1>5 DEF pointerVars, TouchInv, TouchType
<1> QED BY <1>2, <1>3, <1>4, <1>5 DEF PointerNext

LEMMA TouchInitOK == PointerInit => TouchInv
<1> SUFFICES ASSUME PointerInit PROVE TouchInv
  OBVIOUS
<1>1. TouchType
  <2>1. <<>> \in Seq(Touches) /\ Len(<<>>) = 0
    OBVIOUS
  <2>2. 0 <= MaxWork
    BY PointerAssumption
  <2>3. touchWork \in Seq(Touches) /\ Len(touchWork) <= MaxWork
    BY <2>1, <2>2 DEF PointerInit
  <2> QED BY <2>3 DEF PointerInit, TouchType
<1>2. \A id \in Fingers : Tells(<<>>, {}, id, {})
  <2>1. \A i \in 1..Len(<<>>) : FALSE
    OBVIOUS
  <2> QED BY <2>1 DEF Tells
<1>3. fingers = {} /\ active = {} /\ touchWork = <<>>
  BY DEF PointerInit
<1> QED BY <1>1, <1>2, <1>3 DEF TouchInv, QueueTells

\* When the main thread has caught up, the touches of lorieTouch are the fingers
\* on the screen, but for those that went down or up unseen and were not told of
\* since, neither by a move nor by an event of their own (sendTouchEvent with
\* its array pointers, EVENT_TOUCH and handleTouchEvent).
THEOREM TouchesFollow == PointerSpec => []TouchesAsFingers
<1>1. TouchInv => TouchesAsFingers
  <2> SUFFICES ASSUME TouchInv, touchWork = <<>> PROVE active \ unseen = fingers \ unseen
    BY DEF TouchesAsFingers
  <2>1. ASSUME NEW f \in Fingers \ unseen PROVE f \in active <=> f \in fingers
    <3>1. Tells(<<>>, active, f, fingers)
      BY DEF TouchInv, QueueTells
    <3>2. \A i \in 1..Len(<<>>) : <<>>[i].id # f
      OBVIOUS
    <3> QED BY <3>1, <3>2 DEF Tells
  <2> QED BY <2>1 DEF TouchInv, TouchType
<1> QED BY <1>1, TouchInitOK, TouchNextOK, PTL DEF PointerSpec

\* The types of the pointer variables; the buttons of a device are released
\* when it is removed (lorieSetStylusEnabled).
THEOREM TypeCorrect == PointerSpec => []PointerTypeOK
<1> DEFINE Present == \A d \in Devices : Exists(d) \/ down[d] = {}
<1>1. PointerInit => Present
  BY DEF PointerInit, NothingDown
<1>2. ButtonsInv /\ Present /\ [PointerNext]_pointerVars => Present'
  <2> SUFFICES ASSUME ButtonsInv, Present, [PointerNext]_pointerVars,
                      NEW e \in Devices, ~Exists(e)'
               PROVE  down'[e] = {}
    OBVIOUS
  <2>0. down \in [Devices -> SUBSET Buttons]
    BY DEF ButtonsInv, ButtonsType
  <2>1. ASSUME UNCHANGED <<available, down>> PROVE down'[e] = {}
    BY <2>1 DEF Exists
  <2>2. ASSUME NEW tool \in Tools, NEW bs \in SUBSET Buttons, onStylus(tool, bs)
        PROVE  down'[e] = {}
    <3>1. available' = available
      BY <2>2 DEF onStylus
    <3>2. ~Exists(e) /\ down[e] = {}
      BY <3>1 DEF Exists
    <3>3. CASE connected /\ Exists(StylusDevice(tool))
      BY <2>0, <2>2, <3>2, <3>3 DEF onStylus, EventStylus
    <3>4. CASE ~(connected /\ Exists(StylusDevice(tool)))
      BY <2>2, <3>2, <3>4 DEF onStylus
    <3> QED BY <3>3, <3>4
  <2>3. ASSUME NEW bs \in SUBSET Buttons, onMouse(bs) PROVE down'[e] = {}
    BY <2>0, <2>3 DEF onMouse, EventMouse, Exists
  <2>4. ASSUME NEW enabled \in BOOLEAN, refreshInputDevices(enabled) PROVE down'[e] = {}
    BY <2>0, <2>4 DEF refreshInputDevices, lorieSetStylusEnabled, Exists, Devices
  <2>5. CASE ConnectionNext \/ reloadPreferences \/ UNCHANGED pointerVars
    BY <2>1, <2>5 DEF ConnectionNext, Connect, HangUp, ActivityRestart, reloadPreferences,
                      pointerVars
  <2>6. CASE TouchNext
    BY <2>1, <2>6 DEF TouchNext, FingerDown, FingerUp, FingerUpMissed, Cancel, FingersMove,
                      handleTouchEvent, otherVars
  <2> QED BY <2>2, <2>3, <2>4, <2>5, <2>6 DEF PointerNext, ButtonsNext
<1>3. ButtonsInv /\ TouchInv /\ Present => PointerTypeOK
  BY DEF ButtonsInv, ButtonsType, TouchInv, TouchType, PointerTypeOK
<1> HIDE DEF Present
<1> QED BY <1>1, <1>2, <1>3, InitOK, NextOK, TouchInitOK, TouchNextOK, PTL DEF PointerSpec

-----------------------------------------------------------------------------
(***************************************************************************)
(* Keysym: numbers, sets and sequences.                                    *)
(***************************************************************************)
LEMMA HasLeast ==
  ASSUME NEW T \in SUBSET Nat, T # {}
  PROVE  \E x \in T : \A y \in T : ~(y < x)
<1>1. \E x \in T : \A y \in T : ~(<<y, x>> \in OpToRel(<, Nat))
  BY NatLessThanWellFounded, WFMin
<1>2. \A x, y \in Nat : y < x => <<y, x>> \in OpToRel(<, Nat)
  BY DEF OpToRel
<1> QED BY <1>1, <1>2

LEMMA MinIs ==
  ASSUME NEW T \in SUBSET Nat, T # {}
  PROVE  Min(T) \in T /\ Min(T) \in Nat /\ \A y \in T : Min(T) <= y
<1>1. PICK x \in T : \A y \in T : ~(y < x)
  BY HasLeast
<1>2. \A y \in T : x <= y
  BY <1>1
<1> QED BY <1>2 DEF Min

LEMMA MaxIs ==
  ASSUME NEW n \in Nat, NEW T \in SUBSET (0..n), T # {}
  PROVE  Max(T) \in T /\ Max(T) \in 0..n /\ \A y \in T : Max(T) >= y
<1> DEFINE U == {n - y : y \in T}
<1>0. \A y \in T : y \in 0..n /\ n - y \in Nat
  OBVIOUS
<1>1. U \in SUBSET Nat /\ U # {}
  BY <1>0
<1>2. PICK u \in U : \A v \in U : ~(v < u)
  BY <1>1, HasLeast
<1>3. PICK x \in T : u = n - x
  BY <1>2
<1>4. ASSUME NEW y \in T PROVE x >= y
  <2>1. n - y \in U
    OBVIOUS
  <2>2. ~(n - y < n - x)
    BY <1>2, <1>3, <2>1
  <2>3. x \in 0..n /\ y \in 0..n
    BY <1>0
  <2> QED BY <2>2, <2>3
<1> QED BY <1>4 DEF Max

\* The elements of a finite set of numbers, counted from the least one.
LEMMA NthIs ==
  ASSUME NEW S \in SUBSET Nat, IsFiniteSet(S)
  PROVE  /\ Cardinality(S) \in Nat
         /\ \A i \in 1..Cardinality(S) : Nth(S, i) \in S
         /\ \A k \in S : \E i \in 1..Cardinality(S) : Nth(S, i) = k
<1> DEFINE n == Cardinality(S)
           Below(k) == {j \in S : j < k}
           Rank(k) == Cardinality(Below(k))
<1>0. \A x \in S : x \in Nat
  OBVIOUS
<1>1. n \in Nat
  BY FS_CardinalityType
<1>2. \A k \in S : IsFiniteSet(Below(k)) /\ Rank(k) \in Nat
  <2>1. \A k \in S : Below(k) \subseteq S
    OBVIOUS
  <2>2. \A k \in S : IsFiniteSet(Below(k))
    BY <2>1, FS_Subset
  <2> QED BY <2>2, FS_CardinalityType
<1>3. \A k \in S : Rank(k) < n
  <2> SUFFICES ASSUME NEW k \in S PROVE Rank(k) < n
    OBVIOUS
  <2>1. Below(k) \subseteq S /\ Below(k) # S
    OBVIOUS
  <2>2. Rank(k) <= n /\ (Rank(k) = n => Below(k) = S)
    BY <2>1, FS_Subset
  <2> QED BY <1>1, <1>2, <2>1, <2>2
<1>4. \A j, k \in S : Rank(j) = Rank(k) => j = k
  <2>1. ASSUME NEW j \in S, NEW k \in S, j < k PROVE Rank(j) # Rank(k)
    <3>1. Below(j) \subseteq Below(k) /\ j \in Below(k) /\ j \notin Below(j)
      <4>1. \A x \in S : x < j => x < k
        <5> SUFFICES ASSUME NEW x \in S, x < j PROVE x < k
          OBVIOUS
        <5>1. x \in Nat /\ j \in Nat /\ k \in Nat
          BY <1>0
        <5> QED BY <5>1, <2>1
      <4>2. ~(j < j)
        BY <1>0
      <4> QED BY <4>1, <4>2, <2>1
    <3>2. Rank(j) <= Rank(k) /\ (Rank(j) = Rank(k) => Below(j) = Below(k))
      BY <1>2, <3>1, FS_Subset
    <3> QED BY <3>1, <3>2
  <2> QED BY <2>1
<1>5. ASSUME NEW i \in 0..(n - 1) PROVE \E k \in S : Rank(k) = i
  <2> DEFINE Bad == {m \in Nat : m <= n - 1 /\ \A k \in S : Rank(k) # m}
  <2> SUFFICES ASSUME \A k \in S : Rank(k) # i PROVE FALSE
    OBVIOUS
  <2>0. i \in Bad
    BY <1>1
  <2>1. PICK m \in Bad : \A l \in Bad : ~(l < m)
    BY <2>0, HasLeast
  <2>2. n # 0
    BY <2>1, <1>1
  <2>3. CASE m = 0
    <3>1. S # {}
      BY <2>2, FS_EmptySet
    <3>2. PICK k \in S : \A l \in S : ~(l < k)
      BY <3>1, HasLeast
    <3>3. Below(k) = {}
      BY <3>2
    <3>4. Rank(k) = 0
      BY <3>3, FS_EmptySet
    <3> QED BY <2>1, <2>3, <3>4
  <2>4. CASE m # 0
    <3>1. m - 1 \in Nat /\ m - 1 \notin Bad /\ m - 1 <= n - 1
      BY <2>1, <2>4, <1>1
    <3>2. PICK k \in S : Rank(k) = m - 1
      BY <3>1
    <3> DEFINE Above == {j \in S : j > k}
               UpTo  == Below(k) \cup {k}
    <3>3. Cardinality(UpTo) = m /\ IsFiniteSet(UpTo)
      <4>1. k \notin Below(k)
        OBVIOUS
      <4>2. Cardinality(UpTo) = Rank(k) + 1 /\ IsFiniteSet(UpTo)
        BY <4>1, <1>2, FS_AddElement
      <4> QED BY <4>2, <3>2, <2>1
    <3>4. Above # {}
      <4>1. UpTo \subseteq S
        OBVIOUS
      <4>2. ASSUME Above = {} PROVE UpTo = S
        <5>1. ASSUME NEW j \in S PROVE j < k \/ j = k
          <6>1. ~(j > k) /\ j \in Nat /\ k \in Nat
            BY <1>0, <4>2
          <6> QED BY <6>1
        <5> QED BY <5>1, <4>1
      <4> QED BY <4>2, <3>3, <2>1, <1>1
    <3>5. PICK l \in Above : \A j \in Above : ~(j < l)
      BY <3>4, HasLeast
    <3>6. Below(l) = UpTo
      <4>1. k \in Nat /\ l \in Nat /\ l \in S /\ k < l
        BY <1>0, <3>5
      <4>2. ASSUME NEW j \in S PROVE j < l <=> j < k \/ j = k
        <5>1. j \in Nat /\ (j > k => ~(j < l))
          BY <1>0, <3>5
        <5> QED BY <4>1, <5>1
      <4> QED BY <4>2
    <3>7. Rank(l) = m
      BY <3>3, <3>6
    <3> QED BY <2>1, <3>5, <3>7
  <2> QED BY <2>3, <2>4
<1>6. ASSUME NEW i \in 1..n PROVE Nth(S, i) \in S /\ Rank(Nth(S, i)) = i - 1
  <2>1. i - 1 \in 0..(n - 1)
    BY <1>1
  <2>2. \E k \in S : Rank(k) = i - 1
    BY <2>1, <1>5
  <2> QED BY <2>2 DEF Nth
<1>7. ASSUME NEW k \in S PROVE \E i \in 1..n : Nth(S, i) = k
  <2>1. Rank(k) + 1 \in 1..n
    BY <1>1, <1>2, <1>3
  <2> DEFINE i == Rank(k) + 1
  <2>2. i - 1 = Rank(k)
    BY <1>2
  <2>3. Nth(S, i) \in S /\ Rank(Nth(S, i)) = Rank(k)
    BY <2>1, <2>2, <1>6
  <2> QED BY <2>1, <2>3, <1>4
<1> QED BY <1>1, <1>6, <1>7

LEMMA KeycodesAre ==
  /\ Keycodes \in SUBSET Nat /\ Keycodes \in SUBSET (0..255)
  /\ NoKey \notin Keycodes /\ RawKeys \in SUBSET Keycodes /\ Spare \in SUBSET Keycodes
<1>1. Keycodes \subseteq 1..255 /\ RawKeys \subseteq Keycodes
  BY KeysymAssumption
<1> QED BY <1>1 DEF NoKey, Spare

LEMMA KeycodesFinite == IsFiniteSet(Keycodes)
<1>1. 1 \in Int /\ 255 \in Int
  OBVIOUS
<1>2. IsFiniteSet(1..255)
  BY <1>1, FS_Interval
<1>3. Keycodes \subseteq 1..255
  BY KeysymAssumption
<1> QED BY <1>2, <1>3, FS_Subset

-----------------------------------------------------------------------------
(***************************************************************************)
(* Looking at a key.                                                       *)
(***************************************************************************)
Effects == [set : SUBSET Modifiers, unlock : SUBSET Modifiers]
Keyboards == [down : UNION {[D -> Effects] : D \in SUBSET Keycodes},
            locked : SUBSET Modifiers, group : GroupSet]
Events  == [key : Keycodes, press : BOOLEAN]

KeyOK(key) == key \in KeyDescs /\ \A g \in DOMAIN key.groups : HasLevels(key.groups[g])
MapOK(map) == map \in [Keycodes -> KeyDescs] /\ \A k \in Keycodes : KeyOK(map[k])

\* The group that is used is one of the key.
LEMMA GroupIs ==
  ASSUME NEW key, KeyOK(key), key.groups # <<>>, NEW st \in KeyStates
  PROVE  /\ XkbKeyEffectiveGroup(key, st) \in DOMAIN key.groups
         /\ key.groups[XkbKeyEffectiveGroup(key, st)] \in Groups
         /\ HasLevels(key.groups[XkbKeyEffectiveGroup(key, st)])
<1> DEFINE n == Len(key.groups)
           g == XkbKeyEffectiveGroup(key, st)
<1>1. key.groups \in Seq(Groups) /\ n \in Nat /\ n # 0 /\ DOMAIN key.groups = 1..n
  BY DEF KeyOK, KeyDescs
<1>2. st.group \in Nat /\ st.group # 0 /\ key.redirect \in Nat /\ key.redirect # 0
  BY KeysymAssumption DEF KeyStates, KeyOK, KeyDescs
<1>3. (st.group - 1) % n \in 0..(n - 1)
  BY <1>1, <1>2
<1>4. g \in 1..n
  BY <1>1, <1>2, <1>3 DEF XkbKeyEffectiveGroup
<1> QED BY <1>1, <1>4 DEF KeyOK

LEMMA LevelIs ==
  ASSUME NEW group \in Groups, HasLevels(group), NEW mods
  PROVE  /\ EntryOf(KeyTypes[group.type], mods).level \in LevelsOf(group.type)
         /\ EntryOf(KeyTypes[group.type], mods).level \in DOMAIN group.syms
         /\ group.acts # <<>> => EntryOf(KeyTypes[group.type], mods).level \in DOMAIN group.acts
<1> DEFINE type == KeyTypes[group.type]
           fits == {e \in type.map : e.mods = mods \cap type.mask}
<1>1. CASE fits = {}
  BY <1>1 DEF EntryOf, LevelsOf, HasLevels
<1>2. CASE fits # {}
  <2>1. EntryOf(type, mods) \in type.map
    BY <1>2 DEF EntryOf
  <2> QED BY <2>1 DEF LevelsOf, HasLevels
<1> QED BY <1>1, <1>2

LEMMA TranslateIs ==
  ASSUME NEW key, KeyOK(key), NEW st \in KeyStates
  PROVE  /\ XkbTranslateKeyCode(key, st).sym \in Symbols \cup {NoSymbol}
         /\ SymbolSeen(key, st) \in Symbols \cup {NoSymbol}
<1>1. XkbTranslateKeyCode(key, st).sym \in Symbols \cup {NoSymbol}
  <2>1. CASE key.groups = <<>>
    BY <2>1 DEF XkbTranslateKeyCode
  <2>2. CASE key.groups # <<>>
    <3> DEFINE g == key.groups[XkbKeyEffectiveGroup(key, st)]
    <3>1. g \in Groups /\ EntryOf(KeyTypes[g.type], st.mods).level \in DOMAIN g.syms
      BY <2>2, GroupIs, LevelIs
    <3>2. g.syms \in Seq(Symbols \cup {NoSymbol})
      BY <3>1 DEF Groups
    <3>3. XkbTranslateKeyCode(key, st).sym = g.syms[EntryOf(KeyTypes[g.type], st.mods).level]
      BY <2>2 DEF XkbTranslateKeyCode
    <3> HIDE DEF g
    <3> QED BY <3>1, <3>2, <3>3
  <2> QED BY <2>1, <2>2
<1>2. \A s \in Symbols : Upper[s] \in Symbols
  BY KeysymAssumption
<1> QED BY <1>1, <1>2 DEF SymbolSeen

LEMMA ActionIs ==
  ASSUME NEW key, KeyOK(key), NEW st \in KeyStates
  PROVE  /\ XkbKeyActionPtr(key, st) \in Actions
         /\ key.modmap \in SUBSET Modifiers
         /\ ActMods(XkbKeyActionPtr(key, st), key) \in SUBSET Modifiers
<1>1. NoEffect \in Actions
  BY DEF NoEffect, Actions
<1>2. XkbKeyActionPtr(key, st) \in Actions
  <2>1. CASE key.groups = <<>>
    BY <2>1, <1>1 DEF XkbKeyActionPtr
  <2>2. CASE key.groups # <<>>
    <3> DEFINE g == key.groups[XkbKeyEffectiveGroup(key, st)]
    <3>1. g \in Groups /\ (g.acts # <<>> => EntryOf(KeyTypes[g.type], st.mods).level \in DOMAIN g.acts)
      BY <2>2, GroupIs, LevelIs
    <3>2. g.acts \in Seq(Actions)
      BY <3>1 DEF Groups
    <3>3. XkbKeyActionPtr(key, st) =
            IF g.acts = <<>> THEN NoEffect ELSE g.acts[EntryOf(KeyTypes[g.type], st.mods).level]
      BY <2>2 DEF XkbKeyActionPtr
    <3> HIDE DEF g
    <3> QED BY <3>1, <3>2, <3>3, <1>1
  <2> QED BY <2>1, <2>2
<1>3. key.modmap \in SUBSET Modifiers
  BY DEF KeyOK, KeyDescs
<1> QED BY <1>2, <1>3 DEF ActMods, Actions

LEMMA StateIs ==
  ASSUME NEW dev \in Keyboards
  PROVE  lorieGetKeyboardState(dev) \in KeyStates
BY DEF Keyboards, Effects, KeyStates, lorieGetKeyboardState

-----------------------------------------------------------------------------
(***************************************************************************)
(* Processing events.  The events before the n-th of a sequence lead to    *)
(* the n-th state of a run; what holds of the first state and is kept by   *)
(* each event, or is known to change with it, holds of the last.           *)
(***************************************************************************)
\* The recursive function of mieqProcessInputEvents exists.
LEMMA RunExists ==
  ASSUME NEW map, NEW dev, NEW q \in Seq(Events)
  PROVE  \E f : /\ f[0] = dev
                /\ \A n \in 1..Len(q) : f[n] = ProcessKey(map, f[n - 1], q[n])
                /\ mieqProcessInputEvents(map, dev, q) = f[Len(q)]
<1> DEFINE R(f, m) == f = [n \in 0..m |-> IF n = 0 THEN dev ELSE ProcessKey(map, f[n - 1], q[n])]
           L == Len(q)
           Bad == {m \in Nat : m <= L /\ ~ \E f : R(f, m)}
<1>1. L \in Nat
  BY DEF L
<1> HIDE DEF L
<1>2. ASSUME Bad # {} PROVE FALSE
  <2>1. PICK m \in Bad : \A l \in Bad : ~(l < m)
    BY <1>2, HasLeast
  <2>2. CASE m = 0
    <3>1. R([n \in 0..0 |-> dev], 0)
      OBVIOUS
    <3> QED BY <2>1, <2>2, <3>1
  <2>3. CASE m # 0
    <3>1. m - 1 \in Nat /\ m - 1 \notin Bad /\ m <= L
      BY <2>1, <2>3
    <3>2. PICK f : R(f, m - 1)
      BY <3>1, <1>1
    <3> DEFINE g == [n \in 0..m |-> IF n = m THEN ProcessKey(map, f[m - 1], q[m]) ELSE f[n]]
    <3>3. R(g, m)
      <4>1. \A n \in 0..m : g[n] = IF n = 0 THEN dev ELSE ProcessKey(map, g[n - 1], q[n])
        BY <2>3, <3>1, <3>2
      <4>2. g = [n \in 0..m |-> g[n]]
        OBVIOUS
      <4> HIDE DEF g
      <4> QED BY <4>1, <4>2
    <3> QED BY <2>1, <3>3
  <2> QED BY <2>2, <2>3
<1>3. \E f : R(f, L)
  BY <1>1, <1>2
<1> DEFINE a == CHOOSE f : R(f, L)
<1>4. R(a, L)
  BY <1>3
<1>5. mieqProcessInputEvents(map, dev, q) = a[L]
  BY DEF mieqProcessInputEvents, L
<1> HIDE DEF a
<1>6. a[0] = dev
  BY <1>1, <1>4
<1>7. ASSUME NEW n \in 1..L PROVE a[n] = ProcessKey(map, a[n - 1], q[n])
  <2>1. n \in 0..L /\ n # 0
    BY <1>1
  <2> QED BY <1>4, <2>1
<1> QED BY <1>5, <1>6, <1>7 DEF L

\* If each event leads from each state of S[n - 1] to one of S[n], the events
\* lead from S[0] to the last of the sets.
LEMMA RunsWithin ==
  ASSUME NEW map, NEW q \in Seq(Events), NEW S, NEW dev \in S[0],
         \A n \in 1..Len(q) : \A d \in S[n - 1] : ProcessKey(map, d, q[n]) \in S[n]
  PROVE  mieqProcessInputEvents(map, dev, q) \in S[Len(q)]
<1> DEFINE L == Len(q)
<1>1. L \in Nat
  OBVIOUS
<1>2. PICK f : /\ f[0] = dev
               /\ \A n \in 1..L : f[n] = ProcessKey(map, f[n - 1], q[n])
               /\ mieqProcessInputEvents(map, dev, q) = f[L]
  BY RunExists
<1> DEFINE Bad == {n \in Nat : n <= L /\ f[n] \notin S[n]}
<1> SUFFICES ASSUME Bad # {} PROVE FALSE
  BY <1>1, <1>2
<1> HIDE DEF L
<1>3. PICK m \in Bad : \A l \in Bad : ~(l < m)
  BY HasLeast
<1>4. m # 0
  BY <1>1, <1>2, <1>3
<1>5. m - 1 \in Nat /\ m - 1 \notin Bad /\ m \in 1..L
  BY <1>1, <1>3, <1>4
<1>6. f[m - 1] \in S[m - 1]
  BY <1>1, <1>5
<1>7. f[m] = ProcessKey(map, f[m - 1], q[m])
  BY <1>2, <1>4, <1>5
<1> QED BY <1>3, <1>5, <1>6, <1>7 DEF L

\* The same with one set.
LEMMA RunsIn ==
  ASSUME NEW map, NEW q \in Seq(Events), NEW S, NEW dev \in S,
         \A d \in S : \A e \in Events : ProcessKey(map, d, e) \in S
  PROVE  mieqProcessInputEvents(map, dev, q) \in S
<1> DEFINE T == [n \in 0..Len(q) |-> S]
<1>1. Len(q) \in Nat /\ \A n \in 1..Len(q) : q[n] \in Events
  OBVIOUS
<1>2. dev \in T[0] /\ T[Len(q)] = S
  BY <1>1
<1>3. \A n \in 1..Len(q) : \A d \in T[n - 1] : ProcessKey(map, d, q[n]) \in T[n]
  BY <1>1
<1> HIDE DEF T
<1> QED BY <1>2, <1>3, RunsWithin

\* No event, and events in two parts.
LEMMA RunEmpty ==
  ASSUME NEW map, NEW dev
  PROVE  mieqProcessInputEvents(map, dev, <<>>) = dev
<1>1. <<>> \in Seq(Events) /\ Len(<<>>) = 0
  OBVIOUS
<1> DEFINE S == [n \in 0..0 |-> {dev}]
<1>2. dev \in S[0] /\ S[Len(<<>>)] = {dev}
  OBVIOUS
<1> HIDE DEF S
<1>3. \A n \in 1..Len(<<>>) : \A d \in S[n - 1] : ProcessKey(map, d, <<>>[n]) \in S[n]
  BY <1>1
<1>4. mieqProcessInputEvents(map, dev, <<>>) \in S[Len(<<>>)]
  BY <1>1, <1>2, <1>3, RunsWithin
<1> QED BY <1>2, <1>4

LEMMA RunConcat ==
  ASSUME NEW map, NEW dev, NEW a \in Seq(Events), NEW b \in Seq(Events)
  PROVE  mieqProcessInputEvents(map, dev, a \o b) =
           mieqProcessInputEvents(map, mieqProcessInputEvents(map, dev, a), b)
<1> DEFINE A == Len(a)
           B == Len(b)
           q == a \o b
           mid == mieqProcessInputEvents(map, dev, a)
<1>1. /\ A \in Nat /\ B \in Nat /\ q \in Seq(Events) /\ Len(q) = A + B
      /\ \A n \in 1..A : q[n] = a[n]
      /\ \A n \in 1..B : q[A + n] = b[n]
  OBVIOUS
<1>2. PICK f : /\ f[0] = dev
               /\ \A n \in 1..A : f[n] = ProcessKey(map, f[n - 1], a[n])
               /\ mid = f[A]
  BY RunExists
<1>3. PICK g : /\ g[0] = mid
               /\ \A n \in 1..B : g[n] = ProcessKey(map, g[n - 1], b[n])
               /\ mieqProcessInputEvents(map, mid, b) = g[B]
  BY RunExists
<1> HIDE DEF A, B, q, mid
<1> DEFINE S == [n \in 0..(A + B) |-> IF n <= A THEN {f[n]} ELSE {g[n - A]}]
<1>4. dev \in S[0] /\ S[A + B] = {g[B]}
  <2>1. f[0] = dev /\ g[0] = mid
    BY <1>1, <1>2, <1>3
  <2>2. B = 0 => f[A + B] = g[B]
    BY <1>1, <1>2, <2>1
  <2> QED BY <1>1, <2>1, <2>2
<1>5. ASSUME NEW n \in 1..(A + B), NEW d \in S[n - 1] PROVE ProcessKey(map, d, q[n]) \in S[n]
  <2>1. CASE n <= A
    <3>1. d = f[n - 1] /\ n \in 1..A
      BY <1>1, <2>1
    <3>2. f[n] = ProcessKey(map, f[n - 1], a[n])
      BY <1>1, <1>2, <3>1
    <3> QED BY <1>1, <2>1, <3>1, <3>2
  <2>2. CASE n > A
    <3>1. n - A \in 1..B /\ n - 1 - A = n - A - 1
      BY <1>1, <2>2
    <3>2. g[0] = f[A]
      BY <1>1, <1>2, <1>3
    <3>3. d = g[n - A - 1]
      BY <1>1, <2>2, <3>1, <3>2
    <3>4. g[n - A] = ProcessKey(map, g[n - A - 1], b[n - A])
      BY <1>1, <1>3, <3>1
    <3>5. q[n] = b[n - A]
      BY <1>1, <3>1
    <3> QED BY <1>1, <2>2, <3>3, <3>4, <3>5
  <2> QED BY <1>1, <2>1, <2>2
<1> HIDE DEF S
<1>6. mieqProcessInputEvents(map, dev, q) \in S[A + B]
  BY <1>1, <1>4, <1>5, RunsWithin
<1> QED BY <1>3, <1>4, <1>6 DEF q, mid

\* The modifiers a key locks when it goes down.
LockOf(key, st) == IF XkbKeyActionPtr(key, st).type = "LockMods" THEN PressMods(key, st) ELSE {}

LEMMA DevicesAre ==
  ASSUME NEW dev \in Keyboards
  PROVE  /\ DOMAIN dev.down \in SUBSET Keycodes /\ dev.down \in [DOMAIN dev.down -> Effects]
         /\ dev.locked \in SUBSET Modifiers /\ dev.group \in GroupSet
         /\ dev = [down |-> dev.down, locked |-> dev.locked, group |-> dev.group]
<1>1. PICK D \in SUBSET Keycodes : dev.down \in [D -> Effects]
  BY DEF Keyboards
<1>2. dev = [down |-> dev.down, locked |-> dev.locked, group |-> dev.group]
  BY DEF Keyboards
<1> QED BY <1>1, <1>2 DEF Keyboards

\* What an event e does to a device: d is dev after it, st the state before it.
Processed(map, dev, e, d, st) ==
  /\ d \in Keyboards /\ d.group = dev.group
  /\ DOMAIN d.down = IF e.press THEN DOMAIN dev.down \cup {e.key} ELSE DOMAIN dev.down \ {e.key}
  /\ \A k \in DOMAIN dev.down \cap DOMAIN d.down : d.down[k] = dev.down[k]
  /\ \A k \in DOMAIN d.down \ DOMAIN dev.down :
       /\ k = e.key /\ d.down[k].set = PressMods(map[k], st)
       /\ d.down[k].unlock \subseteq LockOf(map[k], st)
  /\ e.press /\ e.key \notin DOMAIN dev.down => d.locked = dev.locked \cup LockOf(map[e.key], st)
  /\ ~e.press /\ e.key \in DOMAIN dev.down => d.locked = dev.locked \ dev.down[e.key].unlock
  /\ (e.press <=> e.key \in DOMAIN dev.down) => d = dev

LEMMA ProcessIs ==
  ASSUME NEW map, MapOK(map), NEW dev \in Keyboards, NEW e \in Events
  PROVE  Processed(map, dev, e, ProcessKey(map, dev, e), lorieGetKeyboardState(dev))
<1> DEFINE d  == ProcessKey(map, dev, e)
           st == lorieGetKeyboardState(dev)
<1> SUFFICES Processed(map, dev, e, d, st)
  OBVIOUS
<1> DEFINE k    == e.key
           D    == DOMAIN dev.down
           mods == PressMods(map[k], st)
           lock == LockOf(map[k], st)
<1>1. k \in Keycodes /\ e.press \in BOOLEAN
  BY DEF Events
<1>2. /\ D \in SUBSET Keycodes /\ dev.down \in [D -> Effects]
      /\ dev.locked \in SUBSET Modifiers /\ dev.group \in GroupSet
      /\ dev = [down |-> dev.down, locked |-> dev.locked, group |-> dev.group]
  BY DevicesAre
<1>3. mods \in SUBSET Modifiers /\ lock \in SUBSET Modifiers
  <2>1. st \in KeyStates /\ KeyOK(map[k])
    BY <1>1, StateIs DEF MapOK
  <2>2. XkbKeyActionPtr(map[k], st) \in Actions /\ map[k].modmap \in SUBSET Modifiers
    BY <2>1, ActionIs
  <2> QED BY <2>2 DEF PressMods, LockOf, Actions
<1>4. CASE e.press /\ k \notin D
  <2> DEFINE new  == [set |-> mods, unlock |-> mods \cap (IF XkbKeyActionPtr(map[k], st).type = "LockMods"
                                                          THEN dev.locked ELSE {})]
             nowDown == [x \in D \cup {k} |-> IF x = k THEN new ELSE dev.down[x]]
  <2>1. d = [down |-> nowDown, locked |-> dev.locked \cup lock, group |-> dev.group]
    <3>1. mods \cap {} = {} /\ dev.locked \cup {} = dev.locked
      OBVIOUS
    <3>2. d = [dev EXCEPT !.down = [x \in D \cup {k} |->
                              IF x = k THEN [set |-> mods, unlock |->
                                 IF XkbKeyActionPtr(map[k], st).type = "LockMods"
                                 THEN mods \cap dev.locked ELSE {}]
                              ELSE dev.down[x]],
                         !.locked = IF XkbKeyActionPtr(map[k], st).type = "LockMods"
                                    THEN dev.locked \cup mods ELSE dev.locked]
      BY <1>4 DEF ProcessKey, PressMods
    <3>3. dev.locked \cup lock = IF XkbKeyActionPtr(map[k], st).type = "LockMods"
                                 THEN dev.locked \cup mods ELSE dev.locked
      BY DEF LockOf
    <3>4. new = [set |-> mods, unlock |-> IF XkbKeyActionPtr(map[k], st).type = "LockMods"
                                          THEN mods \cap dev.locked ELSE {}]
      OBVIOUS
    <3> HIDE DEF new, mods, lock
    <3> QED BY <3>2, <3>3, <3>4, <1>2
  <2>2. new \in Effects /\ new.set = mods /\ new.unlock \subseteq lock
    <3>1. new.unlock \subseteq lock
      BY DEF LockOf
    <3> QED BY <1>3, <3>1 DEF Effects
  <2> HIDE DEF new, mods, lock, st
  <2>3. nowDown \in [D \cup {k} -> Effects] /\ D \cup {k} \in SUBSET Keycodes
    BY <1>1, <1>2, <2>2
  <2> HIDE DEF d
  <2>4. d.down = nowDown /\ d.locked = dev.locked \cup lock /\ d.group = dev.group
    BY <2>1
  <2>5. DOMAIN d.down = D \cup {k} /\ d.down[k] = new /\ \A x \in D : d.down[x] = dev.down[x]
    BY <1>4, <2>4
  <2>6. d \in Keyboards
    BY <2>1, <2>3, <1>2, <1>3 DEF Keyboards
  <2> QED BY <1>4, <2>2, <2>4, <2>5, <2>6 DEF mods, lock, Processed
<1>5. CASE ~e.press /\ k \in D
  <2> DEFINE nowDown == [x \in D \ {k} |-> dev.down[x]]
  <2>1. d = [dev EXCEPT !.down = nowDown, !.locked = dev.locked \ dev.down[k].unlock]
    BY <1>5 DEF ProcessKey
  <2>2. d = [down |-> nowDown, locked |-> dev.locked \ dev.down[k].unlock, group |-> dev.group]
    BY <2>1, <1>2
  <2>3. nowDown \in [D \ {k} -> Effects] /\ D \ {k} \in SUBSET Keycodes
    BY <1>1, <1>2
  <2> HIDE DEF d
  <2>4. d \in Keyboards
    BY <2>2, <2>3, <1>2 DEF Keyboards
  <2> HIDE DEF st
  <2> QED BY <1>5, <2>2, <2>4 DEF Processed
<1>6. CASE e.press <=> k \in D
  <2>1. d = dev
    BY <1>1, <1>6 DEF ProcessKey
  <2> HIDE DEF d, st
  <2> QED BY <1>1, <1>2, <1>6, <2>1 DEF Processed
<1> QED BY <1>1, <1>4, <1>5, <1>6

LEMMA ProcessType ==
  ASSUME NEW map, MapOK(map), NEW dev \in Keyboards, NEW e \in Events
  PROVE  ProcessKey(map, dev, e) \in Keyboards /\ ProcessKey(map, dev, e).group = dev.group
<1>1. Processed(map, dev, e, ProcessKey(map, dev, e), lorieGetKeyboardState(dev))
  BY ProcessIs
<1> QED BY <1>1 DEF Processed

\* A sequence of events leads from a device to a device.
LEMMA RunType ==
  ASSUME NEW map, MapOK(map), NEW dev \in Keyboards, NEW q \in Seq(Events)
  PROVE  /\ mieqProcessInputEvents(map, dev, q) \in Keyboards
         /\ mieqProcessInputEvents(map, dev, q).group = dev.group
<1> DEFINE S == {d \in Keyboards : d.group = dev.group}
<1>1. ASSUME NEW d \in S, NEW e \in Events PROVE ProcessKey(map, d, e) \in S
  <2>1. d \in Keyboards
    OBVIOUS
  <2>2. ProcessKey(map, d, e) \in Keyboards /\ ProcessKey(map, d, e).group = d.group
    BY <2>1, ProcessType
  <2> QED BY <2>2
<1>2. dev \in S
  OBVIOUS
<1> HIDE DEF S
<1>3. mieqProcessInputEvents(map, dev, q) \in S
  BY <1>1, <1>2, RunsIn
<1> QED BY <1>3 DEF S

\* The events of a set of keys are about all of them and no other.
LEMMA EventsAre ==
  ASSUME NEW keys \in SUBSET Keycodes, NEW press \in BOOLEAN
  PROVE  /\ EventOfEach(keys, press) \in Seq(Events)
         /\ DOMAIN EventOfEach(keys, press) = 1..Len(EventOfEach(keys, press))
         /\ \A i \in 1..Len(EventOfEach(keys, press)) :
              EventOfEach(keys, press)[i].key \in keys /\ EventOfEach(keys, press)[i].press = press
         /\ \A k \in keys : \E i \in 1..Len(EventOfEach(keys, press)) : EventOfEach(keys, press)[i].key = k
<1>1. IsFiniteSet(keys) /\ keys \in SUBSET Nat
  <2>1. IsFiniteSet(Keycodes)
    BY KeycodesFinite
  <2>2. IsFiniteSet(keys)
    BY <2>1, FS_Subset
  <2> QED BY <2>2, KeycodesAre
<1> DEFINE n == Cardinality(keys)
<1>2. n \in Nat /\ (\A i \in 1..n : Nth(keys, i) \in keys) /\ \A k \in keys : \E i \in 1..n : Nth(keys, i) = k
  BY <1>1, NthIs
<1> DEFINE q == [i \in 1..n |-> [key |-> Nth(keys, i), press |-> press]]
<1>3. EventOfEach(keys, press) = q
  BY DEF EventOfEach
<1> HIDE DEF n
<1>4. q \in Seq(Events) /\ Len(q) = n
  BY <1>2 DEF Events
<1> QED BY <1>2, <1>3, <1>4

LEMMA UndoIs ==
  ASSUME NEW q \in Seq(Events)
  PROVE  /\ Undo(q) \in Seq(Events) /\ Len(Undo(q)) = Len(q)
         /\ \A i \in 1..Len(q) : Undo(q)[i].key = q[i].key /\ Undo(q)[i].press = ~q[i].press
<1>1. Len(q) \in Nat /\ DOMAIN q = 1..Len(q) /\ \A i \in 1..Len(q) : q[i] \in Events
  OBVIOUS
<1>2. \A i \in 1..Len(q) : [q[i] EXCEPT !.press = ~@] = [key |-> q[i].key, press |-> ~q[i].press]
  BY <1>1 DEF Events
<1>3. Undo(q) = [i \in 1..Len(q) |-> [key |-> q[i].key, press |-> ~q[i].press]]
  BY <1>1, <1>2 DEF Undo
<1>4. \A i \in 1..Len(q) : [key |-> q[i].key, press |-> ~q[i].press] \in Events
  BY <1>1 DEF Events
<1> DEFINE u == [i \in 1..Len(q) |-> [key |-> q[i].key, press |-> ~q[i].press]]
<1>5. u \in Seq(Events) /\ Len(u) = Len(q)
  BY <1>1, <1>4
<1> QED BY <1>3, <1>5

-----------------------------------------------------------------------------
(***************************************************************************)
(* Finding a keycode.                                                      *)
(***************************************************************************)
LEMMA FirstKeyIs ==
  ASSUME NEW keys \in SUBSET Keycodes
  PROVE  /\ RealKeysFirst(keys) \in keys \cup {NoKey}
         /\ RealKeysFirst(keys) = NoKey <=> keys = {}
<1>1. keys \in SUBSET Nat /\ keys \ FakeKeys \in SUBSET Nat /\ NoKey \notin keys
  BY KeycodesAre
<1>2. keys # {} => Min(keys) \in keys
  BY <1>1, MinIs
<1>3. keys \ FakeKeys # {} => Min(keys \ FakeKeys) \in keys
  <2>1. keys \ FakeKeys # {} => Min(keys \ FakeKeys) \in keys \ FakeKeys
    BY <1>1, MinIs
  <2> QED BY <2>1
<1> QED BY <1>1, <1>2, <1>3 DEF RealKeysFirst

LEMMA KeyInStateIs ==
  ASSUME NEW map, NEW sym, NEW st
  PROVE  /\ KeyInState(map, sym, st) \in Keycodes \cup {NoKey}
         /\ KeyInState(map, sym, st) # NoKey =>
              sym # NoSymbol /\ SymbolSeen(map[KeyInState(map, sym, st)], st) = sym
         /\ \A k \in Keycodes : sym # NoSymbol /\ SymbolSeen(map[k], st) = sym =>
              KeyInState(map, sym, st) # NoKey
<1> DEFINE keys == {k \in Keycodes : sym # NoSymbol /\ SymbolSeen(map[k], st) = sym}
<1>1. KeyInState(map, sym, st) = RealKeysFirst(keys)
  BY DEF KeyInState
<1>2. RealKeysFirst(keys) \in keys \cup {NoKey} /\ (RealKeysFirst(keys) = NoKey <=> keys = {})
  BY FirstKeyIs
<1> QED BY <1>1, <1>2

LEMMA FirstFoundIs ==
  ASSUME NEW n \in Nat, NEW found, DOMAIN found = 1..n, NEW default
  PROVE  \/ FirstFound(found, default) = default /\ \A i \in 1..n : found[i].key = NoKey
         \/ \E i \in 1..n : FirstFound(found, default) = found[i] /\ found[i].key # NoKey
<1> DEFINE hits == {i \in DOMAIN found : found[i].key # NoKey}
<1>1. CASE hits = {}
  BY <1>1 DEF FirstFound
<1>2. CASE hits # {}
  <2>1. hits \in SUBSET Nat
    OBVIOUS
  <2>2. Min(hits) \in hits
    BY <1>2, <2>1, MinIs
  <2> QED BY <1>2, <2>2 DEF FirstFound
<1> QED BY <1>1, <1>2

\* The modifiers tried.
TrySet(mods, l3) ==
  {mods, Toggled(mods, {"Shift"})} \cup
  (IF l3 = {} THEN {} ELSE {Toggled(mods, l3), Toggled(Toggled(mods, {"Shift"}), l3)})

LEMMA TriesAre ==
  ASSUME NEW mods \in SUBSET Modifiers, NEW l3 \in SUBSET Modifiers
  PROVE  \E n \in Nat : /\ DOMAIN Tries(mods, l3) = 1..n
                        /\ {Tries(mods, l3)[i] : i \in 1..n} = TrySet(mods, l3)
                        /\ TrySet(mods, l3) \subseteq SUBSET Modifiers
<1> DEFINE a == Toggled(mods, {"Shift"})
           b == Toggled(mods, l3)
           c == Toggled(a, l3)
<1>1. a \in SUBSET Modifiers /\ b \in SUBSET Modifiers /\ c \in SUBSET Modifiers
  BY DEF Toggled, Modifiers
<1> HIDE DEF a, b, c
<1>2. CASE l3 = {}
  <2>1. Tries(mods, l3) = <<mods, a>>
    BY <1>2 DEF Tries, a
  <2>2. DOMAIN <<mods, a>> = 1..2 /\ {<<mods, a>>[i] : i \in 1..2} = {mods, a}
    OBVIOUS
  <2> QED BY <1>1, <1>2, <2>1, <2>2 DEF TrySet, a
<1>3. CASE l3 # {}
  <2>1. Tries(mods, l3) = <<mods, a, b, c>>
    BY <1>3 DEF Tries, a, b, c
  <2>2. DOMAIN <<mods, a, b, c>> = 1..4 /\ {<<mods, a, b, c>>[i] : i \in 1..4} = {mods, a, b, c}
    OBVIOUS
  <2>3. TrySet(mods, l3) = {mods, a, b, c}
    BY <1>3 DEF TrySet, a, b, c
  <2> QED BY <1>1, <2>1, <2>2, <2>3
<1> QED BY <1>2, <1>3

\* The state with other modifiers.
With(st, mods) == [mods |-> mods, group |-> st.group]

LEMMA WithIs ==
  ASSUME NEW st \in KeyStates, NEW mods
  PROVE  /\ [st EXCEPT !.mods = mods] = With(st, mods)
         /\ mods \in SUBSET Modifiers => With(st, mods) \in KeyStates
         /\ With(st, mods).mods = mods /\ With(st, mods).group = st.group
         /\ With(st, st.mods) = st /\ NoMods(st) = With(st, {})
BY DEF KeyStates, With, NoMods

\* The level-three mask is one of modifiers.
LEMMA MaskIs ==
  ASSUME NEW map, MapOK(map), NEW st \in KeyStates
  PROVE  /\ LevelThreeKey(map, st) \in Keycodes \cup {NoKey}
         /\ lorieGetLevelThreeMask(map, st) \in SUBSET Modifiers
<1>1. ASSUME NEW s PROVE LevelThreeKey(map, s) \in Keycodes \cup {NoKey}
  <2> DEFINE f == <<[key |-> KeyInState(map, "ISO_Level3_Shift", s)],
                    [key |-> KeyInState(map, "Mode_switch", s)]>>
  <2>1. DOMAIN f = 1..2 /\ \A i \in 1..2 : f[i].key \in Keycodes \cup {NoKey}
    <3>1. KeyInState(map, "ISO_Level3_Shift", s) \in Keycodes \cup {NoKey}
      BY KeyInStateIs
    <3>2. KeyInState(map, "Mode_switch", s) \in Keycodes \cup {NoKey}
      BY KeyInStateIs
    <3> QED BY <3>1, <3>2
  <2>2. LevelThreeKey(map, s) = FirstFound(f, [key |-> NoKey]).key
    BY DEF LevelThreeKey
  <2> HIDE DEF f
  <2>3. \/ FirstFound(f, [key |-> NoKey]) = [key |-> NoKey]
        \/ \E i \in 1..2 : FirstFound(f, [key |-> NoKey]) = f[i]
    <3>1. 2 \in Nat
      OBVIOUS
    <3> QED BY <3>1, <2>1, FirstFoundIs
  <2> QED BY <2>1, <2>2, <2>3
<1>2. lorieGetLevelThreeMask(map, st) \in SUBSET Modifiers
  <2> DEFINE s == NoMods(st)
             k == LevelThreeKey(map, s)
  <2>1. s \in KeyStates
    BY DEF NoMods, KeyStates
  <2>2. k \in Keycodes \cup {NoKey}
    BY <1>1
  <2>3. k \in Keycodes => ActMods(XkbKeyActionPtr(map[k], s), map[k]) \in SUBSET Modifiers
    <3> HIDE DEF s, k
    <3>1. ASSUME k \in Keycodes PROVE KeyOK(map[k])
      BY <3>1 DEF MapOK
    <3> QED BY <2>1, <3>1, ActionIs
  <2>4. lorieGetLevelThreeMask(map, st) = ModsOf(map, k, s)
    BY DEF lorieGetLevelThreeMask
  <2> HIDE DEF s, k
  <2> QED BY <2>2, <2>3, <2>4 DEF ModsOf
<1> QED BY <1>1, <1>2

\* What lorieKeysymToKeycode finds is found with one of the modifiers tried.
LEMMA KeycodeIs ==
  ASSUME NEW map, MapOK(map), NEW sym, NEW st \in KeyStates,
         NEW r, r = lorieKeysymToKeycode(map, sym, st),
         NEW tries, tries = TrySet(st.mods, lorieGetLevelThreeMask(map, st))
  PROVE  \/ /\ r = [key |-> NoKey, mods |-> st.mods]
            /\ \A m \in tries : KeyInState(map, sym, With(st, m)) = NoKey
         \/ /\ r.key # NoKey /\ r.mods \in tries /\ r.key = KeyInState(map, sym, With(st, r.mods))
            /\ r = [key |-> r.key, mods |-> r.mods]
<1> DEFINE l3 == lorieGetLevelThreeMask(map, st)
           t == Tries(st.mods, l3)
           f == KeysFor(map, sym, st, t)
           none == [key |-> NoKey, mods |-> st.mods]
<1>1. l3 \in SUBSET Modifiers /\ st.mods \in SUBSET Modifiers
  BY MaskIs DEF KeyStates
<1>2. PICK n \in Nat : DOMAIN t = 1..n /\ {t[i] : i \in 1..n} = tries
  BY <1>1, TriesAre
<1>3. DOMAIN f = 1..n /\ \A i \in 1..n : f[i] = [key |-> KeyInState(map, sym, With(st, t[i])), mods |-> t[i]]
  BY <1>2, WithIs DEF KeysFor
<1>4. r = FirstFound(f, none)
  BY DEF lorieKeysymToKeycode
<1> HIDE DEF f, t, none
<1>5. CASE r = none /\ \A i \in 1..n : f[i].key = NoKey
  <2>1. ASSUME NEW m \in tries PROVE KeyInState(map, sym, With(st, m)) = NoKey
    <3>1. PICK i \in 1..n : m = t[i]
      BY <1>2
    <3> QED BY <1>3, <1>5, <3>1
  <2> QED BY <1>5, <2>1 DEF none
<1>6. CASE \E i \in 1..n : r = f[i] /\ f[i].key # NoKey
  <2>1. PICK i \in 1..n : r = f[i] /\ f[i].key # NoKey
    BY <1>6
  <2>2. t[i] \in tries
    BY <1>2
  <2>3. r = [key |-> KeyInState(map, sym, With(st, t[i])), mods |-> t[i]]
    BY <1>3, <2>1
  <2> QED BY <2>1, <2>2, <2>3
<1> QED BY <1>3, <1>4, <1>5, <1>6, FirstFoundIs

-----------------------------------------------------------------------------
(***************************************************************************)
(* Adding a symbol.                                                        *)
(***************************************************************************)
Entries == [keycode : Spare, keysym : {s \in Symbols : Lower[s] = s}]

\* Only spare keys differ from the first keymap.
KeymapInv(map) ==
  /\ MapOK(map)
  /\ \A k \in Keycodes \ Spare : map[k] = Keymap[k]
  /\ \A k \in Spare :
       map[k].groups \in {<<>>, OtherKey.groups} \cup {<<AddedGroup(sym)>> : sym \in Characters}

\* The entry m is the last that can be used.
LastUsable(map, list, m) ==
  /\ m \in DOMAIN list /\ Unmodified(map, list[m])
  /\ \A i \in DOMAIN list : i > m => ~Unmodified(map, list[i])

\* The symbol was put on key k: rest are the entries that stay in the list.
IsAdded(map, list, sym, a, k, rest) ==
  /\ k \in Spare
  /\ a.map[k].groups = <<AddedGroup(sym)>> /\ a.map[k].name = "T"
  /\ \A j \in Keycodes \ {k} : a.map[j] = map[j]
  /\ a.list = <<[keycode |-> k, keysym |-> Lower[sym]]>> \o rest
  /\ \/ map[k].groups = <<>> /\ rest = list
     \/ /\ \A j \in Keycodes : map[j].groups # <<>>
        /\ \E m \in DOMAIN list :
             LastUsable(map, list, m) /\ k = list[m].keycode /\ rest = SubSeq(list, 1, m - 1)

NotAdded(map, list, a) ==
  /\ a.map = map /\ a.list = <<>>
  /\ \A j \in Keycodes : map[j].groups # <<>>
  /\ \A i \in DOMAIN list : ~Unmodified(map, list[i])

LEMMA CharactersAre ==
  ASSUME NEW sym \in Characters
  PROVE  /\ sym \in Symbols /\ Lower[sym] \in Symbols /\ Upper[sym] \in Symbols
         /\ Lower[Lower[sym]] = Lower[sym]
         /\ Alternatives[sym] \in Seq(Symbols)
         /\ CaseForms(sym) \cap LevelThreeSymbols = {} /\ sym # NoSymbol
<1>1. sym \in Symbols /\ CaseForms(sym) \cap LevelThreeSymbols = {}
  BY KeysymAssumption
<1>2. /\ \A s \in Symbols : Lower[s] \in Symbols /\ Upper[s] \in Symbols /\ Lower[Lower[s]] = Lower[s]
      /\ NoSymbol \notin Symbols
  BY KeysymAssumption
<1>3. \A s \in Symbols : Alternatives[s] \in Seq(Symbols)
  BY KeysymAssumption
<1> QED BY <1>1, <1>2, <1>3

LEMMA AddedGroupIs ==
  ASSUME NEW sym \in Characters
  PROVE  /\ AddedGroup(sym) \in Groups /\ HasLevels(AddedGroup(sym))
         /\ AddedGroup(sym).acts = <<>>
         /\ AddedGroup(sym).syms[1] = Lower[sym] /\ AddedGroup(sym).syms[2] = Upper[sym]
<1>1. "ALPHABETIC" \in DOMAIN KeyTypes /\ LevelsOf("ALPHABETIC") \subseteq 1..2
  BY KeysymAssumption
<1>2. <<Lower[sym], Upper[sym]>> \in Seq(Symbols \cup {NoSymbol}) /\ DOMAIN <<Lower[sym], Upper[sym]>> = 1..2
  BY CharactersAre
<1>3. <<>> \in Seq(Actions)
  OBVIOUS
<1> QED BY <1>1, <1>2, <1>3 DEF AddedGroup, Groups, HasLevels

LEMMA ReuseIs ==
  ASSUME NEW map, NEW list \in Seq(Entries), NEW r, r = getReusableKeycode(map, list)
  PROVE  \/ /\ r = [key |-> NoKey, list |-> <<>>]
            /\ \A i \in DOMAIN list : ~Unmodified(map, list[i])
         \/ \E m \in DOMAIN list : /\ LastUsable(map, list, m)
                                   /\ r = [key |-> list[m].keycode, list |-> SubSeq(list, 1, m - 1)]
<1> DEFINE usable == {i \in DOMAIN list : Unmodified(map, list[i])}
           n == Len(list)
<1>1. n \in Nat /\ DOMAIN list = 1..n
  OBVIOUS
<1>2. CASE usable = {}
  BY <1>2 DEF getReusableKeycode
<1>3. CASE usable # {}
  <2>1. usable \in SUBSET (0..n)
    BY <1>1
  <2>2. Max(usable) \in usable /\ Max(usable) \in 0..n /\ \A y \in usable : Max(usable) >= y
    BY <1>1, <1>3, <2>1, MaxIs
  <2>3. r = [key |-> list[Max(usable)].keycode, list |-> SubSeq(list, 1, Max(usable) - 1)]
    BY <1>3 DEF getReusableKeycode
  <2>4. LastUsable(map, list, Max(usable))
    <3> DEFINE m == Max(usable)
    <3>0. m \in usable /\ m \in 0..n /\ \A y \in usable : m >= y
      BY <2>2
    <3> HIDE DEF m
    <3>1. ASSUME NEW i \in DOMAIN list, i > m, i \in usable PROVE FALSE
      <4>1. i \in Nat /\ m \in Nat /\ m >= i
        BY <1>1, <3>0, <3>1
      <4> QED BY <3>1, <4>1
    <3>2. LastUsable(map, list, m)
      BY <3>0, <3>1 DEF LastUsable
    <3> QED BY <3>2 DEF m
  <2> QED BY <2>2, <2>3, <2>4
<1> QED BY <1>2, <1>3

\* lorieAddKeysym puts the symbol on one key, or finds none.
LEMMA AddIs ==
  ASSUME NEW map, KeymapInv(map), NEW list \in Seq(Entries), NEW sym \in Characters,
         NEW a, a = lorieAddKeysym(map, list, sym)
  PROVE  /\ KeymapInv(a.map) /\ a.list \in Seq(Entries)
         /\ NotAdded(map, list, a) \/ \E k \in Spare : \E rest \in Seq(Entries) : IsAdded(map, list, sym, a, k, rest)
<1> DEFINE free == {k \in Keycodes : map[k].groups = <<>>}
           at == SpareKey(map, list, free)
<1>1. a = Add(map, sym, at)
  BY DEF lorieAddKeysym
<1>2. ASSUME NEW k \in Keycodes, map[k].groups = <<>> PROVE k \in Spare
  <2>1. k \notin Spare => map[k] = Keymap[k]
    BY DEF KeymapInv
  <2> QED BY <1>2, <2>1 DEF Spare
<1>3. \/ at.key = NoKey /\ at.list = <<>> /\ free = {} /\ \A i \in DOMAIN list : ~Unmodified(map, list[i])
      \/ /\ at.key \in Spare /\ at.list \in Seq(Entries)
         /\ \/ map[at.key].groups = <<>> /\ at.list = list
            \/ /\ free = {}
               /\ \E m \in DOMAIN list : /\ LastUsable(map, list, m) /\ at.key = list[m].keycode
                                         /\ at.list = SubSeq(list, 1, m - 1)
  <2>1. CASE free # {}
    <3>1. free \in SUBSET (0..255)
      BY KeycodesAre
    <3>2. Max(free) \in free
      <4> HIDE DEF free
      <4>1. 255 \in Nat
        OBVIOUS
      <4> QED BY <2>1, <3>1, <4>1, MaxIs
    <3> DEFINE top == Max(free)
    <3>3. at = [key |-> top, list |-> list]
      BY <2>1 DEF SpareKey
    <3>4. top \in Keycodes /\ map[top].groups = <<>>
      BY <3>2
    <3> HIDE DEF at, free, top
    <3>5. at.key = top /\ at.list = list
      BY <3>3
    <3>6. top \in Spare
      BY <1>2, <3>4
    <3> QED BY <3>4, <3>5, <3>6
  <2>2. CASE free = {}
    <3>1. at = getReusableKeycode(map, list)
      BY <2>2 DEF SpareKey
    <3> HIDE DEF free, at
    <3>2. CASE at = [key |-> NoKey, list |-> <<>>] /\ \A i \in DOMAIN list : ~Unmodified(map, list[i])
      BY <2>2, <3>2
    <3>3. CASE \E m \in DOMAIN list : /\ LastUsable(map, list, m)
                                      /\ at = [key |-> list[m].keycode, list |-> SubSeq(list, 1, m - 1)]
      <4>1. PICK m \in DOMAIN list : /\ LastUsable(map, list, m)
                                     /\ at = [key |-> list[m].keycode, list |-> SubSeq(list, 1, m - 1)]
        BY <3>3
      <4>2. list[m] \in Entries /\ SubSeq(list, 1, m - 1) \in Seq(Entries)
        OBVIOUS
      <4>3. list[m].keycode \in Spare
        BY <4>2 DEF Entries
      <4> QED BY <2>2, <4>1, <4>2, <4>3
    <3> QED BY <3>1, <3>2, <3>3, ReuseIs
  <2> QED BY <2>1, <2>2
<1> DEFINE k == at.key
<1>4. CASE k = NoKey
  <2>1. NoKey \notin Spare
    BY KeycodesAre
  <2>2. at.list = <<>> /\ free = {} /\ \A i \in DOMAIN list : ~Unmodified(map, list[i])
    BY <1>3, <1>4, <2>1
  <2>3. a = [map |-> map, list |-> <<>>]
    BY <1>1, <1>4, <2>2 DEF Add
  <2>4. <<>> \in Seq(Entries)
    OBVIOUS
  <2>5. \A j \in Keycodes : map[j].groups # <<>>
    BY <2>2
  <2> HIDE DEF free, at
  <2> QED BY <2>2, <2>3, <2>4, <2>5 DEF NotAdded
<1>5. CASE k # NoKey
  <2>1. k \in Spare /\ k \in Keycodes /\ at.list \in Seq(Entries)
    BY <1>3, <1>5, KeycodesAre
  <2> DEFINE new == [map[k] EXCEPT !.groups = <<AddedGroup(sym)>>, !.name = "T"]
  <2>2. a.map = [map EXCEPT ![k] = new] /\ a.list = saveAddedKeysym(at.list, k, Lower[sym])
    BY <1>1, <1>5 DEF Add
  <2>3. map \in [Keycodes -> KeyDescs] /\ map[k] \in KeyDescs
    BY <2>1 DEF KeymapInv, MapOK
  <2>4. new.groups = <<AddedGroup(sym)>> /\ new.name = "T"
    BY <2>3 DEF KeyDescs
  <2>5. KeyOK(new)
    <3>1. <<AddedGroup(sym)>> \in Seq(Groups) /\ DOMAIN <<AddedGroup(sym)>> = {1} /\ HasLevels(AddedGroup(sym))
      BY AddedGroupIs
    <3>2. new \in KeyDescs
      BY <2>3, <3>1 DEF KeyDescs
    <3> HIDE DEF new
    <3> QED BY <2>4, <3>1, <3>2 DEF KeyOK
  <2> HIDE DEF new, at, free
  <2>6. a.map \in [Keycodes -> KeyDescs] /\ a.map[k] = new /\ \A j \in Keycodes \ {k} : a.map[j] = map[j]
    BY <2>1, <2>2, <2>3, <2>5 DEF KeyOK
  <2>7. KeymapInv(a.map)
    <3>1. MapOK(a.map)
      BY <2>5, <2>6 DEF MapOK, KeymapInv
    <3>2. \A j \in Keycodes \ Spare : a.map[j] = Keymap[j]
      BY <2>1, <2>6 DEF KeymapInv
    <3>3. \A j \in Spare :
            a.map[j].groups \in {<<>>, OtherKey.groups} \cup {<<AddedGroup(s)>> : s \in Characters}
      <4> SUFFICES ASSUME NEW j \in Spare
                   PROVE  a.map[j].groups \in {<<>>, OtherKey.groups} \cup {<<AddedGroup(s)>> : s \in Characters}
        OBVIOUS
      <4>1. CASE j = k
        BY <2>4, <2>6, <4>1
      <4>2. CASE j # k
        <5>1. a.map[j] = map[j]
          BY <2>6, <4>2, KeycodesAre
        <5> QED BY <5>1 DEF KeymapInv
      <4> QED BY <4>1, <4>2
    <3> QED BY <3>1, <3>2, <3>3 DEF KeymapInv
  <2>8. [keycode |-> k, keysym |-> Lower[sym]] \in Entries
    BY <2>1, CharactersAre DEF Entries
  <2>9. a.list = <<[keycode |-> k, keysym |-> Lower[sym]]>> \o at.list /\ a.list \in Seq(Entries)
    BY <2>1, <2>2, <2>8 DEF saveAddedKeysym
  <2>10. \/ map[k].groups = <<>> /\ at.list = list
         \/ /\ \A j \in Keycodes : map[j].groups # <<>>
            /\ \E m \in DOMAIN list : /\ LastUsable(map, list, m) /\ k = list[m].keycode
                                      /\ at.list = SubSeq(list, 1, m - 1)
    BY <1>3, <1>5 DEF free
  <2>11. IsAdded(map, list, sym, a, k, at.list)
    BY <2>1, <2>4, <2>6, <2>9, <2>10 DEF IsAdded
  <2> QED BY <2>1, <2>7, <2>9, <2>11
<1> QED BY <1>4, <1>5

-----------------------------------------------------------------------------
(***************************************************************************)
(* What is worked out before anything is faked.                            *)
(***************************************************************************)
\* A keycode for the symbol or one that means the same.
IsFor(map, sym, st, r) ==
  r.key # NoKey /\ \E s \in Meanings(sym) : r = lorieKeysymToKeycode(map, s, st)

NoneFor(map, sym, st) ==
  \A s \in Meanings(sym) : lorieKeysymToKeycode(map, s, st).key = NoKey

Added(map, list, sym, st, w) ==
  /\ NoneFor(map, sym, st)
  /\ w.found = lorieKeysymToKeycode(w.map, sym, st)
  /\ \/ NotAdded(map, list, w)
     \/ \E k \in Spare : \E rest \in Seq(Entries) : IsAdded(map, list, sym, w, k, rest)

\* What FindKey finds: the keymap and the list are those before, or a symbol is
\* added to them.
FoundFor(map, list, sym, st, w) ==
  /\ KeymapInv(w.map) /\ w.list \in Seq(Entries)
  /\ \/ w.map = map /\ w.list = list /\ IsFor(map, sym, st, w.found)
     \/ Added(map, list, sym, st, w)

LEMMA KeycodeType ==
  ASSUME NEW map, MapOK(map), NEW sym, NEW st \in KeyStates, NEW r, r = lorieKeysymToKeycode(map, sym, st)
  PROVE  r \in [key : Keycodes \cup {NoKey}, mods : SUBSET Modifiers]
<1> DEFINE l3 == lorieGetLevelThreeMask(map, st)
           tries == TrySet(st.mods, l3)
<1>1. l3 \in SUBSET Modifiers /\ st.mods \in SUBSET Modifiers
  BY MaskIs DEF KeyStates
<1>2. tries \subseteq SUBSET Modifiers
  BY <1>1, TriesAre
<1> HIDE DEF tries
<1>3. \/ r = [key |-> NoKey, mods |-> st.mods]
      \/ /\ r.mods \in tries /\ r.key = KeyInState(map, sym, With(st, r.mods))
         /\ r = [key |-> r.key, mods |-> r.mods]
  BY KeycodeIs DEF tries
<1>4. \A s : KeyInState(map, sym, s) \in Keycodes \cup {NoKey}
  BY KeyInStateIs
<1> QED BY <1>1, <1>2, <1>3, <1>4

LEMMA FindIs ==
  ASSUME NEW map, KeymapInv(map), NEW list \in Seq(Entries), NEW sym \in Characters,
         NEW st \in KeyStates, NEW w, w = FindKey(map, list, sym, st)
  PROVE  FoundFor(map, list, sym, st, w)
<1> DEFINE alts == Alternatives[sym]
           syms == <<sym>> \o alts
           f == KeysForEach(map, syms, st)
           none == [key |-> NoKey, mods |-> st.mods]
           found == FirstFound(f, none)
<1>1. w = AddIfMissing(map, list, sym, st, found)
  BY DEF FindKey
<1>2. alts \in Seq(Symbols) /\ sym \in Symbols
  BY CharactersAre
<1> DEFINE n == Len(alts) + 1
<1>3. n \in Nat /\ DOMAIN syms = 1..n /\ {syms[i] : i \in 1..n} = Meanings(sym)
  <2>1. Len(alts) \in Nat /\ DOMAIN alts = 1..Len(alts) /\ syms[1] = sym
        /\ DOMAIN syms = 1..n /\ \A i \in 1..Len(alts) : syms[i + 1] = alts[i]
    BY <1>2
  <2>2. \A i \in 1..n : i = 1 \/ (i - 1 \in 1..Len(alts) /\ syms[i] = alts[i - 1])
    <3> SUFFICES ASSUME NEW i \in 1..n, i # 1 PROVE i - 1 \in 1..Len(alts) /\ syms[i] = alts[i - 1]
      OBVIOUS
    <3>1. i - 1 \in 1..Len(alts) /\ (i - 1) + 1 = i
      BY <2>1
    <3> QED BY <2>1, <3>1
  <2>3. \A i \in 1..Len(alts) : i + 1 \in 1..n
    BY <2>1
  <2>4. 1 \in 1..n /\ n \in Nat
    BY <2>1
  <2> HIDE DEF n, syms, alts
  <2>5. Meanings(sym) = {sym} \cup {alts[i] : i \in 1..Len(alts)}
    BY <2>1 DEF Meanings, alts
  <2>6. ASSUME NEW i \in 1..n PROVE syms[i] \in Meanings(sym)
    BY <2>1, <2>2, <2>5
  <2>7. ASSUME NEW x \in Meanings(sym) PROVE \E i \in 1..n : syms[i] = x
    BY <2>1, <2>3, <2>4, <2>5
  <2> QED BY <2>1, <2>4, <2>6, <2>7
<1> HIDE DEF n, syms, alts
<1>4. DOMAIN f = 1..n /\ \A i \in 1..n : f[i] = lorieKeysymToKeycode(map, syms[i], st)
  BY <1>3 DEF KeysForEach
<1> HIDE DEF f
<1>5. \/ found = none /\ \A i \in 1..n : f[i].key = NoKey
      \/ \E i \in 1..n : found = f[i] /\ f[i].key # NoKey
  BY <1>3, <1>4, FirstFoundIs
<1> HIDE DEF found
<1>6. CASE found = none /\ \A i \in 1..n : f[i].key = NoKey
  <2>1. NoneFor(map, sym, st)
    <3> SUFFICES ASSUME NEW s \in Meanings(sym) PROVE lorieKeysymToKeycode(map, s, st).key = NoKey
      BY DEF NoneFor
    <3>1. PICK i \in 1..n : s = syms[i]
      BY <1>3
    <3> QED BY <1>4, <1>6, <3>1
  <2>2. found.key = NoKey
    BY <1>6 DEF none
  <2> DEFINE a == lorieAddKeysym(map, list, sym)
  <2>3. w = WithAdded(a, sym, st)
    BY <1>1, <2>2 DEF AddIfMissing
  <2>4. /\ KeymapInv(a.map) /\ a.list \in Seq(Entries)
        /\ NotAdded(map, list, a) \/ \E k \in Spare : \E rest \in Seq(Entries) : IsAdded(map, list, sym, a, k, rest)
    BY AddIs
  <2> HIDE DEF a
  <2>5. w.map = a.map /\ w.list = a.list /\ w.found = lorieKeysymToKeycode(a.map, sym, st)
    BY <2>3 DEF WithAdded
  <2>6. NotAdded(map, list, a) => NotAdded(map, list, w)
    BY <2>5 DEF NotAdded
  <2>7. \A k, rest : IsAdded(map, list, sym, a, k, rest) => IsAdded(map, list, sym, w, k, rest)
    BY <2>5 DEF IsAdded
  <2>8. Added(map, list, sym, st, w)
    BY <2>1, <2>4, <2>5, <2>6, <2>7 DEF Added
  <2> QED BY <2>4, <2>5, <2>8 DEF FoundFor
<1>7. CASE \E i \in 1..n : found = f[i] /\ f[i].key # NoKey
  <2>1. PICK i \in 1..n : found = f[i] /\ f[i].key # NoKey
    BY <1>7
  <2>2. w = [map |-> map, list |-> list, found |-> found]
    BY <1>1, <2>1 DEF AddIfMissing
  <2>3. syms[i] \in Meanings(sym) /\ found = lorieKeysymToKeycode(map, syms[i], st)
    BY <1>3, <1>4, <2>1
  <2>4. IsFor(map, sym, st, found)
    BY <2>1, <2>3 DEF IsFor
  <2>5. w.map = map /\ w.list = list /\ w.found = found
    BY <2>2
  <2> QED BY <2>4, <2>5 DEF FoundFor
<1> QED BY <1>5, <1>6, <1>7

\* An equivalent symbol is only taken if there is a key for it.
LEMMA AvoidIs ==
  ASSUME NEW map, MapOK(map), NEW sym \in Characters, NEW st \in KeyStates, NEW found,
         NEW r, r = AvoidFakeShift(map, sym, st, found)
  PROVE  r = found \/ IsFor(map, sym, st, r)
<1> DEFINE alts == Alternatives[sym]
           each == [i \in DOMAIN alts |-> Unshifted(map, lorieKeysymToKeycode(map, alts[i], st), st)]
           n == Len(alts)
<1>1. alts \in Seq(Symbols)
  BY CharactersAre
<1>2. n \in Nat /\ DOMAIN alts = 1..n
  BY <1>1
<1>3. ASSUME NEW s
      PROVE  LET x == lorieKeysymToKeycode(map, s, st) IN
             Unshifted(map, x, st).key # NoKey => Unshifted(map, x, st) = x
  <2> DEFINE x == lorieKeysymToKeycode(map, s, st)
  <2>1. x \in [key : Keycodes \cup {NoKey}, mods : SUBSET Modifiers]
    BY KeycodeType
  <2> HIDE DEF x
  <2>2. [x EXCEPT !.key = NoKey].key = NoKey
    BY <2>1
  <2> QED BY <2>2 DEF Unshifted, x
<1>4. DOMAIN each = 1..n /\ \A i \in 1..n : each[i] = Unshifted(map, lorieKeysymToKeycode(map, alts[i], st), st)
  BY <1>2
<1> SUFFICES ASSUME r # found PROVE IsFor(map, sym, st, r)
  OBVIOUS
<1>5. r = FirstFound(each, found)
  BY DEF AvoidFakeShift
<1> HIDE DEF each, n, alts
<1>6. PICK i \in 1..n : r = each[i] /\ each[i].key # NoKey
  BY <1>2, <1>4, <1>5, FirstFoundIs
<1>7. r = lorieKeysymToKeycode(map, alts[i], st)
  BY <1>3, <1>4, <1>6
<1>8. alts[i] \in Meanings(sym)
  BY <1>2, <1>6 DEF Meanings, alts
<1> QED BY <1>6, <1>7, <1>8 DEF IsFor

\* What was planned for a symbol in the state st of a device.
PlanFor(map, list, sym, dev, st, p) ==
  /\ p.sym = sym /\ p.dev = dev
  /\ \E w, r :
       /\ FoundFor(map, list, sym, st, w)
       /\ r = w.found \/ IsFor(w.map, sym, st, r)
       /\ p.map = w.map /\ p.list = w.list /\ p.key = r.key
       /\ p.shift = FakeShift(w.map, dev, st, KeepShift(sym, st, r).mods)
       /\ p.level3 = FakeLevelThree(w.map, dev, st, KeepShift(sym, st, r).mods)

PlanTypes(p) ==
  /\ KeymapInv(p.map) /\ p.list \in Seq(Entries) /\ p.key \in Keycodes \cup {NoKey}
  /\ p.shift.events \in Seq(Events) /\ p.level3.events \in Seq(Events)

LEMMA PlanIs ==
  ASSUME NEW sym \in Characters, NEW dev, NEW st \in KeyStates, KeymapInv(xkb),
         addedKeysyms \in Seq(Entries), NEW p, p = Plan(sym, dev, st)
  PROVE  PlanFor(xkb, addedKeysyms, sym, dev, st, p)
<1> DEFINE w == FindKey(xkb, addedKeysyms, sym, st)
           r == AvoidFakeShift(w.map, sym, st, w.found)
           c == KeepShift(sym, st, r)
<1>1. FoundFor(xkb, addedKeysyms, sym, st, w)
  BY FindIs
<1>2. MapOK(w.map)
  BY <1>1 DEF FoundFor, KeymapInv
<1>3. r = w.found \/ IsFor(w.map, sym, st, r)
  BY <1>2, AvoidIs
<1>4. p = Planned(sym, dev, st, w, c)
  BY DEF Plan, Chosen
<1> HIDE DEF w
<1>5. c.key = r.key
  <2> HIDE DEF r
  <2> QED BY DEF KeepShift
<1> HIDE DEF r, c
<1>6. /\ p.sym = sym /\ p.dev = dev /\ p.map = w.map /\ p.list = w.list /\ p.key = r.key
      /\ p.shift = FakeShift(w.map, dev, st, c.mods) /\ p.level3 = FakeLevelThree(w.map, dev, st, c.mods)
  BY <1>4, <1>5 DEF Planned
<1>7. c = KeepShift(sym, st, r)
  BY DEF c
<1> QED BY <1>1, <1>3, <1>6, <1>7 DEF PlanFor

\* The keys that are pressed or released to fake a modifier.
LEMMA ShiftKeyIs ==
  ASSUME NEW map, NEW st
  PROVE  /\ loriePressShift(map, st) \in SUBSET Keycodes
         /\ \A k \in loriePressShift(map, st) : "Shift" \in ModsOf(map, k, st)
<1> DEFINE keys == {k \in Keycodes : "Shift" \in ModsOf(map, k, st)}
<1>1. keys \in SUBSET Nat
  BY KeycodesAre
<1>2. keys # {} => Min(keys) \in keys
  BY <1>1, MinIs
<1> QED BY <1>2 DEF loriePressShift

LEMMA FakeType ==
  ASSUME NEW mask, NEW st, NEW mods, NEW press \in SUBSET Keycodes, NEW release \in SUBSET Keycodes
  PROVE  Fake(mask, st, mods, press, release).events \in Seq(Events)
<1>1. \A keys \in SUBSET Keycodes : \A b \in BOOLEAN : EventOfEach(keys, b) \in Seq(Events)
  BY EventsAre
<1>2. Presses(press) \in Seq(Events) /\ Releases(release) \in Seq(Events)
  BY <1>1 DEF Presses, Releases
<1>3. <<>> \in Seq(Events)
  OBVIOUS
<1> QED BY <1>2, <1>3 DEF Fake

LEMMA FakesType ==
  ASSUME NEW map, MapOK(map), NEW dev \in Keyboards, NEW st \in KeyStates, NEW mods
  PROVE  /\ FakeShift(map, dev, st, mods).events \in Seq(Events)
         /\ FakeLevelThree(map, dev, st, mods).events \in Seq(Events)
<1>1. \A m : KeysHolding(map, dev, st, m) \in SUBSET Keycodes
  BY DevicesAre DEF KeysHolding
<1>2. loriePressShift(map, st) \in SUBSET Keycodes
  BY ShiftKeyIs
<1>3. loriePressLevelThree(map, st) \in SUBSET Keycodes
  BY MaskIs DEF loriePressLevelThree, IfSets
<1>4. FakeShift(map, dev, st, mods).events \in Seq(Events)
  BY <1>1, <1>2, FakeType DEF FakeShift, lorieReleaseShift
<1>5. FakeLevelThree(map, dev, st, mods).events \in Seq(Events)
  BY <1>1, <1>3, FakeType DEF FakeLevelThree, lorieReleaseLevelThree
<1> QED BY <1>4, <1>5

LEMMA PlanType ==
  ASSUME NEW map, NEW list, NEW sym \in Characters, NEW dev \in Keyboards, NEW st \in KeyStates,
         NEW p, PlanFor(map, list, sym, dev, st, p)
  PROVE  PlanTypes(p)
<1>1. PICK w, r : /\ FoundFor(map, list, sym, st, w)
                  /\ r = w.found \/ IsFor(w.map, sym, st, r)
                  /\ p.map = w.map /\ p.list = w.list /\ p.key = r.key
                  /\ p.shift = FakeShift(w.map, dev, st, KeepShift(sym, st, r).mods)
                  /\ p.level3 = FakeLevelThree(w.map, dev, st, KeepShift(sym, st, r).mods)
  BY DEF PlanFor
<1>2. KeymapInv(w.map) /\ w.list \in Seq(Entries) /\ MapOK(w.map)
  BY <1>1 DEF FoundFor, KeymapInv
<1>3. \E s : r = lorieKeysymToKeycode(w.map, s, st)
  <2>1. CASE r = w.found
    BY <1>1, <2>1 DEF FoundFor, IsFor, Added
  <2>2. CASE IsFor(w.map, sym, st, r)
    BY <2>2 DEF IsFor
  <2> QED BY <1>1, <2>1, <2>2
<1>4. r.key \in Keycodes \cup {NoKey}
  BY <1>2, <1>3, KeycodeType
<1>5. p.shift.events \in Seq(Events) /\ p.level3.events \in Seq(Events)
  BY <1>1, <1>2, FakesType
<1> QED BY <1>1, <1>2, <1>4, <1>5 DEF PlanTypes

-----------------------------------------------------------------------------
(***************************************************************************)
(* Types.                                                                  *)
(***************************************************************************)
Typed == [key : Keycodes \cup {NoKey}, sym : Characters, seen : Symbols \cup {NoSymbol},
          locked : SUBSET Modifiers, carries : Seq(Groups)]

KeyboardTypes ==
  /\ KeymapInv(xkb) /\ kbd \in Keyboards /\ addedKeysyms \in Seq(Entries)
  /\ pressedKeys \in [Keycodes -> Characters \cup {NoSymbol}]
  /\ kbdQueue \in Seq(Events) /\ typing \in Characters \cup {NoSymbol}

HistoryTypes ==
  /\ held \in SUBSET RawKeys /\ leftover \in SUBSET Keycodes
  /\ typed \in Seq(Typed) /\ Len(typed) <= Window
  /\ remapped \in BOOLEAN /\ keyInputs \in 0..MaxInputs

TypesInv == KeyboardTypes /\ HistoryTypes

LEMMA TypesInvImplies == TypesInv => KeysymTypeOK
<1> SUFFICES ASSUME TypesInv PROVE KeysymTypeOK
  OBVIOUS
<1> USE DEF TypesInv, KeyboardTypes, HistoryTypes
<1>1. DOMAIN xkb = Keycodes /\ \A k \in Keycodes \ Spare : xkb[k] = Keymap[k]
  BY DEF KeymapInv, MapOK
<1>2. \A k \in Spare :
        xkb[k].groups \in {<<>>, OtherKey.groups} \cup {<<AddedGroup(sym)>> : sym \in Characters}
  BY DEF KeymapInv
<1>3. /\ DOMAIN kbd.down \subseteq Keycodes /\ \A k \in DOMAIN kbd.down : kbd.down[k] \in Effects
      /\ kbd.locked \subseteq Modifiers /\ kbd.group \in GroupSet
  BY DevicesAre
<1>4. \A i \in DOMAIN addedKeysyms : addedKeysyms[i] \in Entries
  OBVIOUS
<1>5. \A i \in DOMAIN kbdQueue : kbdQueue[i] \in Events
  OBVIOUS
<1> QED BY <1>1, <1>2, <1>3, <1>4, <1>5 DEF KeysymTypeOK, Effects, Entries, Events

LEMMA WindowIs == Window \in Nat /\ IsFiniteSet(Spare) /\ Cardinality(Spare) = Window
<1>1. IsFiniteSet(Spare)
  BY KeycodesFinite, KeycodesAre, FS_Subset
<1> QED BY <1>1, FS_CardinalityType DEF Window

LEMMA KeymapIs == KeymapInv(Keymap)
<1>1. Keymap \in [Keycodes -> KeyDescs]
  BY KeysymAssumption
<1>2. \A k \in Keycodes : \A g \in DOMAIN Keymap[k].groups : HasLevels(Keymap[k].groups[g])
  BY KeysymAssumption
<1>3. MapOK(Keymap)
  BY <1>1, <1>2 DEF MapOK, KeyOK
<1>4. \A k \in Spare : Keymap[k].groups = <<>>
  BY DEF Spare
<1> QED BY <1>3, <1>4 DEF KeymapInv

\* Another client gives a spare key its symbol.
LEMMA OtherKeyIs ==
  ASSUME NEW map, KeymapInv(map), NEW k \in Spare
  PROVE  /\ KeymapInv([map EXCEPT ![k].groups = OtherKey.groups])
         /\ [map EXCEPT ![k].groups = OtherKey.groups][k].groups = OtherKey.groups
         /\ [map EXCEPT ![k].groups = OtherKey.groups][k].name = map[k].name
         /\ \A j \in Keycodes \ {k} : [map EXCEPT ![k].groups = OtherKey.groups][j] = map[j]
<1> DEFINE new == [map[k] EXCEPT !.groups = OtherKey.groups]
           m == [map EXCEPT ![k].groups = OtherKey.groups]
<1>1. map \in [Keycodes -> KeyDescs] /\ k \in Keycodes /\ map[k] \in KeyDescs
  BY KeycodesAre DEF KeymapInv, MapOK
<1>2. OtherKey \in KeyDescs /\ \A g \in DOMAIN OtherKey.groups : HasLevels(OtherKey.groups[g])
  BY KeysymAssumption
<1>3. m = [map EXCEPT ![k] = new]
  OBVIOUS
<1>4. new \in KeyDescs /\ new.groups = OtherKey.groups /\ new.name = map[k].name
  BY <1>1, <1>2 DEF KeyDescs
<1> HIDE DEF new, m
<1>5. KeyOK(new)
  BY <1>2, <1>4 DEF KeyOK
<1>6. m \in [Keycodes -> KeyDescs] /\ m[k] = new /\ \A j \in Keycodes \ {k} : m[j] = map[j]
  BY <1>1, <1>3, <1>4
<1>7. MapOK(m)
  BY <1>5, <1>6 DEF MapOK, KeymapInv
<1>8. \A j \in Keycodes \ Spare : m[j] = Keymap[j]
  BY <1>6 DEF KeymapInv
<1>9. \A j \in Spare : m[j].groups \in {<<>>, OtherKey.groups} \cup {<<AddedGroup(s)>> : s \in Characters}
  <2> SUFFICES ASSUME NEW j \in Spare
               PROVE  m[j].groups \in {<<>>, OtherKey.groups} \cup {<<AddedGroup(s)>> : s \in Characters}
    OBVIOUS
  <2>1. j # k => m[j] = map[j]
    BY <1>6, KeycodesAre
  <2> QED BY <1>4, <1>6, <2>1 DEF KeymapInv
<1>10. KeymapInv(m)
  BY <1>7, <1>8, <1>9 DEF KeymapInv
<1> QED BY <1>4, <1>6, <1>10 DEF m

\* The entry that was used is the first, those before it move by one.
MovedToFront(list, k, u) ==
  /\ u \in Seq(Entries)
  /\ \/ u = list /\ \A i \in DOMAIN list : list[i].keycode # k
     \/ \E m \in DOMAIN list :
          /\ list[m].keycode = k /\ Len(u) = Len(list) /\ u[1] = list[m]
          /\ \A i \in 1..(m - 1) : list[i].keycode # k /\ u[i + 1] = list[i]
          /\ \A i \in (m + 1)..Len(list) : u[i] = list[i]

LEMMA UsedIs ==
  ASSUME NEW list \in Seq(Entries), NEW k
  PROVE  MovedToFront(list, k, vncOnKeyUsed(list, k))
<1> DEFINE at == {i \in DOMAIN list : list[i].keycode = k}
           u  == vncOnKeyUsed(list, k)
<1>1. CASE at = {}
  <2>1. u = list
    BY <1>1 DEF vncOnKeyUsed
  <2> QED BY <1>1, <2>1 DEF MovedToFront
<1>2. CASE at # {}
  <2>1. at \in SUBSET Nat
    OBVIOUS
  <2> DEFINE m == Min(at)
             rest == RemoveAt(list, m)
  <2>2. m \in at /\ m \in Nat /\ \A i \in at : m <= i
    BY <1>2, <2>1, MinIs
  <2>3. u = <<list[m]>> \o rest
    BY <1>2 DEF vncOnKeyUsed
  <2>4. rest = SubSeq(list, 1, m - 1) \o SubSeq(list, m + 1, Len(list))
    BY DEF RemoveAt
  <2>5. m \in 1..Len(list) /\ Len(list) \in Nat /\ list[m].keycode = k /\ m \in DOMAIN list
    BY <2>2
  <2>6. \A i \in 1..(m - 1) : list[i].keycode # k
    <3> SUFFICES ASSUME NEW i \in 1..(m - 1), list[i].keycode = k PROVE FALSE
      OBVIOUS
    <3>1. i \in at /\ i \in Nat
      BY <2>5
    <3>2. m <= i
      BY <2>2, <3>1
    <3> QED BY <2>5, <3>1, <3>2
  <2> HIDE DEF m, rest, u, at
  <2>7. /\ rest \in Seq(Entries) /\ Len(rest) = Len(list) - 1
        /\ \A i \in 1..(m - 1) : rest[i] = list[i]
        /\ \A i \in m..(Len(list) - 1) : rest[i] = list[i + 1]
    <3> DEFINE a == SubSeq(list, 1, m - 1)
               b == SubSeq(list, m + 1, Len(list))
    <3>1. a \in Seq(Entries) /\ Len(a) = m - 1 /\ \A i \in 1..(m - 1) : a[i] = list[i]
      BY <2>5
    <3>2. b \in Seq(Entries) /\ Len(b) = Len(list) - m /\ \A i \in 1..(Len(list) - m) : b[i] = list[i + m]
      BY <2>5
    <3> HIDE DEF a, b
    <3>3. rest = a \o b
      BY <2>4 DEF a, b
    <3>4. rest \in Seq(Entries) /\ Len(rest) = Len(list) - 1
      BY <2>5, <3>1, <3>2, <3>3
    <3>5. ASSUME NEW i \in 1..(m - 1) PROVE rest[i] = list[i]
      BY <2>5, <3>1, <3>2, <3>3
    <3>6. ASSUME NEW i \in m..(Len(list) - 1) PROVE rest[i] = list[i + 1]
      <4>1. i - (m - 1) \in 1..(Len(list) - m) /\ (i - (m - 1)) + m = i + 1
        BY <2>5
      <4>2. i \in (Len(a) + 1)..(Len(a) + Len(b)) /\ i - Len(a) = i - (m - 1)
        BY <2>5, <3>1, <3>2
      <4>3. rest[i] = b[i - Len(a)]
        BY <3>1, <3>2, <3>3, <4>2
      <4> QED BY <3>2, <4>1, <4>2, <4>3
    <3> QED BY <3>4, <3>5, <3>6
  <2>8. list[m] \in Entries
    BY <2>5
  <2>9. u \in Seq(Entries) /\ Len(u) = Len(list) /\ u[1] = list[m]
    BY <2>3, <2>5, <2>7, <2>8
  <2>10. ASSUME NEW i \in 1..(m - 1) PROVE u[i + 1] = list[i]
    BY <2>3, <2>5, <2>7, <2>8
  <2>11. ASSUME NEW i \in (m + 1)..Len(list) PROVE u[i] = list[i]
    <3>1. i - 1 \in m..(Len(list) - 1) /\ (i - 1) + 1 = i
      BY <2>5
    <3>2. u[i] = rest[i - 1]
      BY <2>3, <2>5, <2>7, <2>8
    <3> QED BY <2>7, <3>1, <3>2
  <2> QED BY <2>5, <2>6, <2>9, <2>10, <2>11 DEF MovedToFront, u
<1> QED BY <1>1, <1>2

\* The last Window characters, t first.
Latest(t, old, new) ==
  /\ new \in Seq(Typed) /\ Len(new) <= Window
  /\ \A i \in DOMAIN new :
       \/ i = 1 /\ new[i] = t
       \/ i > 1 /\ i - 1 \in DOMAIN old /\ new[i] = old[i - 1]

LEMMA LatestIs ==
  ASSUME NEW t \in Typed, NEW old \in Seq(Typed)
  PROVE  Latest(t, old, SubSeq(<<t>> \o old, 1, Min({Window, Len(old) + 1})))
<1> DEFINE n == Min({Window, Len(old) + 1})
           all == <<t>> \o old
           new == SubSeq(all, 1, n)
<1>1. Window \in Nat /\ Len(old) \in Nat
  BY WindowIs
<1>2. {Window, Len(old) + 1} \in SUBSET Nat /\ {Window, Len(old) + 1} # {}
  BY <1>1
<1>3. n \in Nat /\ n <= Window /\ n <= Len(old) + 1
  BY <1>1, <1>2, MinIs
<1> HIDE DEF n
<1>4. /\ all \in Seq(Typed) /\ Len(all) = Len(old) + 1 /\ all[1] = t
      /\ \A i \in 2..(Len(old) + 1) : all[i] = old[i - 1]
  BY <1>1
<1> HIDE DEF all
<1>5. new \in Seq(Typed) /\ Len(new) = n /\ DOMAIN new = 1..n /\ \A i \in 1..n : new[i] = all[i]
  BY <1>1, <1>3, <1>4
<1> HIDE DEF new
<1>6. ASSUME NEW i \in DOMAIN new
      PROVE  (i = 1 /\ new[i] = t) \/ (i > 1 /\ i - 1 \in DOMAIN old /\ new[i] = old[i - 1])
  <2>1. i \in 1..n /\ new[i] = all[i]
    BY <1>5
  <2>2. CASE i = 1
    BY <1>4, <2>1, <2>2
  <2>3. CASE i # 1
    <3>1. i \in 2..(Len(old) + 1) /\ i - 1 \in DOMAIN old /\ i > 1
      BY <1>1, <1>3, <2>1, <2>3
    <3> QED BY <1>4, <2>1, <3>1
  <2> QED BY <2>2, <2>3
<1>7. Latest(t, old, new)
  BY <1>3, <1>5, <1>6 DEF Latest
<1> QED BY <1>7 DEF new, all, n

\* The master keyboard once the queue is processed.
UpToDate == mieqProcessInputEvents(xkb, kbd, kbdQueue)

LEMMA WantedIs ==
  ASSUME KeyboardTypes, NEW sym \in Characters, NEW w, w = Wanted(sym)
  PROVE  /\ UpToDate \in Keyboards /\ lorieGetKeyboardState(UpToDate) \in KeyStates
         /\ PlanFor(xkb, addedKeysyms, sym, UpToDate, lorieGetKeyboardState(UpToDate), w)
         /\ PlanTypes(w) /\ w.dev = UpToDate /\ w.sym = sym
<1> DEFINE dev == UpToDate
           st  == lorieGetKeyboardState(dev)
<1>1. KeymapInv(xkb) /\ MapOK(xkb) /\ addedKeysyms \in Seq(Entries) /\ kbd \in Keyboards /\ kbdQueue \in Seq(Events)
  BY DEF KeyboardTypes, KeymapInv
<1>2. dev \in Keyboards
  BY <1>1, RunType DEF UpToDate
<1>3. st \in KeyStates
  BY <1>2, StateIs
<1>4. w = Plan(sym, dev, st)
  BY DEF Wanted, UpToDate
<1> HIDE DEF dev, st
<1>5. PlanFor(xkb, addedKeysyms, sym, dev, st, w)
  BY <1>1, <1>3, <1>4, PlanIs
<1>6. PlanTypes(w)
  BY <1>2, <1>3, <1>5, PlanType
<1>7. w.dev = dev /\ w.sym = sym
  BY <1>5 DEF PlanFor
<1> QED BY <1>2, <1>3, <1>5, <1>6, <1>7 DEF dev, st

\* What the start of a character does to the history.
LEMMA TypeStartsTypes ==
  ASSUME HistoryTypes, NEW w, PlanTypes(w), w.sym \in Characters, w.dev \in Keyboards,
         NEW seen \in Symbols \cup {NoSymbol}, seen # NoSymbol => w.key # NoKey,
         TypeStarts(w, seen)
  PROVE  /\ typing' = w.sym /\ xkb' = w.map /\ held' = held /\ remapped' = remapped
         /\ \E carries \in Seq(Groups) :
              /\ seen # NoSymbol => carries = w.map[w.key].groups
              /\ Latest([key |-> w.key, sym |-> w.sym, seen |-> seen, locked |-> w.dev.locked, carries |-> carries],
                        typed, typed')
<1> DEFINE carries == IF seen = NoSymbol THEN <<>> ELSE w.map[w.key].groups
           t == [key |-> w.key, sym |-> w.sym, seen |-> seen, locked |-> w.dev.locked, carries |-> carries]
<1>1. typing' = w.sym /\ xkb' = w.map /\ held' = held /\ remapped' = remapped
  BY DEF TypeStarts
<1>2. typed' = SubSeq(<<t>> \o typed, 1, Min({Window, Len(typed) + 1}))
  BY DEF TypeStarts
<1>3. carries \in Seq(Groups)
  <2>1. CASE seen = NoSymbol
    BY <2>1
  <2>2. CASE seen # NoSymbol
    <3>1. w.key \in Keycodes
      BY <2>2 DEF PlanTypes
    <3>2. w.map[w.key] \in KeyDescs
      BY <3>1 DEF PlanTypes, KeymapInv, MapOK
    <3> QED BY <2>2, <3>2 DEF KeyDescs
  <2> QED BY <2>1, <2>2
<1>4. seen # NoSymbol => carries = w.map[w.key].groups
  OBVIOUS
<1> HIDE DEF carries
<1>5. t \in Typed
  <2>1. w.dev.locked \in SUBSET Modifiers
    BY DevicesAre
  <2> QED BY <1>3, <2>1 DEF Typed, PlanTypes
<1> HIDE DEF t
<1>6. Latest(t, typed, typed')
  BY <1>2, <1>5, LatestIs DEF HistoryTypes
<1> QED BY <1>1, <1>3, <1>4, <1>6 DEF t

LEMMA TypeSymbolTypes ==
  ASSUME TypesInv, NEW sym \in Characters, TypeSymbol(sym)
  PROVE  TypesInv'
<1>1. PICK w \in {Wanted(sym)} : TypeFails(w) \/ TypeStops(w) \/ TypePress(w)
  BY DEF TypeSymbol
<1>2. /\ UpToDate \in Keyboards /\ PlanTypes(w) /\ w.dev = UpToDate /\ w.sym = sym
  BY <1>1, WantedIs DEF TypesInv
<1>3. keyInputs' \in 0..MaxInputs
  BY KeysymAssumption DEF TypeSymbol, Input, TypesInv, HistoryTypes
<1>4. /\ KeymapInv(w.map) /\ w.list \in Seq(Entries) /\ w.key \in Keycodes \cup {NoKey}
      /\ w.shift.events \in Seq(Events) /\ w.level3.events \in Seq(Events) /\ MapOK(w.map)
  BY <1>2 DEF PlanTypes, KeymapInv
<1>5. ASSUME NEW seen \in Symbols \cup {NoSymbol}, seen # NoSymbol => w.key # NoKey, TypeStarts(w, seen)
      PROVE  /\ typing' = sym /\ xkb' = w.map /\ held' = held /\ remapped' = remapped
             /\ typed' \in Seq(Typed) /\ Len(typed') <= Window
  BY <1>2, <1>5, TypeStartsTypes DEF TypesInv, Latest
<1>6. <<>> \in Seq(Events)
  OBVIOUS
<1>7. CASE TypeFails(w)
  <2>1. /\ kbd' = UpToDate /\ kbdQueue' = <<>> /\ addedKeysyms' = w.list
        /\ pressedKeys' = pressedKeys /\ leftover' = leftover
    BY <1>2, <1>7 DEF TypeFails
  <2>2. /\ typing' = sym /\ xkb' = w.map /\ held' = held /\ remapped' = remapped
        /\ typed' \in Seq(Typed) /\ Len(typed') <= Window
    BY <1>5, <1>7 DEF TypeFails
  <2> QED BY <1>2, <1>3, <1>4, <1>6, <2>1, <2>2 DEF TypesInv, KeyboardTypes, HistoryTypes
<1>8. CASE TypeStops(w)
  <2>1. /\ kbd' = UpToDate /\ kbdQueue' = w.shift.events /\ addedKeysyms' = w.list
        /\ pressedKeys' = pressedKeys
        /\ leftover' = leftover \cup {e.key : e \in Range(w.shift.events)}
    BY <1>2, <1>8 DEF TypeStops
  <2>2. /\ typing' = sym /\ xkb' = w.map /\ held' = held /\ remapped' = remapped
        /\ typed' \in Seq(Typed) /\ Len(typed') <= Window
    BY <1>5, <1>8 DEF TypeStops
  <2>3. Range(w.shift.events) \subseteq Events
    BY <1>4 DEF Range
  <2>4. leftover' \in SUBSET Keycodes
    BY <2>1, <2>3 DEF Events, TypesInv, HistoryTypes
  <2> QED BY <1>2, <1>3, <1>4, <2>1, <2>2, <2>4 DEF TypesInv, KeyboardTypes, HistoryTypes
<1>9. CASE TypePress(w)
  <2>1. PICK faked \in {mieqProcessInputEvents(w.map, w.dev, w.shift.events \o w.level3.events)} :
          /\ kbd' = mieqProcessInputEvents(w.map, faked,
                      <<[key |-> w.key, press |-> TRUE]>> \o Undo(w.level3.events) \o Undo(w.shift.events))
          /\ TypeStarts(w, SymbolSeen(w.map[w.key], lorieGetKeyboardState(faked)))
    BY <1>9 DEF TypePress
  <2>2. w.key # NoKey /\ w.key \in Keycodes
    BY <1>4, <1>9 DEF TypePress
  <2>3. w.shift.events \o w.level3.events \in Seq(Events)
    BY <1>4
  <2>0. \A d \in Keyboards : \A q \in Seq(Events) : mieqProcessInputEvents(w.map, d, q) \in Keyboards
    BY <1>4, RunType
  <2>4. faked \in Keyboards
    BY <1>2, <2>0, <2>1, <2>3
  <2>5. lorieGetKeyboardState(faked) \in KeyStates /\ KeyOK(w.map[w.key])
    BY <1>4, <2>2, <2>4, StateIs DEF MapOK
  <2>6. SymbolSeen(w.map[w.key], lorieGetKeyboardState(faked)) \in Symbols \cup {NoSymbol}
    BY <2>5, TranslateIs
  <2>7. /\ typing' = sym /\ xkb' = w.map /\ held' = held /\ remapped' = remapped
        /\ typed' \in Seq(Typed) /\ Len(typed') <= Window
    BY <1>5, <2>1, <2>2, <2>6
  <2> DEFINE after == <<[key |-> w.key, press |-> TRUE]>> \o Undo(w.level3.events) \o Undo(w.shift.events)
  <2>8. after \in Seq(Events)
    <3>1. Undo(w.level3.events) \in Seq(Events) /\ Undo(w.shift.events) \in Seq(Events)
      BY <1>4, UndoIs
    <3>2. <<[key |-> w.key, press |-> TRUE]>> \in Seq(Events)
      BY <2>2 DEF Events
    <3> QED BY <3>1, <3>2
  <2> HIDE DEF after
  <2>9. kbd' \in Keyboards
    BY <2>0, <2>1, <2>4, <2>8 DEF after
  <2>10. kbdQueue' = <<>> /\ addedKeysyms' = vncOnKeyUsed(w.list, w.key) /\ leftover' = leftover
    BY <1>9 DEF TypePress
  <2>11. addedKeysyms' \in Seq(Entries)
    BY <1>4, <2>10, UsedIs DEF MovedToFront
  <2>12. pressedKeys' \in [Keycodes -> Characters \cup {NoSymbol}]
    BY <1>2, <1>9 DEF TypePress, TypesInv, KeyboardTypes
  <2> QED BY <1>3, <1>4, <1>6, <2>7, <2>9, <2>10, <2>11, <2>12 DEF TypesInv, KeyboardTypes, HistoryTypes
<1> QED BY <1>1, <1>7, <1>8, <1>9

LEMMA TypeReleaseTypes ==
  ASSUME TypesInv, TypeRelease
  PROVE  TypesInv'
<1> DEFINE keys == {k \in Keycodes : pressedKeys[k] = typing}
           up   == IF keys = {} THEN <<>> ELSE Releases({Min(keys)})
<1>1. keys # {} => Min(keys) \in Keycodes
  <2>1. keys \in SUBSET Nat
    BY KeycodesAre
  <2>2. keys # {} => Min(keys) \in keys
    BY <2>1, MinIs
  <2> QED BY <2>2
<1>2. up \in Seq(Events)
  <2>1. \A s \in SUBSET Keycodes : \A b \in BOOLEAN : EventOfEach(s, b) \in Seq(Events)
    BY EventsAre
  <2>2. keys # {} => Releases({Min(keys)}) \in Seq(Events)
    BY <1>1, <2>1 DEF Releases
  <2>3. <<>> \in Seq(Events)
    OBVIOUS
  <2> QED BY <2>2, <2>3
<1>3. MapOK(xkb) /\ kbd \in Keyboards /\ kbdQueue \in Seq(Events)
  BY DEF TypesInv, KeyboardTypes, KeymapInv
<1>4. /\ pressedKeys' = [k \in Keycodes |-> IF keys # {} /\ k = Min(keys) THEN NoSymbol ELSE pressedKeys[k]]
      /\ kbd' = IF keys = {} THEN kbd ELSE mieqProcessInputEvents(xkb, kbd, kbdQueue \o up)
      /\ kbdQueue' = IF keys = {} THEN kbdQueue ELSE <<>>
      /\ typing' = NoSymbol
      /\ UNCHANGED <<xkb, addedKeysyms, held, leftover, typed, remapped, keyInputs>>
  BY DEF TypeRelease
<1> HIDE DEF keys, up
<1>5. kbdQueue \o up \in Seq(Events)
  BY <1>2, <1>3
<1>6. mieqProcessInputEvents(xkb, kbd, kbdQueue \o up) \in Keyboards
  BY <1>3, <1>5, RunType
<1>7. kbd' \in Keyboards /\ kbdQueue' \in Seq(Events)
  BY <1>3, <1>4, <1>6
<1>8. pressedKeys' \in [Keycodes -> Characters \cup {NoSymbol}]
  BY <1>4 DEF TypesInv, KeyboardTypes
<1> QED BY <1>4, <1>7, <1>8 DEF TypesInv, KeyboardTypes, HistoryTypes

\* What another client may change the keymap to.
ClientMaps == {xkb, Keymap} \cup {[xkb EXCEPT ![k].groups = OtherKey.groups] : k \in Spare}

LEMMA OtherClientTypes ==
  ASSUME TypesInv, NEW map \in ClientMaps, NEW locked \in SUBSET Modifiers, NEW group \in GroupSet,
         OtherClient(map, locked, group)
  PROVE  TypesInv'
<1>1. KeymapInv(map)
  <2>1. KeymapInv(xkb)
    BY DEF TypesInv, KeyboardTypes
  <2>2. \A k \in Spare : KeymapInv([xkb EXCEPT ![k].groups = OtherKey.groups])
    BY <2>1, OtherKeyIs
  <2> QED BY <2>1, <2>2, KeymapIs DEF ClientMaps
<1>2. kbd' = [kbd EXCEPT !.locked = locked, !.group = group]
  BY DEF OtherClient
<1>3. kbd' = [down |-> kbd.down, locked |-> locked, group |-> group]
  <2>1. kbd = [down |-> kbd.down, locked |-> kbd.locked, group |-> kbd.group]
    BY DevicesAre DEF TypesInv, KeyboardTypes
  <2> QED BY <1>2, <2>1
<1>4. kbd' \in Keyboards
  BY <1>3 DEF Keyboards, TypesInv, KeyboardTypes
<1>5. keyInputs' \in 0..MaxInputs /\ remapped' \in BOOLEAN
  BY KeysymAssumption DEF OtherClient, Input, TypesInv, HistoryTypes
<1> QED BY <1>1, <1>4, <1>5 DEF OtherClient, TypesInv, KeyboardTypes, HistoryTypes

\* The steps of another client are those of KbdNext.
LEMMA OtherClientSteps ==
  ASSUME TypesInv,
         \/ \E k \in Spare : OtherClient([xkb EXCEPT ![k].groups = OtherKey.groups], kbd.locked, kbd.group)
         \/ OtherClient(Keymap, kbd.locked, kbd.group)
         \/ \E m \in Modifiers : OtherClient(xkb, Toggled(kbd.locked, {m}), kbd.group)
         \/ \E g \in GroupSet : OtherClient(xkb, kbd.locked, g)
  PROVE  \E map \in ClientMaps : \E locked \in SUBSET Modifiers : \E group \in GroupSet :
           OtherClient(map, locked, group)
<1>1. kbd.locked \in SUBSET Modifiers /\ kbd.group \in GroupSet
  BY DevicesAre DEF TypesInv, KeyboardTypes
<1>2. \A m \in Modifiers : Toggled(kbd.locked, {m}) \in SUBSET Modifiers
  BY <1>1 DEF Toggled
<1>3. /\ xkb \in ClientMaps /\ Keymap \in ClientMaps
      /\ \A k \in Spare : [xkb EXCEPT ![k].groups = OtherKey.groups] \in ClientMaps
  BY DEF ClientMaps
<1> QED BY <1>1, <1>2, <1>3

LEMMA TypesInit == KbdInit => TypesInv
<1> SUFFICES ASSUME KbdInit PROVE TypesInv
  OBVIOUS
<1>1. 1 \in GroupSet /\ MaxInputs \in Nat
  BY KeysymAssumption
<1>2. <<>> \in [{} -> Effects] /\ {} \in SUBSET Keycodes
  OBVIOUS
<1>3. [down |-> <<>>, locked |-> {}, group |-> 1] \in Keyboards
  BY <1>1, <1>2 DEF Keyboards
<1>4. KeyboardTypes
  BY <1>3, KeymapIs DEF KbdInit, KeyboardTypes, NoPresses
<1>5. HistoryTypes
  <2>1. <<>> \in Seq(Typed) /\ Len(<<>>) = 0 /\ Window \in Nat
    BY WindowIs
  <2>2. /\ held = {} /\ leftover = {} /\ typed = <<>> /\ remapped = FALSE /\ keyInputs = 0
    BY DEF KbdInit
  <2>3. typed \in Seq(Typed) /\ Len(typed) <= Window
    BY <2>1, <2>2
  <2>4. keyInputs \in 0..MaxInputs
    BY <1>1, <2>2
  <2> QED BY <2>2, <2>3, <2>4 DEF HistoryTypes
<1> QED BY <1>4, <1>5 DEF TypesInv

LEMMA TypesStep ==
  ASSUME TypesInv, [KbdNext]_kbdVars
  PROVE  TypesInv'
<1>1. ASSUME NEW k \in RawKeys, RawKey(k) PROVE TypesInv'
  <2>1. k \in Keycodes
    BY KeycodesAre
  <2>2. kbdQueue' = Append(kbdQueue, [key |-> k, press |-> k \notin held])
    BY <1>1 DEF RawKey
  <2>3. [key |-> k, press |-> k \notin held] \in Events
    BY <2>1 DEF Events
  <2>4. kbdQueue' \in Seq(Events)
    BY <2>2, <2>3 DEF TypesInv, KeyboardTypes
  <2>5. held' \in SUBSET RawKeys /\ keyInputs' \in 0..MaxInputs
    BY <1>1, KeysymAssumption DEF RawKey, Input, TypesInv, HistoryTypes
  <2> QED BY <1>1, <2>4, <2>5 DEF RawKey, TypesInv, KeyboardTypes, HistoryTypes
<1>2. CASE ProcessQueue
  <2>1. MapOK(xkb) /\ kbd \in Keyboards /\ kbdQueue \in Seq(Events)
    BY DEF TypesInv, KeyboardTypes, KeymapInv
  <2>2. mieqProcessInputEvents(xkb, kbd, kbdQueue) \in Keyboards
    BY <2>1, RunType
  <2>3. <<>> \in Seq(Events)
    OBVIOUS
  <2> QED BY <1>2, <2>2, <2>3 DEF ProcessQueue, TypesInv, KeyboardTypes, HistoryTypes
<1>3. ASSUME NEW sym \in Characters, TypeSymbol(sym) PROVE TypesInv'
  BY <1>3, TypeSymbolTypes
<1>4. CASE TypeRelease
  BY <1>4, TypeReleaseTypes
<1>5. CASE \/ \E k \in Spare : OtherClient([xkb EXCEPT ![k].groups = OtherKey.groups], kbd.locked, kbd.group)
           \/ OtherClient(Keymap, kbd.locked, kbd.group)
           \/ \E m \in Modifiers : OtherClient(xkb, Toggled(kbd.locked, {m}), kbd.group)
           \/ \E g \in GroupSet : OtherClient(xkb, kbd.locked, g)
  <2>1. PICK map \in ClientMaps, locked \in SUBSET Modifiers, group \in GroupSet : OtherClient(map, locked, group)
    BY <1>5, OtherClientSteps
  <2> QED BY <2>1, OtherClientTypes
<1>6. CASE UNCHANGED kbdVars
  BY <1>6 DEF kbdVars, TypesInv, KeyboardTypes, HistoryTypes
<1> QED BY <1>1, <1>2, <1>3, <1>4, <1>5, <1>6 DEF KbdNext

\* The types of the keyboard's variables: only spare keys ever change, a symbol
\* is only listed for a spare key, and what another client does to the keymap
\* never leaves a key without a symbol for one of its levels.
THEOREM KeysymTypes == KbdSpec => []KeysymTypeOK
<1>1. KbdInit => TypesInv
  BY TypesInit
<1>2. TypesInv /\ [KbdNext]_kbdVars => TypesInv'
  BY TypesStep
<1>3. TypesInv => KeysymTypeOK
  BY TypesInvImplies
<1> QED BY <1>1, <1>2, <1>3, PTL DEF KbdSpec

-----------------------------------------------------------------------------
(***************************************************************************)
(* The keys that symbols are put on.                                       *)
(***************************************************************************)
\* A key without groups shows nothing, one with an added symbol one of its forms.
LEMMA EmptySeen ==
  ASSUME NEW key, key.groups = <<>>, NEW st
  PROVE  SymbolSeen(key, st) = NoSymbol
BY DEF SymbolSeen, XkbTranslateKeyCode

LEMMA AddedSeen ==
  ASSUME NEW key, KeyOK(key), NEW sym \in Characters, key.groups = <<AddedGroup(sym)>>, NEW st \in KeyStates
  PROVE  SymbolSeen(key, st) \in CaseForms(sym)
<1> DEFINE g == key.groups[XkbKeyEffectiveGroup(key, st)]
           level == EntryOf(KeyTypes[g.type], st.mods).level
           t == XkbTranslateKeyCode(key, st)
<1>1. key.groups # <<>> /\ DOMAIN key.groups = {1} /\ key.groups[1] = AddedGroup(sym)
  OBVIOUS
<1>2. g = AddedGroup(sym) /\ HasLevels(g) /\ g \in Groups
  BY <1>1, GroupIs
<1>3. level \in LevelsOf(g.type)
  BY <1>2, LevelIs
<1>4. t.sym = g.syms[level]
  BY <1>1 DEF XkbTranslateKeyCode
<1> HIDE DEF g
<1>5. level \in 1..2
  BY <1>2, <1>3, KeysymAssumption DEF AddedGroup
<1> HIDE DEF level, t
<1>6. t.sym \in {Lower[sym], Upper[sym]}
  BY <1>2, <1>4, <1>5, AddedGroupIs
<1> QED BY <1>6 DEF SymbolSeen, CaseForms, t

\* No spare key has the symbol of another client; the list has each of those that
\* carry a symbol once, and nothing else.
ListInv(map, list) ==
  /\ \A k \in Spare : map[k].groups \in {<<>>} \cup {<<AddedGroup(sym)>> : sym \in Characters}
  /\ \A i, j \in DOMAIN list : list[i].keycode = list[j].keycode => i = j
  /\ \A k \in Spare : map[k].groups # <<>> <=> \E i \in DOMAIN list : list[i].keycode = k
  /\ \A i \in DOMAIN list : Unmodified(map, list[i])

\* No spare key has a symbol of the level-three keys.
LEMMA SpareSeen ==
  ASSUME NEW map, KeymapInv(map), NEW k \in Spare,
         map[k].groups \in {<<>>} \cup {<<AddedGroup(sym)>> : sym \in Characters}, NEW st \in KeyStates
  PROVE  SymbolSeen(map[k], st) \notin LevelThreeSymbols
<1>1. KeyOK(map[k])
  BY KeycodesAre DEF KeymapInv, MapOK
<1>2. CASE map[k].groups = <<>>
  BY <1>2, EmptySeen DEF LevelThreeSymbols, NoSymbol
<1>3. CASE map[k].groups # <<>>
  <2>1. PICK sym \in Characters : map[k].groups = <<AddedGroup(sym)>>
    BY <1>3
  <2>2. SymbolSeen(map[k], st) \in CaseForms(sym)
    BY <1>1, <2>1, AddedSeen
  <2> QED BY <2>2, CharactersAre
<1> QED BY <1>2, <1>3

\* A keymap that differs in a spare key has the same level-three mask.
LEMMA SameMask ==
  ASSUME NEW map, KeymapInv(map), NEW new, KeymapInv(new), NEW k \in Spare, NEW st \in KeyStates,
         map[k].groups \in {<<>>} \cup {<<AddedGroup(sym)>> : sym \in Characters},
         new[k].groups \in {<<>>} \cup {<<AddedGroup(sym)>> : sym \in Characters},
         \A j \in Keycodes \ {k} : new[j] = map[j]
  PROVE  lorieGetLevelThreeMask(new, st) = lorieGetLevelThreeMask(map, st)
<1> DEFINE s == NoMods(st)
<1>1. s \in KeyStates
  BY WithIs DEF Modifiers
<1> HIDE DEF s
<1>2. SymbolSeen(map[k], s) \notin LevelThreeSymbols /\ SymbolSeen(new[k], s) \notin LevelThreeSymbols
  BY <1>1, SpareSeen
<1>3. ASSUME NEW sym \in LevelThreeSymbols
      PROVE  /\ KeyInState(new, sym, s) = KeyInState(map, sym, s)
             /\ KeyInState(map, sym, s) # k
  <2> DEFINE a == {j \in Keycodes : sym # NoSymbol /\ SymbolSeen(map[j], s) = sym}
             b == {j \in Keycodes : sym # NoSymbol /\ SymbolSeen(new[j], s) = sym}
  <2>1. a = b /\ k \notin a
    BY <1>2, <1>3
  <2>2. KeyInState(new, sym, s) = RealKeysFirst(b) /\ KeyInState(map, sym, s) = RealKeysFirst(a)
    BY DEF KeyInState
  <2>3. RealKeysFirst(a) \in a \cup {NoKey}
    BY FirstKeyIs
  <2> HIDE DEF a, b
  <2> QED BY <2>1, <2>2, <2>3, KeycodesAre
<1>4. "ISO_Level3_Shift" \in LevelThreeSymbols /\ "Mode_switch" \in LevelThreeSymbols
  BY DEF LevelThreeSymbols
<1>5. LevelThreeKey(new, s) = LevelThreeKey(map, s) /\ LevelThreeKey(map, s) # k
  <2> DEFINE f == <<[key |-> KeyInState(map, "ISO_Level3_Shift", s)],
                    [key |-> KeyInState(map, "Mode_switch", s)]>>
  <2>1. LevelThreeKey(new, s) = FirstFound(f, [key |-> NoKey]).key
    BY <1>3, <1>4 DEF LevelThreeKey
  <2>2. LevelThreeKey(map, s) = FirstFound(f, [key |-> NoKey]).key
    BY DEF LevelThreeKey
  <2>3. DOMAIN f = 1..2 /\ \A i \in 1..2 : f[i].key # k
    BY <1>3, <1>4
  <2> HIDE DEF f
  <2>4. \/ FirstFound(f, [key |-> NoKey]) = [key |-> NoKey]
        \/ \E i \in 1..2 : FirstFound(f, [key |-> NoKey]) = f[i]
    <3>1. 2 \in Nat
      OBVIOUS
    <3> QED BY <3>1, <2>3, FirstFoundIs
  <2> QED BY <2>1, <2>2, <2>3, <2>4, KeycodesAre
<1>6. LevelThreeKey(map, s) \in Keycodes \cup {NoKey}
  BY <1>1, MaskIs DEF KeymapInv
<1>7. ModsOf(new, LevelThreeKey(map, s), s) = ModsOf(map, LevelThreeKey(map, s), s)
  BY <1>5, <1>6 DEF ModsOf
<1> QED BY <1>5, <1>7 DEF lorieGetLevelThreeMask, s

\* After a symbol is added, no other key than its own is found for it.
LEMMA AddedKeyIs ==
  ASSUME NEW map, KeymapInv(map), NEW list \in Seq(Entries), NEW sym \in Characters, NEW st \in KeyStates,
         NEW w, KeymapInv(w.map), NEW k \in Spare, NEW rest, IsAdded(map, list, sym, w, k, rest),
         NoneFor(map, sym, st),
         map[k].groups \in {<<>>} \cup {<<AddedGroup(c)>> : c \in Characters},
         NEW s \in Meanings(sym)
  PROVE  lorieKeysymToKeycode(w.map, s, st).key \in {NoKey, k}
<1> DEFINE r == lorieKeysymToKeycode(w.map, s, st)
           tries == TrySet(st.mods, lorieGetLevelThreeMask(w.map, st))
<1>1. lorieGetLevelThreeMask(w.map, st) = lorieGetLevelThreeMask(map, st)
  <2> DEFINE new == w.map
  <2>1. new[k].groups = <<AddedGroup(sym)>> /\ \A j \in Keycodes \ {k} : new[j] = map[j]
    BY DEF IsAdded
  <2>2. new[k].groups \in {<<>>} \cup {<<AddedGroup(c)>> : c \in Characters}
    BY <2>1
  <2>3. KeymapInv(new)
    OBVIOUS
  <2> HIDE DEF new
  <2>4. lorieGetLevelThreeMask(new, st) = lorieGetLevelThreeMask(map, st)
    BY <2>1, <2>2, <2>3, SameMask
  <2> QED BY <2>4 DEF new
<1>2. MapOK(map) /\ MapOK(w.map)
  BY DEF KeymapInv
<1>3. lorieKeysymToKeycode(map, s, st).key = NoKey
  BY DEF NoneFor
<1>4. \A m \in tries : KeyInState(map, s, With(st, m)) = NoKey
  <2>1. tries = TrySet(st.mods, lorieGetLevelThreeMask(map, st))
    BY <1>1
  <2> HIDE DEF tries
  <2> QED BY <1>2, <1>3, <2>1, KeycodeIs
<1>5. \/ r = [key |-> NoKey, mods |-> st.mods]
      \/ r.mods \in tries /\ r.key = KeyInState(w.map, s, With(st, r.mods))
  BY <1>2, KeycodeIs
<1> HIDE DEF r, tries
<1> SUFFICES ASSUME r.key # NoKey, r.key # k PROVE FALSE
  BY DEF r
<1>6. r.mods \in tries /\ r.key = KeyInState(w.map, s, With(st, r.mods))
  BY <1>5
<1> DEFINE x == With(st, r.mods)
<1>7. r.key \in Keycodes /\ s # NoSymbol /\ SymbolSeen(w.map[r.key], x) = s
  <2>1. KeyInState(w.map, s, x) \in Keycodes \cup {NoKey}
    BY KeyInStateIs
  <2>2. KeyInState(w.map, s, x) # NoKey => s # NoSymbol /\ SymbolSeen(w.map[KeyInState(w.map, s, x)], x) = s
    BY KeyInStateIs
  <2> QED BY <1>6, <2>1, <2>2
<1>8. w.map[r.key] = map[r.key]
  BY <1>7 DEF IsAdded
<1>9. KeyInState(map, s, x) # NoKey
  BY <1>7, <1>8, KeyInStateIs
<1> QED BY <1>4, <1>6, <1>9

-----------------------------------------------------------------------------
(***************************************************************************)
(* Spare keycodes are kept as long as others can be used.                  *)
(***************************************************************************)
\* A list of all the spare keys is as long as there are spare keys.
LEMMA FullList ==
  ASSUME NEW map, NEW list \in Seq(Entries), ListInv(map, list), \A k \in Spare : map[k].groups # <<>>
  PROVE  Window <= Len(list)
<1> DEFINE n == Len(list)
           f == [i \in 1..n |-> list[i].keycode]
<1>1. n \in Nat /\ DOMAIN list = 1..n /\ \A i \in 1..n : list[i] \in Entries
  OBVIOUS
<1>2. f \in [1..n -> Spare]
  BY <1>1 DEF Entries
<1>3. \A k \in Spare : \E i \in 1..n : f[i] = k
  BY <1>1 DEF ListInv
<1>4. f \in Surjection(1..n, Spare)
  BY <1>2, <1>3 DEF Surjection
<1>5. IsFiniteSet(1..n) /\ Cardinality(1..n) = n
  <2>1. 1 \in Int /\ n \in Int
    BY <1>1
  <2> HIDE DEF n
  <2>2. IsFiniteSet(1..n) /\ Cardinality(1..n) = IF 1 > n THEN 0 ELSE n - 1 + 1
    BY <2>1, FS_Interval
  <2> QED BY <1>1, <2>2
<1> HIDE DEF n, f
<1>6. Cardinality(Spare) <= n
  BY <1>4, <1>5, FS_Surjection
<1> QED BY <1>6, WindowIs DEF n

\* Each key is at most one place further down the list, but those that were the
\* last of a full list; its symbol has not changed.
ListFollows(map, list, map2, list2) ==
  /\ ListInv(map2, list2)
  /\ \A k \in Keycodes \ Spare : map2[k] = map[k]
  /\ \A j \in DOMAIN list : j < Window =>
       /\ map2[list[j].keycode] = map[list[j].keycode]
       /\ \E i \in DOMAIN list2 : i <= j + 1 /\ list2[i].keycode = list[j].keycode

\* A symbol put in front of a list.
LEMMA AddedFollows ==
  ASSUME NEW map, KeymapInv(map), NEW list \in Seq(Entries), ListInv(map, list), NEW sym \in Characters,
         NEW w, w.list \in Seq(Entries), NEW k \in Spare, NEW rest \in Seq(Entries),
         IsAdded(map, list, sym, w, k, rest)
  PROVE  ListFollows(map, list, w.map, w.list)
<1> DEFINE n == Len(list)
           m == Len(rest)
           new == [keycode |-> k, keysym |-> Lower[sym]]
<1>1. n \in Nat /\ DOMAIN list = 1..n /\ m \in Nat /\ DOMAIN rest = 1..m
  OBVIOUS
<1>2. /\ w.map[k].groups = <<AddedGroup(sym)>> /\ w.map[k].name = "T"
      /\ \A j \in Keycodes \ {k} : w.map[j] = map[j]
      /\ w.list = <<new>> \o rest
  BY DEF IsAdded
<1>3. \A i \in 1..n : list[i] \in Entries /\ list[i].keycode \in Spare
  <2>1. \A i \in 1..n : list[i] \in Entries
    OBVIOUS
  <2> HIDE DEF n
  <2> QED BY <2>1 DEF Entries
<1>4. /\ m <= n /\ \A i \in 1..m : rest[i] = list[i] /\ rest[i].keycode # k
      /\ \A i \in 1..n : list[i].keycode # k => i <= m
      /\ \A i \in 1..n : i > m => i >= Window
  <2>1. CASE map[k].groups = <<>> /\ rest = list
    <3>1. \A i \in 1..n : list[i].keycode # k
      BY <1>1, <2>1 DEF ListInv
    <3> QED BY <1>1, <2>1, <3>1
  <2>2. CASE /\ \A j \in Keycodes : map[j].groups # <<>>
             /\ \E x \in DOMAIN list :
                  LastUsable(map, list, x) /\ k = list[x].keycode /\ rest = SubSeq(list, 1, x - 1)
    <3>1. PICK x \in 1..n : LastUsable(map, list, x) /\ k = list[x].keycode /\ rest = SubSeq(list, 1, x - 1)
      BY <1>1, <2>2
    <3>2. x = n
      <4>1. n \in DOMAIN list /\ Unmodified(map, list[n])
        BY <1>1, <3>1 DEF ListInv
      <4> HIDE DEF n
      <4>2. ~(n > x)
        BY <3>1, <4>1 DEF LastUsable
      <4> QED BY <1>1, <3>1, <4>2
    <3>3. Window <= n
      BY <2>2, KeycodesAre, FullList
    <3>4. m = n - 1 /\ \A i \in 1..m : rest[i] = list[i]
      BY <1>1, <3>1, <3>2
    <3>5. \A i \in 1..m : list[i].keycode # k
      BY <1>1, <3>1, <3>2, <3>4 DEF ListInv
    <3> HIDE DEF n, m
    <3> QED BY <1>1, <3>1, <3>2, <3>3, <3>4, <3>5, WindowIs
  <2> QED BY <2>1, <2>2 DEF IsAdded
<1>5. /\ DOMAIN w.list = 1..(m + 1) /\ w.list[1] = new
      /\ \A i \in 1..m : w.list[i + 1] = rest[i]
  <2>1. w.list = <<new>> \o rest
    BY <1>2
  <2> HIDE DEF new
  <2> QED BY <1>1, <2>1
<1> HIDE DEF n, m
<1>6. \A i \in 1..(m + 1) : i = 1 \/ (i - 1 \in 1..m /\ w.list[i] = list[i - 1] /\ w.list[i].keycode # k)
  <2> SUFFICES ASSUME NEW i \in 1..(m + 1), i # 1
               PROVE  i - 1 \in 1..m /\ w.list[i] = list[i - 1] /\ w.list[i].keycode # k
    OBVIOUS
  <2>1. i - 1 \in 1..m /\ (i - 1) + 1 = i
    BY <1>1
  <2> QED BY <1>4, <1>5, <2>1
<1>7. ListInv(w.map, w.list)
  <2>1. \A j \in Spare : w.map[j].groups \in {<<>>} \cup {<<AddedGroup(c)>> : c \in Characters}
    <3> SUFFICES ASSUME NEW j \in Spare
                 PROVE  w.map[j].groups \in {<<>>} \cup {<<AddedGroup(c)>> : c \in Characters}
      OBVIOUS
    <3>1. j # k => w.map[j] = map[j]
      BY <1>2, KeycodesAre
    <3> QED BY <1>2, <3>1 DEF ListInv
  <2>2. ASSUME NEW i \in DOMAIN w.list, NEW j \in DOMAIN w.list, w.list[i].keycode = w.list[j].keycode
        PROVE  i = j
    <3>1. i \in 1..(m + 1) /\ j \in 1..(m + 1) /\ w.list[1].keycode = k
      BY <1>5
    <3>2. CASE i = 1 \/ j = 1
      BY <1>6, <2>2, <3>1, <3>2
    <3>3. CASE i # 1 /\ j # 1
      <4>1. /\ i - 1 \in 1..n /\ w.list[i] = list[i - 1]
            /\ j - 1 \in 1..n /\ w.list[j] = list[j - 1]
        BY <1>1, <1>4, <1>6, <3>1, <3>3
      <4>2. i - 1 = j - 1
        BY <1>1, <2>2, <4>1 DEF ListInv
      <4> QED BY <1>1, <3>1, <4>2
    <3> QED BY <3>2, <3>3
  <2>3. ASSUME NEW j \in Spare
        PROVE  w.map[j].groups # <<>> <=> \E i \in DOMAIN w.list : w.list[i].keycode = j
    <3>1. CASE j = k
      <4>1. w.map[j].groups # <<>>
        <5>1. \A g : <<g>> # <<>>
          OBVIOUS
        <5> QED BY <1>2, <3>1, <5>1
      <4>2. 1 \in DOMAIN w.list /\ w.list[1].keycode = k
        BY <1>1, <1>5
      <4> QED BY <3>1, <4>1, <4>2
    <3>2. CASE j # k
      <4>1. w.map[j] = map[j]
        BY <1>2, <3>2, KeycodesAre
      <4>2. ASSUME NEW i \in DOMAIN w.list, w.list[i].keycode = j PROVE \E x \in DOMAIN list : list[x].keycode = j
        <5>1. i # 1 /\ i \in 1..(m + 1)
          BY <1>5, <3>2, <4>2
        <5>2. i - 1 \in 1..n /\ w.list[i] = list[i - 1]
          BY <1>1, <1>4, <1>6, <5>1
        <5> QED BY <1>1, <4>2, <5>2
      <4>3. ASSUME NEW x \in DOMAIN list, list[x].keycode = j PROVE \E i \in DOMAIN w.list : w.list[i].keycode = j
        <5>1. x \in 1..m
          BY <1>1, <1>4, <3>2, <4>3
        <5>2. x + 1 \in DOMAIN w.list /\ w.list[x + 1] = list[x]
          BY <1>1, <1>4, <1>5, <5>1
        <5> QED BY <4>3, <5>2
      <4> QED BY <4>1, <4>2, <4>3 DEF ListInv
    <3> QED BY <3>1, <3>2
  <2>4. ASSUME NEW i \in DOMAIN w.list PROVE Unmodified(w.map, w.list[i])
    <3>1. CASE i = 1
      <4>1. w.map[k].groups[1].syms[1] = Lower[sym] /\ w.map[k].groups # <<>>
        BY <1>2, AddedGroupIs
      <4>2. w.list[1] = new /\ new.keycode = k /\ new.keysym = Lower[sym]
        BY <1>5
      <4>3. w.map[k].name = "T"
        BY <1>2
      <4> HIDE DEF new
      <4> QED BY <3>1, <4>1, <4>2, <4>3 DEF Unmodified
    <3>2. CASE i # 1
      <4>1. i - 1 \in 1..n /\ w.list[i] = list[i - 1] /\ w.list[i].keycode # k
        BY <1>1, <1>4, <1>5, <1>6, <3>2
      <4>2. Unmodified(map, list[i - 1]) /\ list[i - 1].keycode \in Spare
        BY <1>1, <1>3, <4>1 DEF ListInv
      <4>3. w.map[list[i - 1].keycode] = map[list[i - 1].keycode]
        BY <1>2, <4>1, <4>2, KeycodesAre
      <4> QED BY <4>1, <4>2, <4>3 DEF Unmodified
    <3> QED BY <3>1, <3>2
  <2> QED BY <2>1, <2>2, <2>3, <2>4 DEF ListInv
<1>8. \A j \in Keycodes \ Spare : w.map[j] = map[j]
  BY <1>2
<1>9. ASSUME NEW j \in DOMAIN list, j < Window
      PROVE  /\ w.map[list[j].keycode] = map[list[j].keycode]
             /\ \E i \in DOMAIN w.list : i <= j + 1 /\ w.list[i].keycode = list[j].keycode
  <2>1. j \in 1..n /\ j <= m
    <3>1. j \in 1..n /\ n \in Nat /\ m \in Nat /\ Window \in Nat
      BY <1>1, WindowIs
    <3>2. j > m => j >= Window
      BY <1>4, <3>1
    <3>3. ~(j >= Window)
      BY <1>9, <3>1
    <3> QED BY <3>1, <3>2, <3>3
  <2>2. j \in 1..m /\ j + 1 \in 1..(m + 1) /\ w.list[j + 1] = list[j] /\ list[j].keycode # k
    BY <1>1, <1>4, <1>5, <2>1
  <2>3. w.map[list[j].keycode] = map[list[j].keycode]
    BY <1>2, <1>3, <2>1, <2>2, KeycodesAre
  <2>4. j + 1 <= j + 1
    BY <1>1, <2>1
  <2> QED BY <1>5, <2>2, <2>3, <2>4
<1> QED BY <1>7, <1>8, <1>9 DEF ListFollows

\* So does the list when a key is used.
LEMMA MovedFollows ==
  ASSUME NEW map, NEW list \in Seq(Entries), ListInv(map, list), NEW k, NEW u, MovedToFront(list, k, u)
  PROVE  ListFollows(map, list, map, u)
<1> DEFINE n == Len(list)
<1>1. n \in Nat /\ DOMAIN list = 1..n
  OBVIOUS
<1>2. CASE u = list
  <2>1. \A j \in 1..n : j <= j + 1
    BY <1>1
  <2> QED BY <1>1, <1>2, <2>1 DEF ListFollows
<1>3. CASE \E m \in DOMAIN list :
             /\ list[m].keycode = k /\ Len(u) = Len(list) /\ u[1] = list[m]
             /\ \A i \in 1..(m - 1) : list[i].keycode # k /\ u[i + 1] = list[i]
             /\ \A i \in (m + 1)..Len(list) : u[i] = list[i]
  <2>1. PICK m \in 1..n : /\ Len(u) = n /\ u[1] = list[m]
                          /\ \A i \in 1..(m - 1) : u[i + 1] = list[i]
                          /\ \A i \in (m + 1)..n : u[i] = list[i]
    BY <1>1, <1>3
  <2>2. DOMAIN u = 1..n
    BY <2>1 DEF MovedToFront
  <2> HIDE DEF n
  <2> DEFINE from(i) == IF i = 1 THEN m ELSE IF i <= m THEN i - 1 ELSE i
             to(j) == IF j = m THEN 1 ELSE IF j < m THEN j + 1 ELSE j
  <2>3. ASSUME NEW i \in 1..n PROVE from(i) \in 1..n /\ u[i] = list[from(i)]
    <3>1. CASE i = 1
      BY <2>1, <3>1
    <3>2. CASE i # 1 /\ i <= m
      <4>1. i - 1 \in 1..(m - 1) /\ (i - 1) + 1 = i /\ i - 1 \in 1..n
        BY <1>1, <3>2
      <4> QED BY <2>1, <3>2, <4>1
    <3>3. CASE i # 1 /\ ~(i <= m)
      <4>1. i \in (m + 1)..n
        BY <1>1, <3>3
      <4> QED BY <2>1, <3>3, <4>1
    <3> QED BY <3>1, <3>2, <3>3
  <2>4. ASSUME NEW j \in 1..n PROVE to(j) \in 1..n /\ u[to(j)] = list[j] /\ to(j) <= j + 1
    <3>1. CASE j = m
      BY <1>1, <2>1, <3>1
    <3>2. CASE j < m
      <4>1. j \in 1..(m - 1) /\ j + 1 \in 1..n
        BY <1>1, <3>2
      <4> QED BY <2>1, <3>2, <4>1
    <3>3. CASE j > m
      <4>1. j \in (m + 1)..n
        BY <1>1, <3>3
      <4> QED BY <2>1, <3>3, <4>1
    <3> QED BY <1>1, <3>1, <3>2, <3>3
  <2>5. ASSUME NEW i \in 1..n, NEW j \in 1..n, from(i) = from(j) PROVE i = j
    BY <1>1, <2>5
  <2> HIDE DEF from, to
  <2>6. ListInv(map, u)
    <3>1. ASSUME NEW i \in DOMAIN u, NEW j \in DOMAIN u, u[i].keycode = u[j].keycode PROVE i = j
      <4>1. from(i) \in DOMAIN list /\ from(j) \in DOMAIN list /\ list[from(i)].keycode = list[from(j)].keycode
        BY <1>1, <2>2, <2>3, <3>1
      <4>2. from(i) = from(j)
        BY <4>1 DEF ListInv
      <4> QED BY <2>2, <2>5, <4>2
    <3>2. ASSUME NEW j \in Spare
          PROVE  map[j].groups # <<>> <=> \E i \in DOMAIN u : u[i].keycode = j
      <4>1. map[j].groups # <<>> <=> \E i \in DOMAIN list : list[i].keycode = j
        BY DEF ListInv
      <4>2. (\E i \in DOMAIN list : list[i].keycode = j) => \E i \in DOMAIN u : u[i].keycode = j
        BY <1>1, <2>2, <2>4
      <4>3. (\E i \in DOMAIN u : u[i].keycode = j) => \E i \in DOMAIN list : list[i].keycode = j
        BY <1>1, <2>2, <2>3
      <4> QED BY <4>1, <4>2, <4>3
    <3>3. ASSUME NEW i \in DOMAIN u PROVE Unmodified(map, u[i])
      BY <1>1, <2>2, <2>3 DEF ListInv
    <3> QED BY <3>1, <3>2, <3>3 DEF ListInv
  <2> QED BY <1>1, <2>2, <2>4, <2>6 DEF ListFollows
<1> QED BY <1>2, <1>3 DEF MovedToFront

\* The key that is used is the first, and a list that starts with it stays.
LEMMA FirstUsed ==
  ASSUME NEW map, NEW list \in Seq(Entries), ListInv(map, list), NEW k, NEW u, MovedToFront(list, k, u)
  PROVE  /\ (\E i \in DOMAIN list : list[i].keycode = k) => 1 \in DOMAIN u /\ u[1].keycode = k
         /\ 1 \in DOMAIN list /\ list[1].keycode = k => u = list
<1> DEFINE n == Len(list)
<1>1. n \in Nat /\ DOMAIN list = 1..n
  OBVIOUS
<1>2. CASE u = list /\ \A i \in DOMAIN list : list[i].keycode # k
  BY <1>2
<1>3. CASE \E m \in DOMAIN list :
             /\ list[m].keycode = k /\ Len(u) = Len(list) /\ u[1] = list[m]
             /\ \A i \in 1..(m - 1) : list[i].keycode # k /\ u[i + 1] = list[i]
             /\ \A i \in (m + 1)..Len(list) : u[i] = list[i]
  <2>1. PICK m \in 1..n : /\ list[m].keycode = k /\ Len(u) = n /\ u[1] = list[m]
                          /\ \A i \in (m + 1)..n : u[i] = list[i]
    BY <1>1, <1>3
  <2>2. u \in Seq(Entries) /\ DOMAIN u = 1..n
    BY <2>1 DEF MovedToFront
  <2> HIDE DEF n
  <2>3. 1 \in DOMAIN u /\ u[1].keycode = k
    BY <1>1, <2>1, <2>2
  <2>4. ASSUME 1 \in DOMAIN list, list[1].keycode = k PROVE u = list
    <3>1. m = 1
      BY <1>1, <2>1, <2>4 DEF ListInv
    <3>2. \A i \in 1..n : u[i] = list[i]
      BY <1>1, <2>1, <3>1
    <3>3. u = [i \in 1..n |-> u[i]] /\ list = [i \in 1..n |-> list[i]]
      BY <1>1, <2>2
    <3> QED BY <3>2, <3>3
  <2> QED BY <2>3, <2>4
<1> QED BY <1>2, <1>3 DEF MovedToFront

LEMMA KeyShows ==
  ASSUME NEW map, MapOK(map), NEW s, NEW st \in KeyStates, NEW r, r = lorieKeysymToKeycode(map, s, st), r.key # NoKey
  PROVE  r.key \in Keycodes /\ map[r.key].groups # <<>>
<1> DEFINE tries == TrySet(st.mods, lorieGetLevelThreeMask(map, st))
<1>1. /\ r.mods \in tries /\ r.key = KeyInState(map, s, With(st, r.mods))
      /\ r.key # NoKey
  BY KeycodeIs
<1>2. r.key \in Keycodes /\ s # NoSymbol /\ SymbolSeen(map[r.key], With(st, r.mods)) = s
  <2>1. KeyInState(map, s, With(st, r.mods)) \in Keycodes \cup {NoKey}
    BY KeyInStateIs
  <2>2. /\ KeyInState(map, s, With(st, r.mods)) # NoKey =>
             s # NoSymbol /\ SymbolSeen(map[KeyInState(map, s, With(st, r.mods))], With(st, r.mods)) = s
    BY KeyInStateIs
  <2> QED BY <1>1, <2>1, <2>2
<1> QED BY <1>2, EmptySeen

\* What was planned keeps the list of added symbols.
PlanFollows(map, list, p) ==
  /\ ListFollows(map, list, p.map, p.list)
  /\ p.key # NoKey =>
       /\ ListFollows(map, list, p.map, vncOnKeyUsed(p.list, p.key))
       /\ p.key \in Spare => 1 \in DOMAIN vncOnKeyUsed(p.list, p.key) /\ vncOnKeyUsed(p.list, p.key)[1].keycode = p.key

LEMMA PlanFollowsIs ==
  ASSUME NEW map, KeymapInv(map), NEW list \in Seq(Entries), ListInv(map, list),
         NEW sym \in Characters, NEW dev \in Keyboards, NEW st \in KeyStates,
         NEW p, PlanFor(map, list, sym, dev, st, p)
  PROVE  PlanFollows(map, list, p)
<1>1. PICK w, r : /\ FoundFor(map, list, sym, st, w)
                  /\ r = w.found \/ IsFor(w.map, sym, st, r)
                  /\ p.map = w.map /\ p.list = w.list /\ p.key = r.key
  BY DEF PlanFor
<1>2. KeymapInv(w.map) /\ MapOK(w.map) /\ w.list \in Seq(Entries) /\ DOMAIN list = 1..Len(list)
  BY <1>1 DEF FoundFor, KeymapInv
<1> DEFINE u == vncOnKeyUsed(w.list, r.key)
<1>3. MovedToFront(w.list, r.key, u)
  BY <1>2, UsedIs
<1> HIDE DEF u
<1>4. ListFollows(map, list, map, list)
  <2>1. \A j \in DOMAIN list : j <= j + 1
    BY <1>2
  <2> QED BY <2>1 DEF ListFollows
<1>5. \E s \in Meanings(sym) : r = lorieKeysymToKeycode(w.map, s, st)
  <2>1. CASE r = w.found
    <3>1. sym \in Meanings(sym)
      BY DEF Meanings
    <3> QED BY <1>1, <2>1, <3>1 DEF FoundFor, IsFor, Added
  <2>2. CASE IsFor(w.map, sym, st, r)
    BY <2>2 DEF IsFor
  <2> QED BY <1>1, <2>1, <2>2
<1>6. ASSUME ListFollows(map, list, w.map, w.list), r.key # NoKey => ListFollows(map, list, w.map, u)
      PROVE  PlanFollows(map, list, p)
  <2>1. ASSUME r.key # NoKey, r.key \in Spare PROVE 1 \in DOMAIN u /\ u[1].keycode = r.key
    <3>1. w.map[r.key].groups # <<>>
      BY <1>2, <1>5, <2>1, KeyShows
    <3>2. ListInv(w.map, w.list)
      BY <1>6 DEF ListFollows
    <3>3. \E i \in DOMAIN w.list : w.list[i].keycode = r.key
      BY <2>1, <3>1, <3>2 DEF ListInv
    <3> QED BY <1>2, <1>3, <3>2, <3>3, FirstUsed
  <2> QED BY <1>1, <1>6, <2>1 DEF PlanFollows, u
<1>7. CASE w.map = map /\ w.list = list
  <2>1. ListFollows(map, list, map, u)
    BY <1>3, <1>7, MovedFollows
  <2> QED BY <1>4, <1>6, <1>7, <2>1
<1>8. CASE Added(map, list, sym, st, w)
  <2>1. CASE NotAdded(map, list, w)
    <3>1. DOMAIN list = {}
      BY <2>1 DEF NotAdded, ListInv
    <3>2. list = <<>>
      BY <1>2, <3>1
    <3> QED BY <1>7, <2>1, <3>2 DEF NotAdded
  <2>2. CASE \E k \in Spare : \E rest \in Seq(Entries) : IsAdded(map, list, sym, w, k, rest)
    <3>1. PICK k \in Spare, rest \in Seq(Entries) : IsAdded(map, list, sym, w, k, rest)
      BY <2>2
    <3>2. ListFollows(map, list, w.map, w.list)
      BY <1>2, <3>1, AddedFollows
    <3>3. ListInv(w.map, w.list)
      BY <3>2 DEF ListFollows
    <3>4. r.key \in {NoKey, k}
      <4>1. NoneFor(map, sym, st)
        BY <1>8 DEF Added
      <4>2. map[k].groups \in {<<>>} \cup {<<AddedGroup(c)>> : c \in Characters}
        BY DEF ListInv
      <4>3. \A s \in Meanings(sym) : lorieKeysymToKeycode(w.map, s, st).key \in {NoKey, k}
        BY <1>2, <3>1, <4>1, <4>2, AddedKeyIs
      <4> QED BY <1>5, <4>3
    <3>5. 1 \in DOMAIN w.list /\ w.list[1].keycode = k
      <4>1. w.list = <<[keycode |-> k, keysym |-> Lower[sym]]>> \o rest
        BY <3>1 DEF IsAdded
      <4> QED BY <4>1
    <3>6. r.key # NoKey => u = w.list
      BY <1>2, <1>3, <3>3, <3>4, <3>5, FirstUsed
    <3> QED BY <1>6, <3>2, <3>6
  <2> QED BY <1>8, <2>1, <2>2 DEF Added
<1> QED BY <1>1, <1>7, <1>8 DEF FoundFor

\* The key of a character that was pressed still carries what it did then, and if
\* it is a spare key, it is not further down the list than the character.
Kept(map, list, i, t) ==
  t.seen # NoSymbol =>
    /\ t.key # NoKey /\ map[t.key].groups = t.carries
    /\ t.key \in Spare => \E j \in DOMAIN list : j <= i /\ list[j].keycode = t.key

RecentInv ==
  ~remapped => ListInv(xkb, addedKeysyms) /\ \A i \in DOMAIN typed : Kept(xkb, addedKeysyms, i, typed[i])

SparesInv == RecentInv /\ NoSpareLost

\* What was kept is kept by a list that follows.
LEMMA KeptFollows ==
  ASSUME NEW map, NEW list \in Seq(Entries), NEW map2, NEW list2 \in Seq(Entries),
         ListFollows(map, list, map2, list2),
         NEW old \in Seq(Typed), \A i \in DOMAIN old : Kept(map, list, i, old[i]),
         NEW t, NEW new, Latest(t, old, new), Kept(map2, list2, 1, t)
  PROVE  \A i \in DOMAIN new : Kept(map2, list2, i, new[i])
<1> SUFFICES ASSUME NEW i \in DOMAIN new PROVE Kept(map2, list2, i, new[i])
  OBVIOUS
<1>1. CASE i = 1 /\ new[i] = t
  BY <1>1
<1>2. CASE i > 1 /\ i - 1 \in DOMAIN old /\ new[i] = old[i - 1]
  <2> DEFINE x == new[i]
  <2>1. x \in Typed /\ Kept(map, list, i - 1, x)
    BY <1>2
  <2>2. i \in Nat /\ i <= Window /\ Window \in Nat
    <3>1. new \in Seq(Typed) /\ Len(new) <= Window
      BY DEF Latest
    <3>2. i \in 1..Len(new) /\ Len(new) \in Nat
      BY <3>1
    <3> QED BY <3>1, <3>2, WindowIs
  <2> HIDE DEF x
  <2> SUFFICES ASSUME x.seen # NoSymbol
               PROVE  /\ x.key # NoKey /\ map2[x.key].groups = x.carries
                      /\ x.key \in Spare => \E j \in DOMAIN list2 : j <= i /\ list2[j].keycode = x.key
    BY DEF Kept, x
  <2>3. /\ x.key # NoKey /\ map[x.key].groups = x.carries
        /\ x.key \in Spare => \E j \in DOMAIN list : j <= i - 1 /\ list[j].keycode = x.key
    BY <2>1 DEF Kept
  <2>4. x.key \in Keycodes
    BY <2>1, <2>3 DEF Typed
  <2>5. CASE x.key \notin Spare
    BY <2>3, <2>4, <2>5 DEF ListFollows
  <2>6. CASE x.key \in Spare
    <3>1. PICK j \in DOMAIN list : j <= i - 1 /\ list[j].keycode = x.key
      BY <2>3, <2>6
    <3>2. j \in Nat /\ j < Window
      BY <2>2, <3>1
    <3>3. PICK l \in DOMAIN list2 : l <= j + 1 /\ list2[l].keycode = list[j].keycode
      BY <3>2 DEF ListFollows
    <3>4. map2[x.key] = map[x.key]
      BY <3>1, <3>2 DEF ListFollows
    <3>5. l \in Nat /\ l <= i
      BY <2>2, <3>1, <3>2, <3>3
    <3> QED BY <2>3, <3>1, <3>3, <3>4, <3>5
  <2> QED BY <2>5, <2>6
<1> QED BY <1>1, <1>2 DEF Latest

\* NoSpareLost of a keymap and a list.
NoneLost(map, list) ==
  \A k \in Spare :
    map[k].groups # <<>> /\ map[k].name = "T" /\ map[k].groups # OtherKey.groups =>
      \E i \in DOMAIN list : list[i].keycode = k /\ Unmodified(map, list[i])

LEMMA NoneLostMoved ==
  ASSUME NEW map, NEW list \in Seq(Entries), NoneLost(map, list), NEW k, NEW u, MovedToFront(list, k, u)
  PROVE  NoneLost(map, u)
<1> SUFFICES ASSUME NEW j \in DOMAIN list PROVE \E i \in DOMAIN u : u[i] = list[j]
  BY DEF NoneLost
<1>1. CASE u = list
  BY <1>1
<1>2. CASE \E m \in DOMAIN list :
             /\ list[m].keycode = k /\ Len(u) = Len(list) /\ u[1] = list[m]
             /\ \A i \in 1..(m - 1) : list[i].keycode # k /\ u[i + 1] = list[i]
             /\ \A i \in (m + 1)..Len(list) : u[i] = list[i]
  <2>1. PICK m \in DOMAIN list : /\ Len(u) = Len(list) /\ u[1] = list[m]
                                 /\ \A i \in 1..(m - 1) : u[i + 1] = list[i]
                                 /\ \A i \in (m + 1)..Len(list) : u[i] = list[i]
    BY <1>2
  <2>2. /\ Len(list) \in Nat /\ DOMAIN u = 1..Len(list) /\ m \in 1..Len(list) /\ j \in 1..Len(list)
    BY <2>1 DEF MovedToFront
  <2>3. CASE j = m
    BY <2>1, <2>2, <2>3
  <2>4. CASE j < m
    <3>1. j \in 1..(m - 1) /\ j + 1 \in 1..Len(list)
      BY <2>2, <2>4
    <3> QED BY <2>1, <2>2, <3>1
  <2>5. CASE j > m
    <3>1. j \in (m + 1)..Len(list)
      BY <2>2, <2>5
    <3> QED BY <2>1, <2>2, <3>1
  <2> QED BY <2>2, <2>3, <2>4, <2>5
<1> QED BY <1>1, <1>2 DEF MovedToFront

LEMMA NoneLostAdded ==
  ASSUME NEW map, NEW list \in Seq(Entries), NoneLost(map, list), NEW sym \in Characters,
         NEW w, NEW k \in Spare, NEW rest \in Seq(Entries), IsAdded(map, list, sym, w, k, rest)
  PROVE  NoneLost(w.map, w.list)
<1> DEFINE new == [keycode |-> k, keysym |-> Lower[sym]]
<1>1. /\ w.map[k].groups = <<AddedGroup(sym)>> /\ w.map[k].name = "T"
      /\ \A j \in Keycodes \ {k} : w.map[j] = map[j]
      /\ w.list = <<new>> \o rest
  BY DEF IsAdded
<1>2. new.keycode = k /\ new.keysym = Lower[sym]
  OBVIOUS
<1> HIDE DEF new
<1>3. /\ 1 \in DOMAIN w.list /\ w.list[1] = new
      /\ \A i \in DOMAIN rest : i + 1 \in DOMAIN w.list /\ w.list[i + 1] = rest[i]
  BY <1>1
<1>4. Unmodified(w.map, new)
  <2>1. w.map[k].groups[1].syms[1] = Lower[sym]
    BY <1>1, AddedGroupIs
  <2>2. \A g : <<g>> # <<>>
    OBVIOUS
  <2> QED BY <1>1, <1>2, <2>1, <2>2 DEF Unmodified
<1> SUFFICES ASSUME NEW j \in Spare, w.map[j].groups # <<>>, w.map[j].name = "T", w.map[j].groups # OtherKey.groups
             PROVE  \E i \in DOMAIN w.list : w.list[i].keycode = j /\ Unmodified(w.map, w.list[i])
  BY DEF NoneLost
<1>5. CASE j = k
  BY <1>2, <1>3, <1>4, <1>5
<1>6. CASE j # k
  <2>1. w.map[j] = map[j]
    BY <1>1, <1>6, KeycodesAre
  <2>2. PICK i \in DOMAIN list : list[i].keycode = j /\ Unmodified(map, list[i])
    BY <2>1 DEF NoneLost
  <2>3. Unmodified(w.map, list[i])
    BY <2>1, <2>2 DEF Unmodified
  <2>4. i \in DOMAIN rest /\ rest[i] = list[i]
    <3>1. CASE rest = list
      BY <3>1
    <3>2. CASE \E m \in DOMAIN list :
                 LastUsable(map, list, m) /\ k = list[m].keycode /\ rest = SubSeq(list, 1, m - 1)
      <4>1. PICK m \in DOMAIN list :
                   LastUsable(map, list, m) /\ k = list[m].keycode /\ rest = SubSeq(list, 1, m - 1)
        BY <3>2
      <4>2. i \in 1..Len(list) /\ m \in 1..Len(list) /\ Len(list) \in Nat
        OBVIOUS
      <4>3. ~(i > m) /\ i # m
        BY <1>6, <2>2, <4>1 DEF LastUsable
      <4>4. i \in 1..(m - 1)
        BY <4>2, <4>3
      <4> QED BY <4>1, <4>2, <4>4
    <3> QED BY <3>1, <3>2 DEF IsAdded
  <2> QED BY <1>3, <2>2, <2>3, <2>4
<1> QED BY <1>5, <1>6

LEMMA NoneLostFound ==
  ASSUME NEW map, NEW list \in Seq(Entries), NoneLost(map, list), NEW sym \in Characters, NEW st,
         NEW w, FoundFor(map, list, sym, st, w)
  PROVE  NoneLost(w.map, w.list)
<1>1. CASE w.map = map /\ w.list = list
  BY <1>1
<1>2. CASE NotAdded(map, list, w)
  BY <1>2 DEF NotAdded, NoneLost
<1>3. CASE \E k \in Spare : \E rest \in Seq(Entries) : IsAdded(map, list, sym, w, k, rest)
  BY <1>3, NoneLostAdded
<1> QED BY <1>1, <1>2, <1>3 DEF FoundFor, Added

LEMMA SparesTypeSymbol ==
  ASSUME TypesInv, SparesInv, NEW sym \in Characters, TypeSymbol(sym)
  PROVE  SparesInv'
<1>1. PICK w \in {Wanted(sym)} : TypeFails(w) \/ TypeStops(w) \/ TypePress(w)
  BY DEF TypeSymbol
<1> DEFINE st == lorieGetKeyboardState(UpToDate)
<1>2. /\ UpToDate \in Keyboards /\ st \in KeyStates
      /\ PlanFor(xkb, addedKeysyms, sym, UpToDate, st, w)
      /\ PlanTypes(w) /\ w.dev = UpToDate /\ w.sym = sym
  BY <1>1, WantedIs DEF TypesInv
<1> HIDE DEF st
<1>3. KeymapInv(xkb) /\ addedKeysyms \in Seq(Entries) /\ typed \in Seq(Typed)
  BY DEF TypesInv, KeyboardTypes, HistoryTypes
<1>4. w.list \in Seq(Entries) /\ MapOK(w.map) /\ w.key \in Keycodes \cup {NoKey}
  BY <1>2 DEF PlanTypes, KeymapInv
<1>5. ~remapped => PlanFollows(xkb, addedKeysyms, w)
  BY <1>2, <1>3, PlanFollowsIs DEF SparesInv, RecentInv
<1>6. NoneLost(w.map, w.list)
  <2>1. PICK f : FoundFor(xkb, addedKeysyms, sym, st, f) /\ w.map = f.map /\ w.list = f.list
    BY <1>2 DEF PlanFor
  <2>2. NoneLost(xkb, addedKeysyms)
    BY DEF SparesInv, NoSpareLost, NoneLost
  <2>3. NoneLost(f.map, f.list)
    BY <1>3, <2>1, <2>2, NoneLostFound
  <2> QED BY <2>1, <2>3
<1> DEFINE u == vncOnKeyUsed(w.list, w.key)
<1>7. u \in Seq(Entries) /\ NoneLost(w.map, u)
  <2>1. MovedToFront(w.list, w.key, u)
    BY <1>4, UsedIs
  <2> HIDE DEF u
  <2> QED BY <1>4, <1>6, <2>1, NoneLostMoved DEF MovedToFront
<1> HIDE DEF u
<1>8. ASSUME NEW list2 \in Seq(Entries), addedKeysyms' = list2, NoneLost(w.map, list2),
             NEW seen \in Symbols \cup {NoSymbol}, TypeStarts(w, seen),
             seen # NoSymbol => w.key # NoKey,
             ~remapped => ListFollows(xkb, addedKeysyms, w.map, list2),
             ~remapped /\ seen # NoSymbol /\ w.key \in Spare => 1 \in DOMAIN list2 /\ list2[1].keycode = w.key
      PROVE  SparesInv'
  <2> DEFINE t(c) == [key |-> w.key, sym |-> w.sym, seen |-> seen, locked |-> w.dev.locked, carries |-> c]
  <2>1. /\ xkb' = w.map /\ remapped' = remapped
        /\ \E c \in Seq(Groups) : (seen # NoSymbol => c = w.map[w.key].groups) /\ Latest(t(c), typed, typed')
    BY <1>2, <1>8, TypeStartsTypes DEF TypesInv
  <2>2. PICK c \in Seq(Groups) : (seen # NoSymbol => c = w.map[w.key].groups) /\ Latest(t(c), typed, typed')
    BY <2>1
  <2>3. ~remapped => Kept(w.map, list2, 1, t(c))
    BY <1>8, <2>2 DEF Kept
  <2> HIDE DEF t
  <2>4. ASSUME ~remapped
        PROVE  ListInv(w.map, list2) /\ \A i \in DOMAIN typed' : Kept(w.map, list2, i, typed'[i])
    <3>1. ListFollows(xkb, addedKeysyms, w.map, list2) /\ Kept(w.map, list2, 1, t(c))
      BY <1>8, <2>3, <2>4
    <3>2. \A i \in DOMAIN typed : Kept(xkb, addedKeysyms, i, typed[i])
      BY <2>4 DEF SparesInv, RecentInv
    <3>3. \A i \in DOMAIN typed' : Kept(w.map, list2, i, typed'[i])
      BY <1>3, <1>8, <2>2, <3>1, <3>2, KeptFollows
    <3> QED BY <3>1, <3>3 DEF ListFollows
  <2>5. RecentInv'
    BY <1>8, <2>1, <2>4 DEF RecentInv
  <2>6. NoSpareLost'
    BY <1>8, <2>1 DEF NoSpareLost, NoneLost
  <2> QED BY <2>5, <2>6 DEF SparesInv
<1>9. ASSUME addedKeysyms' = w.list, TypeStarts(w, NoSymbol) PROVE SparesInv'
  <2>1. ~remapped => ListFollows(xkb, addedKeysyms, w.map, w.list)
    BY <1>5 DEF PlanFollows
  <2> QED BY <1>4, <1>6, <1>8, <1>9, <2>1
<1>10. CASE TypeFails(w)
  BY <1>9, <1>10 DEF TypeFails
<1>11. CASE TypeStops(w)
  BY <1>9, <1>11 DEF TypeStops
<1>12. CASE TypePress(w)
  <2>1. PICK faked \in {mieqProcessInputEvents(w.map, w.dev, w.shift.events \o w.level3.events)} :
          TypeStarts(w, SymbolSeen(w.map[w.key], lorieGetKeyboardState(faked)))
    BY <1>12 DEF TypePress
  <2>2. w.key # NoKey /\ w.key \in Keycodes /\ addedKeysyms' = u
    BY <1>4, <1>12 DEF TypePress, u
  <2>3. SymbolSeen(w.map[w.key], lorieGetKeyboardState(faked)) \in Symbols \cup {NoSymbol}
    <3>1. w.shift.events \in Seq(Events) /\ w.level3.events \in Seq(Events)
      BY <1>2 DEF PlanTypes
    <3>2. w.shift.events \o w.level3.events \in Seq(Events)
      BY <3>1
    <3>3. \A d \in Keyboards : \A q \in Seq(Events) : mieqProcessInputEvents(w.map, d, q) \in Keyboards
      BY <1>4, RunType
    <3>4. faked \in Keyboards
      BY <1>2, <2>1, <3>2, <3>3
    <3> QED BY <1>4, <2>2, <3>4, StateIs, TranslateIs DEF MapOK
  <2>4. ~remapped => /\ ListFollows(xkb, addedKeysyms, w.map, u)
                     /\ w.key \in Spare => 1 \in DOMAIN u /\ u[1].keycode = w.key
    BY <1>5, <2>2 DEF PlanFollows, u
  <2> QED BY <1>7, <1>8, <2>1, <2>2, <2>3, <2>4
<1> QED BY <1>1, <1>10, <1>11, <1>12

LEMMA SparesInit == KbdInit => SparesInv
<1> SUFFICES ASSUME KbdInit PROVE SparesInv
  OBVIOUS
<1>1. xkb = Keymap /\ addedKeysyms = <<>> /\ typed = <<>>
  BY DEF KbdInit
<1>2. \A k \in Spare : xkb[k].groups = <<>>
  BY <1>1 DEF Spare
<1>3. DOMAIN addedKeysyms = {} /\ DOMAIN typed = {}
  BY <1>1
<1>4. RecentInv
  BY <1>2, <1>3 DEF RecentInv, ListInv
<1> QED BY <1>2, <1>4 DEF SparesInv, NoSpareLost

LEMMA SparesOtherClient ==
  ASSUME TypesInv, SparesInv, NEW map \in ClientMaps, NEW locked, NEW group, OtherClient(map, locked, group)
  PROVE  SparesInv'
<1>1. /\ xkb' = map /\ addedKeysyms' = addedKeysyms /\ typed' = typed
      /\ remapped' = (remapped \/ map # xkb)
  BY DEF OtherClient
<1>2. RecentInv'
  BY <1>1 DEF SparesInv, RecentInv
<1>3. KeymapInv(xkb)
  BY DEF TypesInv, KeyboardTypes
<1>4. NoneLost(map, addedKeysyms)
  <2>1. CASE map = xkb
    BY <2>1 DEF SparesInv, NoSpareLost, NoneLost
  <2>2. CASE map = Keymap
    BY <2>2 DEF NoneLost, Spare
  <2>3. CASE \E k \in Spare : map = [xkb EXCEPT ![k].groups = OtherKey.groups]
    <3>1. PICK k \in Spare : map = [xkb EXCEPT ![k].groups = OtherKey.groups]
      BY <2>3
    <3>2. map[k].groups = OtherKey.groups /\ \A j \in Keycodes \ {k} : map[j] = xkb[j]
      BY <1>3, <3>1, OtherKeyIs
    <3> SUFFICES ASSUME NEW j \in Spare, map[j].groups # <<>>, map[j].name = "T", map[j].groups # OtherKey.groups
                 PROVE  \E i \in DOMAIN addedKeysyms : addedKeysyms[i].keycode = j /\ Unmodified(map, addedKeysyms[i])
      BY DEF NoneLost
    <3>3. map[j] = xkb[j]
      BY <3>2, KeycodesAre
    <3>4. PICK i \in DOMAIN addedKeysyms : addedKeysyms[i].keycode = j /\ Unmodified(xkb, addedKeysyms[i])
      BY <3>3 DEF SparesInv, NoSpareLost
    <3>5. Unmodified(map, addedKeysyms[i])
      BY <3>3, <3>4 DEF Unmodified
    <3> QED BY <3>4, <3>5
  <2> QED BY <2>1, <2>2, <2>3 DEF ClientMaps
<1>5. NoSpareLost'
  BY <1>1, <1>4 DEF NoSpareLost, NoneLost
<1> QED BY <1>2, <1>5 DEF SparesInv

LEMMA SparesStep ==
  ASSUME TypesInv, SparesInv, [KbdNext]_kbdVars
  PROVE  SparesInv'
<1>1. CASE UNCHANGED <<xkb, addedKeysyms, typed, remapped>>
  BY <1>1 DEF SparesInv, RecentInv, NoSpareLost
<1>2. ASSUME NEW k \in RawKeys, RawKey(k) PROVE SparesInv'
  BY <1>1, <1>2 DEF RawKey
<1>3. CASE ProcessQueue
  BY <1>1, <1>3 DEF ProcessQueue
<1>4. ASSUME NEW sym \in Characters, TypeSymbol(sym) PROVE SparesInv'
  BY <1>4, SparesTypeSymbol
<1>5. CASE TypeRelease
  BY <1>1, <1>5 DEF TypeRelease
<1>6. CASE \/ \E k \in Spare : OtherClient([xkb EXCEPT ![k].groups = OtherKey.groups], kbd.locked, kbd.group)
           \/ OtherClient(Keymap, kbd.locked, kbd.group)
           \/ \E m \in Modifiers : OtherClient(xkb, Toggled(kbd.locked, {m}), kbd.group)
           \/ \E g \in GroupSet : OtherClient(xkb, kbd.locked, g)
  <2>1. PICK map \in ClientMaps, locked \in SUBSET Modifiers, group \in GroupSet : OtherClient(map, locked, group)
    BY <1>6, OtherClientSteps
  <2> QED BY <2>1, SparesOtherClient
<1>7. CASE UNCHANGED kbdVars
  BY <1>1, <1>7 DEF kbdVars
<1> QED BY <1>2, <1>3, <1>4, <1>5, <1>6, <1>7 DEF KbdNext

\* Until another client changes the keymap, the keycodes of the last characters,
\* as many as there are spare keycodes, still carry what they carried when they
\* were pressed; and whoever changes the keymap, a spare keycode that carries an
\* added symbol is in addedKeysyms, so that it can be used again.
THEOREM SparesStay == KbdSpec => []SparesKept
<1>1. KbdInit => TypesInv /\ SparesInv
  BY TypesInit, SparesInit
<1>2. TypesInv /\ SparesInv /\ [KbdNext]_kbdVars => TypesInv' /\ SparesInv'
  BY TypesStep, SparesStep
<1>3. TypesInv /\ SparesInv => SparesKept
  BY DEF SparesInv, RecentInv, Kept, SparesKept, RecentKept
<1> QED BY <1>1, <1>2, <1>3, PTL DEF KbdSpec

-----------------------------------------------------------------------------
(***************************************************************************)
(* The keys that are down after some events.                               *)
(***************************************************************************)
\* The events of q press or release the keys K, each of them at least once.
About(q, K, b) ==
  /\ q \in Seq(Events) /\ K \in SUBSET Keycodes /\ b \in BOOLEAN
  /\ \A i \in 1..Len(q) : q[i].key \in K /\ q[i].press = b
  /\ \A k \in K : \E i \in 1..Len(q) : q[i].key = k

LEMMA AboutNone == About(<<>>, {}, TRUE)
<1>1. <<>> \in Seq(Events) /\ Len(<<>>) = 0
  OBVIOUS
<1> QED BY <1>1 DEF About

LEMMA AboutEach ==
  ASSUME NEW K \in SUBSET Keycodes, NEW b \in BOOLEAN
  PROVE  About(EventOfEach(K, b), K, b)
<1>1. /\ EventOfEach(K, b) \in Seq(Events)
      /\ DOMAIN EventOfEach(K, b) = 1..Len(EventOfEach(K, b))
      /\ \A i \in 1..Len(EventOfEach(K, b)) : EventOfEach(K, b)[i].key \in K /\ EventOfEach(K, b)[i].press = b
      /\ \A k \in K : \E i \in 1..Len(EventOfEach(K, b)) : EventOfEach(K, b)[i].key = k
  BY EventsAre
<1> DEFINE q == EventOfEach(K, b)
<1> HIDE DEF q
<1> QED BY <1>1 DEF About, q

LEMMA AboutUndo ==
  ASSUME NEW q, NEW K, NEW b, About(q, K, b)
  PROVE  About(Undo(q), K, ~b)
<1>1. q \in Seq(Events) /\ b \in BOOLEAN
  BY DEF About
<1>2. /\ Undo(q) \in Seq(Events) /\ Len(Undo(q)) = Len(q)
      /\ \A i \in 1..Len(q) : Undo(q)[i].key = q[i].key /\ Undo(q)[i].press = ~q[i].press
  BY <1>1, UndoIs
<1> QED BY <1>2 DEF About

\* Events that are about other keys leave a key as it is, and their presses and
\* releases decide about their own.
Decided(dev, d, K, b) ==
  /\ \A k \in Keycodes \ K : k \in DOMAIN d.down <=> k \in DOMAIN dev.down
  /\ \A k \in K : k \in DOMAIN d.down <=> b

LEMMA DecidedIs ==
  ASSUME NEW map, MapOK(map), NEW dev \in Keyboards, NEW q, NEW K, NEW b, About(q, K, b)
  PROVE  Decided(dev, mieqProcessInputEvents(map, dev, q), K, b)
<1> DEFINE L == Len(q)
           after == mieqProcessInputEvents(map, dev, q)
<1>1. /\ q \in Seq(Events) /\ K \in SUBSET Keycodes /\ b \in BOOLEAN /\ L \in Nat
      /\ \A i \in 1..L : q[i] \in Events /\ q[i].key \in K /\ q[i].press = b
      /\ \A k \in K : \E i \in 1..L : q[i].key = k
  BY DEF About
<1>2. ASSUME NEW d \in Keyboards, NEW e \in Events, NEW k \in Keycodes
      PROVE  /\ ProcessKey(map, d, e) \in Keyboards
             /\ k # e.key => (k \in DOMAIN ProcessKey(map, d, e).down <=> k \in DOMAIN d.down)
             /\ k = e.key => (k \in DOMAIN ProcessKey(map, d, e).down <=> e.press)
  <2>1. Processed(map, d, e, ProcessKey(map, d, e), lorieGetKeyboardState(d))
    BY ProcessIs
  <2> QED BY <2>1 DEF Processed
<1> HIDE DEF L, after
<1>3. ASSUME NEW k \in Keycodes \ K PROVE k \in DOMAIN after.down <=> k \in DOMAIN dev.down
  <2> DEFINE T == {d \in Keyboards : k \in DOMAIN d.down <=> k \in DOMAIN dev.down}
             S == [n \in 0..L |-> T]
  <2>1. dev \in S[0] /\ S[L] = T
    BY <1>1
  <2>2. ASSUME NEW n \in 1..L, NEW d \in S[n - 1] PROVE ProcessKey(map, d, q[n]) \in S[n]
    <3>1. d \in T /\ S[n] = T
      BY <1>1
    <3>2. k # q[n].key /\ q[n] \in Events
      BY <1>1
    <3> QED BY <1>2, <3>1, <3>2
  <2> HIDE DEF S
  <2>3. after \in S[L]
    BY <1>1, <2>1, <2>2, RunsWithin DEF after, L
  <2> QED BY <2>1, <2>3
<1>4. ASSUME NEW k \in K PROVE k \in DOMAIN after.down <=> b
  <2>1. PICK m \in 1..L : q[m].key = k
    BY <1>1
  <2> DEFINE S == [n \in 0..L |-> IF n < m THEN Keyboards ELSE {d \in Keyboards : k \in DOMAIN d.down <=> b}]
  <2>2. dev \in S[0] /\ S[L] = {d \in Keyboards : k \in DOMAIN d.down <=> b}
    BY <1>1, <2>1
  <2>3. ASSUME NEW n \in 1..L, NEW d \in S[n - 1] PROVE ProcessKey(map, d, q[n]) \in S[n]
    <3>1. d \in Keyboards /\ q[n] \in Events /\ k \in Keycodes /\ n \in 0..L /\ q[n].press = b
      BY <1>1
    <3>2. n < m \/ n = m \/ (n > m /\ n - 1 >= m)
      BY <1>1
    <3>3. n > m => (k \in DOMAIN d.down <=> b)
      BY <1>1, <3>2
    <3>4. ProcessKey(map, d, q[n]) \in Keyboards
      BY <1>2, <3>1
    <3>5. n >= m => (k \in DOMAIN ProcessKey(map, d, q[n]).down <=> b)
      BY <1>2, <2>1, <3>1, <3>2, <3>3
    <3> QED BY <1>1, <3>1, <3>2, <3>4, <3>5
  <2> HIDE DEF S
  <2>4. after \in S[L]
    BY <1>1, <2>2, <2>3, RunsWithin DEF after, L
  <2> QED BY <2>2, <2>4
<1> QED BY <1>3, <1>4 DEF Decided, after

\* What Fake does: K are the keys it presses or releases, none if it need not.
Faked(f, mask, st, mods, press, release, K, b) ==
  /\ About(f.events, K, b)
  /\ \/ K = {} /\ b = TRUE /\ f.fails = FALSE
        /\ ~(mask \cap st.mods = {} /\ mask \cap mods # {}) /\ ~(mask \cap st.mods # {} /\ mask \cap mods = {})
     \/ K = press /\ b = TRUE /\ f.fails = (press = {}) /\ mask \cap st.mods = {} /\ mask \cap mods # {}
     \/ K = release /\ b = FALSE /\ f.fails = (release = {}) /\ mask \cap st.mods # {} /\ mask \cap mods = {}

LEMMA FakeIs ==
  ASSUME NEW mask, NEW st, NEW mods, NEW press \in SUBSET Keycodes, NEW release \in SUBSET Keycodes
  PROVE  \E K \in SUBSET Keycodes, b \in BOOLEAN :
           Faked(Fake(mask, st, mods, press, release), mask, st, mods, press, release, K, b)
<1> DEFINE f == Fake(mask, st, mods, press, release)
<1>1. ASSUME NEW K \in SUBSET Keycodes, NEW b \in BOOLEAN PROVE About(EventOfEach(K, b), K, b)
  BY AboutEach
<1>2. CASE mask \cap st.mods = {} /\ mask \cap mods # {}
  <2>1. f = [events |-> Presses(press), fails |-> press = {}]
    BY <1>2 DEF Fake
  <2> HIDE DEF f
  <2>2. About(f.events, press, TRUE)
    <3>1. f.events = EventOfEach(press, TRUE)
      BY <2>1 DEF Presses
    <3>2. About(EventOfEach(press, TRUE), press, TRUE)
      BY <1>1
    <3> QED BY <3>1, <3>2
  <2>3. Faked(f, mask, st, mods, press, release, press, TRUE)
    <3>1. f.fails = (press = {})
      BY <2>1
    <3> QED BY <1>2, <2>2, <3>1 DEF Faked
  <2> QED BY <2>3 DEF f
<1>3. CASE mask \cap st.mods # {} /\ mask \cap mods = {}
  <2>1. f = [events |-> Releases(release), fails |-> release = {}]
    BY <1>3 DEF Fake
  <2> HIDE DEF f
  <2>2. About(f.events, release, FALSE)
    <3>1. f.events = EventOfEach(release, FALSE)
      BY <2>1 DEF Releases
    <3>2. About(EventOfEach(release, FALSE), release, FALSE)
      BY <1>1
    <3> QED BY <3>1, <3>2
  <2>3. Faked(f, mask, st, mods, press, release, release, FALSE)
    <3>1. f.fails = (release = {})
      BY <2>1
    <3> QED BY <1>3, <2>2, <3>1 DEF Faked
  <2> QED BY <2>3 DEF f
<1>4. CASE ~(mask \cap st.mods = {} /\ mask \cap mods # {}) /\ ~(mask \cap st.mods # {} /\ mask \cap mods = {})
  <2>1. f.events = <<>> /\ f.fails = FALSE
    BY <1>4 DEF Fake
  <2> HIDE DEF f
  <2>2. Faked(f, mask, st, mods, press, release, {}, TRUE)
    BY <1>4, <2>1, AboutNone DEF Faked
  <2>3. {} \in SUBSET Keycodes /\ TRUE \in BOOLEAN
    OBVIOUS
  <2> QED BY <2>2, <2>3 DEF f
<1> QED BY <1>2, <1>3, <1>4

-----------------------------------------------------------------------------
(***************************************************************************)
(* Keys that set modifiers, in keymaps with plain modifiers.               *)
(***************************************************************************)
\* The modifiers a key of the first keymap sets.
Sets(k) == ModsOf(Keymap, k, FirstState)

LEMMA FirstStateIs == FirstState \in KeyStates
BY KeysymAssumption DEF FirstState, KeyStates

\* A key without actions has no effect; no spare key ever has one.
LEMMA NoActions ==
  ASSUME PlainModifiers, NEW map, KeymapInv(map), NEW k \in Spare, NEW st \in KeyStates
  PROVE  XkbKeyActionPtr(map[k], st) = NoEffect
<1> DEFINE key == map[k]
           g   == key.groups[XkbKeyEffectiveGroup(key, st)]
<1>1. KeyOK(key) /\ key.groups \in {<<>>, OtherKey.groups} \cup {<<AddedGroup(sym)>> : sym \in Characters}
  BY KeycodesAre DEF KeymapInv, MapOK
<1>2. CASE key.groups = <<>>
  BY <1>2 DEF XkbKeyActionPtr
<1>3. CASE key.groups # <<>>
  <2>1. XkbKeyEffectiveGroup(key, st) \in DOMAIN key.groups
    BY <1>1, <1>3, GroupIs
  <2>2. g.acts = <<>>
    <3>1. CASE key.groups = OtherKey.groups
      BY <2>1, <3>1 DEF PlainModifiers
    <3>2. CASE \E sym \in Characters : key.groups = <<AddedGroup(sym)>>
      <4>1. PICK sym \in Characters : key.groups = <<AddedGroup(sym)>>
        BY <3>2
      <4>2. XkbKeyEffectiveGroup(key, st) = 1
        BY <2>1, <4>1
      <4>3. g = AddedGroup(sym)
        BY <4>1, <4>2
      <4> QED BY <4>3, AddedGroupIs
    <3> QED BY <1>1, <1>3, <3>1, <3>2
  <2> QED BY <1>3, <2>2 DEF XkbKeyActionPtr
<1> QED BY <1>2, <1>3

\* A key sets the same modifiers whatever happened to the keymap, and in every
\* state.
PlainKey(map, k, st) ==
  /\ ModsOf(map, k, st) = Sets(k)
  /\ k \in Spare => PressMods(map[k], st) = {} /\ Sets(k) = {}
  /\ Sets(k) # {} => PressMods(map[k], st) = Sets(k) /\ LockOf(map[k], st) = {}
  /\ k \notin Spare => map[k] = Keymap[k]

LEMMA PlainKeyIs ==
  ASSUME PlainModifiers, NEW map, KeymapInv(map), NEW k \in Keycodes, NEW st \in KeyStates
  PROVE  PlainKey(map, k, st)
<1>1. k # NoKey
  BY KeycodesAre
<1>2. Sets(k) = ModsOf(Keymap, k, st)
  BY DEF PlainModifiers, Sets
<1>3. CASE k \in Spare
  <2>1. XkbKeyActionPtr(map[k], st) = NoEffect /\ XkbKeyActionPtr(Keymap[k], st) = NoEffect
    BY <1>3, KeymapIs, NoActions
  <2>2. ModsOf(map, k, st) = {} /\ ModsOf(Keymap, k, st) = {} /\ PressMods(map[k], st) = {}
    BY <2>1, <1>1 DEF ModsOf, ActMods, NoEffect, PressMods
  <2> QED BY <1>2, <1>3, <2>2 DEF PlainKey
<1>4. CASE k \notin Spare
  <2>1. map[k] = Keymap[k]
    BY <1>4 DEF KeymapInv
  <2>2. ModsOf(map, k, st) = Sets(k)
    BY <1>2, <2>1 DEF ModsOf
  <2>3. Sets(k) # {} => XkbKeyActionPtr(map[k], st).type = "SetMods"
    BY <1>1, <2>2 DEF ModsOf, ActMods
  <2>4. Sets(k) # {} => PressMods(map[k], st) = Sets(k) /\ LockOf(map[k], st) = {}
    BY <1>1, <2>2, <2>3 DEF ModsOf, ActMods, PressMods, LockOf
  <2> QED BY <1>4, <2>1, <2>2, <2>4 DEF PlainKey
<1> QED BY <1>3, <1>4

\* The keys down that set modifiers set those of the first keymap.
DevPlain(d) ==
  \A k \in DOMAIN d.down : Sets(k) # {} => d.down[k] = [set |-> Sets(k), unlock |-> {}]

LEMMA PlainStep ==
  ASSUME PlainModifiers, NEW map, KeymapInv(map), NEW d \in Keyboards, DevPlain(d), NEW e \in Events
  PROVE  ProcessKey(map, d, e) \in Keyboards /\ DevPlain(ProcessKey(map, d, e))
<1> DEFINE x  == ProcessKey(map, d, e)
           st == lorieGetKeyboardState(d)
<1>1. MapOK(map)
  BY DEF KeymapInv
<1>2. Processed(map, d, e, x, st)
  BY <1>1, ProcessIs
<1>3. st \in KeyStates
  BY StateIs
<1> HIDE DEF x, st
<1>4. x \in Keyboards
  BY <1>2 DEF Processed
<1>5. ASSUME NEW k \in DOMAIN x.down, Sets(k) # {} PROVE x.down[k] = [set |-> Sets(k), unlock |-> {}]
  <2>1. CASE k \in DOMAIN d.down
    BY <1>2, <1>5, <2>1 DEF Processed, DevPlain
  <2>2. CASE k \notin DOMAIN d.down
    <3>1. k \in Keycodes /\ x.down[k] \in Effects
      BY <1>4, DevicesAre
    <3>2. PlainKey(map, k, st)
      BY <1>3, <3>1, PlainKeyIs
    <3>3. x.down[k].set = Sets(k) /\ x.down[k].unlock \subseteq {}
      BY <1>2, <1>5, <2>2, <3>2 DEF Processed, PlainKey
    <3> QED BY <3>1, <3>3 DEF Effects
  <2> QED BY <2>1, <2>2
<1> QED BY <1>4, <1>5 DEF DevPlain, x

LEMMA PlainRun ==
  ASSUME PlainModifiers, NEW map, KeymapInv(map), NEW dev \in Keyboards, DevPlain(dev), NEW q \in Seq(Events)
  PROVE  DevPlain(mieqProcessInputEvents(map, dev, q))
<1> DEFINE S == {d \in Keyboards : DevPlain(d)}
<1>1. ASSUME NEW d \in S, NEW e \in Events PROVE ProcessKey(map, d, e) \in S
  BY PlainStep
<1>2. dev \in S
  OBVIOUS
<1> HIDE DEF S
<1>3. mieqProcessInputEvents(map, dev, q) \in S
  BY <1>1, <1>2, RunsIn
<1> QED BY <1>3 DEF S

\* Which keys are down after some events depends neither on the keymap nor on
\* anything but the keys that were down before.
LEMMA SameKeys ==
  ASSUME NEW map1, MapOK(map1), NEW map2, MapOK(map2), NEW dev1 \in Keyboards, NEW dev2 \in Keyboards,
         DOMAIN dev1.down = DOMAIN dev2.down, NEW q \in Seq(Events)
  PROVE  DOMAIN mieqProcessInputEvents(map1, dev1, q).down = DOMAIN mieqProcessInputEvents(map2, dev2, q).down
<1> DEFINE L == Len(q)
<1>0. L \in Nat /\ \A i \in 1..L : q[i] \in Events
  OBVIOUS
<1>1. ASSUME NEW map, MapOK(map), NEW d \in Keyboards, NEW e \in Events, NEW k \in Keycodes
      PROVE  /\ ProcessKey(map, d, e) \in Keyboards
             /\ k # e.key => (k \in DOMAIN ProcessKey(map, d, e).down <=> k \in DOMAIN d.down)
             /\ k = e.key => (k \in DOMAIN ProcessKey(map, d, e).down <=> e.press)
  <2>1. Processed(map, d, e, ProcessKey(map, d, e), lorieGetKeyboardState(d))
    BY <1>1, ProcessIs
  <2> QED BY <2>1 DEF Processed
\* The last event about a key decides.
<1>2. ASSUME NEW map, MapOK(map), NEW dev \in Keyboards, NEW k \in Keycodes, NEW m \in 1..L, q[m].key = k,
             \A i \in 1..L : i > m => q[i].key # k
      PROVE  k \in DOMAIN mieqProcessInputEvents(map, dev, q).down <=> q[m].press
  <2> DEFINE T == {d \in Keyboards : k \in DOMAIN d.down <=> q[m].press}
             S == [n \in 0..L |-> IF n < m THEN Keyboards ELSE T]
  <2>1. dev \in S[0] /\ S[L] = T
    BY <1>0, <1>2
  <2>2. ASSUME NEW n \in 1..L, NEW d \in S[n - 1] PROVE ProcessKey(map, d, q[n]) \in S[n]
    <3>1. d \in Keyboards /\ q[n] \in Events /\ n \in 0..L /\ n - 1 \in 0..L
      BY <1>0
    <3>2. n < m \/ n = m \/ (n > m /\ n - 1 >= m)
      BY <1>0
    <3>3. n > m => (k \in DOMAIN d.down <=> q[m].press) /\ q[n].key # k
      BY <1>0, <1>2, <3>1, <3>2
    <3>4. ProcessKey(map, d, q[n]) \in Keyboards
      BY <1>1, <1>2, <3>1
    <3>5. /\ k # q[n].key => (k \in DOMAIN ProcessKey(map, d, q[n]).down <=> k \in DOMAIN d.down)
          /\ k = q[n].key => (k \in DOMAIN ProcessKey(map, d, q[n]).down <=> q[n].press)
      BY <1>1, <1>2, <3>1
    <3>6. n > m => (k \in DOMAIN ProcessKey(map, d, q[n]).down <=> q[m].press)
      BY <3>3, <3>5
    <3>7. n = m => (k \in DOMAIN ProcessKey(map, d, q[n]).down <=> q[m].press)
      BY <1>2, <3>5
    <3> QED BY <1>0, <3>1, <3>2, <3>4, <3>6, <3>7
  <2> HIDE DEF S
  <2>3. mieqProcessInputEvents(map, dev, q) \in S[L]
    BY <2>1, <2>2, RunsWithin
  <2> QED BY <2>1, <2>3
\* A key that no event is about stays as it is.
<1>3. ASSUME NEW map, MapOK(map), NEW dev \in Keyboards, NEW k \in Keycodes, \A i \in 1..L : q[i].key # k
      PROVE  k \in DOMAIN mieqProcessInputEvents(map, dev, q).down <=> k \in DOMAIN dev.down
  <2> DEFINE T == {d \in Keyboards : k \in DOMAIN d.down <=> k \in DOMAIN dev.down}
             S == [n \in 0..L |-> T]
  <2>1. dev \in S[0] /\ S[L] = T
    BY <1>0, <1>3
  <2>2. ASSUME NEW n \in 1..L, NEW d \in S[n - 1] PROVE ProcessKey(map, d, q[n]) \in S[n]
    <3>1. d \in T /\ S[n] = T /\ k # q[n].key /\ q[n] \in Events
      BY <1>0, <1>3
    <3> QED BY <1>1, <1>3, <3>1
  <2> HIDE DEF S
  <2>3. mieqProcessInputEvents(map, dev, q) \in S[L]
    BY <2>1, <2>2, RunsWithin
  <2> QED BY <2>1, <2>3
<1> DEFINE a == mieqProcessInputEvents(map1, dev1, q)
           b == mieqProcessInputEvents(map2, dev2, q)
<1>4. a \in Keyboards /\ b \in Keyboards
  BY RunType
<1>5. DOMAIN a.down \in SUBSET Keycodes /\ DOMAIN b.down \in SUBSET Keycodes
  <2> HIDE DEF a, b
  <2> QED BY <1>4, DevicesAre
<1>6. ASSUME NEW k \in Keycodes PROVE k \in DOMAIN a.down <=> k \in DOMAIN b.down
  <2> DEFINE about == {i \in 1..L : q[i].key = k}
  <2>1. CASE about = {}
    <3>1. \A i \in 1..L : q[i].key # k
      BY <2>1
    <3> QED BY <1>3, <3>1
  <2>2. CASE about # {}
    <3>1. PICK m \in about : \A i \in about : m >= i
      <4>1. about \in SUBSET Nat /\ \A i \in about : i <= L
        BY <1>0
      <4> HIDE DEF about
      <4>2. Max(about) \in about /\ \A i \in about : Max(about) >= i
        BY <1>0, <2>2, <4>1, MaxIs
      <4> QED BY <4>2
    <3>2. \A i \in 1..L : i > m => q[i].key # k
      BY <3>1, <1>0
    <3>3. m \in 1..L /\ q[m].key = k
      BY <3>1
    <3> QED BY <1>2, <3>2, <3>3
  <2> QED BY <2>1, <2>2
<1> HIDE DEF a, b
<1>7. DOMAIN a.down = DOMAIN b.down
  BY <1>5, <1>6
<1> QED BY <1>7 DEF a, b

\* The keys of level three set just that, if they set anything.
LevelThreePlain(map, st) ==
  /\ \A k \in loriePressLevelThree(map, st) : Sets(k) = {"Level3"}
  /\ lorieGetLevelThreeMask(map, st) \in {{}, {"Level3"}}

LEMMA LevelThreeIs ==
  ASSUME PlainModifiers, NEW map, KeymapInv(map), NEW st \in KeyStates
  PROVE  LevelThreePlain(map, st)
<1>1. ASSUME NEW s \in KeyStates, NEW k, k = LevelThreeKey(map, s), k # NoKey
      PROVE  k \in Keycodes /\ SymbolSeen(map[k], s) \in LevelThreeSymbols
  <2> DEFINE f == <<[key |-> KeyInState(map, "ISO_Level3_Shift", s)],
                    [key |-> KeyInState(map, "Mode_switch", s)]>>
  <2>1. DOMAIN f = 1..2 /\ \A i \in 1..2 : f[i].key # NoKey =>
          f[i].key \in Keycodes /\ SymbolSeen(map[f[i].key], s) \in LevelThreeSymbols
    <3>1. ASSUME NEW sym \in LevelThreeSymbols, NEW j, j = KeyInState(map, sym, s), j # NoKey
          PROVE  j \in Keycodes /\ SymbolSeen(map[j], s) \in LevelThreeSymbols
      BY <3>1, KeyInStateIs
    <3>2. "ISO_Level3_Shift" \in LevelThreeSymbols /\ "Mode_switch" \in LevelThreeSymbols
      BY DEF LevelThreeSymbols
    <3> QED BY <3>1, <3>2
  <2>2. k = FirstFound(f, [key |-> NoKey]).key
    BY <1>1 DEF LevelThreeKey
  <2> HIDE DEF f
  <2>3. \/ FirstFound(f, [key |-> NoKey]) = [key |-> NoKey]
        \/ \E i \in 1..2 : FirstFound(f, [key |-> NoKey]) = f[i]
    <3>1. 2 \in Nat
      OBVIOUS
    <3> QED BY <3>1, <2>1, FirstFoundIs
  <2> QED BY <1>1, <2>1, <2>2, <2>3
<1>2. ASSUME NEW s \in KeyStates, NEW k \in Keycodes \ Spare, SymbolSeen(map[k], s) \in LevelThreeSymbols,
             XkbKeyActionPtr(map[k], s).type = "SetMods"
      PROVE  Sets(k) = {"Level3"}
  <2>1. map[k] = Keymap[k]
    BY DEF KeymapInv
  <2>2. ModsOf(Keymap, k, s) = {"Level3"} /\ ModsOf(Keymap, k, s) = Sets(k)
    BY <1>2, <2>1 DEF PlainModifiers, Sets
  <2> QED BY <2>2
<1>3. ASSUME NEW k \in loriePressLevelThree(map, st) PROVE Sets(k) = {"Level3"}
  <2>1. k = LevelThreeKey(map, st) /\ k # NoKey /\ XkbKeyActionPtr(map[k], st).type = "SetMods"
    BY DEF loriePressLevelThree, IfSets
  <2>2. k \in Keycodes /\ SymbolSeen(map[k], st) \in LevelThreeSymbols
    BY <1>1, <2>1
  <2>3. k \notin Spare
    BY <2>1, NoActions DEF NoEffect
  <2> QED BY <1>2, <2>1, <2>2, <2>3
<1>4. lorieGetLevelThreeMask(map, st) \in {{}, {"Level3"}}
  <2> DEFINE s == NoMods(st)
             k == LevelThreeKey(map, s)
             mask == lorieGetLevelThreeMask(map, st)
  <2>1. s \in KeyStates
    BY DEF NoMods, KeyStates
  <2>2. mask = ModsOf(map, k, s)
    BY DEF lorieGetLevelThreeMask
  <2>3. k # NoKey => k \in Keycodes /\ SymbolSeen(map[k], s) \in LevelThreeSymbols
    BY <1>1, <2>1
  <2> HIDE DEF s, k, mask
  <2>4. CASE k = NoKey
    BY <2>2, <2>4 DEF ModsOf, mask
  <2>5. CASE k # NoKey
    <3>1. PlainKey(map, k, s)
      BY <2>1, <2>3, <2>5, PlainKeyIs
    <3>2. mask = Sets(k) /\ (k \in Spare => mask = {})
      BY <2>2, <3>1 DEF PlainKey
    <3>3. mask = {} \/ XkbKeyActionPtr(map[k], s).type = "SetMods"
      BY <2>2, <2>5 DEF ModsOf, ActMods
    <3> QED BY <1>2, <2>1, <2>3, <2>5, <3>2, <3>3 DEF mask
  <2> QED BY <2>4, <2>5
<1> QED BY <1>3, <1>4 DEF LevelThreePlain

\* The keys that are faked set modifiers; those pressed were not down, and those
\* released were.
KeysFaked(dev, q, K, b) ==
  /\ About(q, K, b)
  /\ \A k \in K : Sets(k) # {} /\ (k \in DOMAIN dev.down <=> ~b)

\* The keys to press and to release for a modifier.
FakeChoice(dev, mask, press, release) ==
  /\ press \in SUBSET Keycodes /\ release \in SUBSET Keycodes
  /\ mask # {} => \A k \in press : mask \cap Sets(k) # {}
  /\ mask # {} => \A k \in release : Sets(k) # {} /\ k \in DOMAIN dev.down

LEMMA FakeKeysAre ==
  ASSUME NEW dev \in Keyboards, DevPlain(dev), NEW st, st = lorieGetKeyboardState(dev), NEW mods,
         NEW mask, NEW press, NEW release, FakeChoice(dev, mask, press, release),
         NEW f, f = Fake(mask, st, mods, press, release)
  PROVE  \E K \in SUBSET Keycodes : \E b \in BOOLEAN :
           Faked(f, mask, st, mods, press, release, K, b) /\ KeysFaked(dev, f.events, K, b)
<1>1. press \in SUBSET Keycodes /\ release \in SUBSET Keycodes
  BY DEF FakeChoice
<1>2. PICK K \in SUBSET Keycodes, b \in BOOLEAN : Faked(f, mask, st, mods, press, release, K, b)
  BY <1>1, FakeIs
<1>3. \A k \in DOMAIN dev.down : dev.down[k].set \subseteq st.mods
  BY DEF lorieGetKeyboardState
<1>4. ASSUME NEW k \in K PROVE Sets(k) # {} /\ (k \in DOMAIN dev.down <=> ~b)
  <2>1. CASE K = press /\ b = TRUE /\ mask \cap st.mods = {} /\ mask \cap mods # {}
    <3>1. mask \cap Sets(k) # {}
      BY <2>1 DEF FakeChoice
    <3>2. k \in DOMAIN dev.down => dev.down[k].set = Sets(k)
      <4>1. Sets(k) # {}
        BY <3>1
      <4>2. k \in DOMAIN dev.down => dev.down[k] = [set |-> Sets(k), unlock |-> {}]
        BY <4>1 DEF DevPlain
      <4> QED BY <4>2
    <3> QED BY <1>3, <2>1, <3>1, <3>2
  <2>2. CASE K = release /\ b = FALSE /\ mask \cap st.mods # {}
    BY <2>2 DEF FakeChoice
  <2> QED BY <1>2, <2>1, <2>2 DEF Faked
<1>5. KeysFaked(dev, f.events, K, b)
  BY <1>2, <1>4 DEF KeysFaked, Faked
<1> QED BY <1>2, <1>5

LEMMA HoldingIs ==
  ASSUME PlainModifiers, NEW map, KeymapInv(map), NEW dev \in Keyboards, NEW st \in KeyStates, NEW mods
  PROVE  /\ KeysHolding(map, dev, st, mods) \in SUBSET Keycodes
         /\ \A k \in KeysHolding(map, dev, st, mods) : k \in DOMAIN dev.down /\ Sets(k) \cap mods # {}
         /\ KeysHolding(map, dev, st, mods) # {} =>
              \A k \in DOMAIN dev.down : Sets(k) \cap mods # {} => k \in KeysHolding(map, dev, st, mods)
<1>1. DOMAIN dev.down \in SUBSET Keycodes
  BY DevicesAre
<1>2. \A k \in DOMAIN dev.down : ModsOf(map, k, st) = Sets(k)
  BY <1>1, PlainKeyIs DEF PlainKey
<1> QED BY <1>1, <1>2 DEF KeysHolding

\* Shift is one mask, level three the other.
ShiftFaked(map, dev, st, mods, f, K, b) ==
  /\ Faked(f, {"Shift"}, st, mods, loriePressShift(map, st), lorieReleaseShift(map, dev, st), K, b)
  /\ KeysFaked(dev, f.events, K, b)

LevelThreeFaked(map, dev, st, mods, f, K, b) ==
  /\ Faked(f, IF mods \ {"Shift"} = st.mods \ {"Shift"} THEN {} ELSE lorieGetLevelThreeMask(map, st),
           st, mods, loriePressLevelThree(map, st), lorieReleaseLevelThree(map, dev, st), K, b)
  /\ KeysFaked(dev, f.events, K, b)

LEMMA ShiftFakedIs ==
  ASSUME PlainModifiers, NEW map, KeymapInv(map), NEW dev \in Keyboards, DevPlain(dev),
         NEW st, st = lorieGetKeyboardState(dev), NEW mods, NEW f, f = FakeShift(map, dev, st, mods)
  PROVE  \E K \in SUBSET Keycodes : \E b \in BOOLEAN : ShiftFaked(map, dev, st, mods, f, K, b)
<1> DEFINE mask == {"Shift"}
           press == loriePressShift(map, st)
           release == lorieReleaseShift(map, dev, st)
<1>1. st \in KeyStates
  BY StateIs
<1>2. press \in SUBSET Keycodes /\ \A k \in press : "Shift" \in ModsOf(map, k, st)
  BY ShiftKeyIs
<1>3. \A k \in press : mask \cap Sets(k) # {}
  BY <1>1, <1>2, PlainKeyIs DEF PlainKey
<1>4. release \in SUBSET Keycodes /\ \A k \in release : k \in DOMAIN dev.down /\ Sets(k) # {}
  BY <1>1, HoldingIs DEF lorieReleaseShift
<1>5. f = Fake(mask, st, mods, press, release)
  BY DEF FakeShift
<1> HIDE DEF press, release, mask
<1>6. FakeChoice(dev, mask, press, release)
  BY <1>2, <1>3, <1>4 DEF FakeChoice
<1>7. PICK K \in SUBSET Keycodes, b \in BOOLEAN :
        Faked(f, mask, st, mods, press, release, K, b) /\ KeysFaked(dev, f.events, K, b)
  BY <1>5, <1>6, FakeKeysAre
<1>8. ShiftFaked(map, dev, st, mods, f, K, b)
  BY <1>7 DEF ShiftFaked, mask, press, release
<1> QED BY <1>8

LEMMA LevelThreeFakedIs ==
  ASSUME PlainModifiers, NEW map, KeymapInv(map), NEW dev \in Keyboards, DevPlain(dev),
         NEW st, st = lorieGetKeyboardState(dev), NEW mods, NEW f, f = FakeLevelThree(map, dev, st, mods)
  PROVE  \E K \in SUBSET Keycodes : \E b \in BOOLEAN : LevelThreeFaked(map, dev, st, mods, f, K, b)
<1> DEFINE l3 == lorieGetLevelThreeMask(map, st)
           mask == IF mods \ {"Shift"} = st.mods \ {"Shift"} THEN {} ELSE l3
           press == loriePressLevelThree(map, st)
           release == lorieReleaseLevelThree(map, dev, st)
<1>1. st \in KeyStates /\ MapOK(map)
  BY StateIs DEF KeymapInv
<1>2. LevelThreePlain(map, st)
  BY <1>1, LevelThreeIs
<1>3. press \in SUBSET Keycodes
  BY <1>1, MaskIs DEF loriePressLevelThree, IfSets
<1>4. mask # {} => \A k \in press : mask \cap Sets(k) # {}
  BY <1>2 DEF LevelThreePlain
<1>5. release \in SUBSET Keycodes /\ \A k \in release : k \in DOMAIN dev.down /\ Sets(k) # {}
  BY <1>1, HoldingIs DEF lorieReleaseLevelThree
<1>6. f = Fake(mask, st, mods, press, release)
  BY DEF FakeLevelThree
<1> HIDE DEF press, release, mask
<1>7. FakeChoice(dev, mask, press, release)
  BY <1>3, <1>4, <1>5 DEF FakeChoice
<1>8. PICK K \in SUBSET Keycodes, b \in BOOLEAN :
        Faked(f, mask, st, mods, press, release, K, b) /\ KeysFaked(dev, f.events, K, b)
  BY <1>6, <1>7, FakeKeysAre
<1>9. LevelThreeFaked(map, dev, st, mods, f, K, b)
  BY <1>8 DEF LevelThreeFaked, mask, press, release
<1> QED BY <1>9

\* The key of a character sets no modifier, and yields the character or one that
\* means the same with the modifiers that were found for it.
KeyFor(map, sym, st, r) ==
  r.key # NoKey =>
    /\ r.key \in Keycodes /\ Sets(r.key) = {}
    /\ r.mods \in TrySet(st.mods, lorieGetLevelThreeMask(map, st))
    /\ SymbolSeen(map[r.key], With(st, r.mods)) \in Meanings(sym)

LEMMA KeyForIs ==
  ASSUME PlainModifiers, NEW map, KeymapInv(map), NEW sym \in Characters, NEW s \in Meanings(sym),
         NEW st \in KeyStates, NEW r, r = lorieKeysymToKeycode(map, s, st)
  PROVE  KeyFor(map, sym, st, r)
<1> SUFFICES ASSUME r.key # NoKey PROVE KeyFor(map, sym, st, r)
  BY DEF KeyFor
<1> DEFINE l3 == lorieGetLevelThreeMask(map, st)
           tries == TrySet(st.mods, l3)
<1>1. MapOK(map)
  BY DEF KeymapInv
<1>2. l3 \in SUBSET Modifiers /\ st.mods \in SUBSET Modifiers
  BY <1>1, MaskIs DEF KeyStates
<1>3. tries \subseteq SUBSET Modifiers
  BY <1>2, TriesAre
<1> HIDE DEF tries
<1>4. r.mods \in tries /\ r.key = KeyInState(map, s, With(st, r.mods))
  BY <1>1, KeycodeIs DEF tries
<1>5. With(st, r.mods) \in KeyStates
  BY <1>3, <1>4, WithIs
<1>6. \A x : KeyInState(map, s, x) # NoKey => SymbolSeen(map[KeyInState(map, s, x)], x) = s
  BY KeyInStateIs
<1>7. r.key \in Keycodes /\ SymbolSeen(map[r.key], With(st, r.mods)) = s
  <2>1. \A x : KeyInState(map, s, x) \in Keycodes \cup {NoKey}
    BY KeyInStateIs
  <2> QED BY <1>4, <1>6, <2>1
<1>8. Sets(r.key) = {}
  <2>1. PlainKey(map, r.key, With(st, r.mods))
    BY <1>5, <1>7, PlainKeyIs
  <2>2. CASE r.key \in Spare
    BY <2>1, <2>2 DEF PlainKey
  <2>3. CASE r.key \notin Spare
    <3>1. map[r.key] = Keymap[r.key]
      BY <2>1, <2>3 DEF PlainKey
    <3>2. ModsOf(Keymap, r.key, With(st, r.mods)) = {}
      <4>1. SymbolSeen(Keymap[r.key], With(st, r.mods)) \in Meanings(sym)
        BY <1>7, <3>1
      <4> QED BY <1>5, <1>7, <4>1 DEF PlainModifiers
    <3>3. ModsOf(Keymap, r.key, With(st, r.mods)) = Sets(r.key)
      BY <1>5, <1>7 DEF PlainModifiers, Sets
    <3> QED BY <3>2, <3>3
  <2> QED BY <2>2, <2>3
<1> QED BY <1>4, <1>7, <1>8 DEF KeyFor, tries

\* What was planned for a character: mods are the modifiers it needs, Ks and Kl
\* the keys that are pressed or released for Shift and for level three.
Fakes(p, sym, dev, st, mods, Ks, bs, Kl, bl) ==
  /\ ShiftFaked(p.map, dev, st, mods, p.shift, Ks, bs)
  /\ LevelThreeFaked(p.map, dev, st, mods, p.level3, Kl, bl)
  /\ p.key # NoKey => p.key \in Keycodes /\ Sets(p.key) = {}
  /\ p.key # NoKey /\ sym # "Tab" =>
       /\ mods \in TrySet(st.mods, lorieGetLevelThreeMask(p.map, st))
       /\ SymbolSeen(p.map[p.key], With(st, mods)) \in Meanings(sym)

LEMMA FakesAre ==
  ASSUME PlainModifiers, NEW map, NEW list, NEW sym \in Characters, NEW dev \in Keyboards, DevPlain(dev),
         NEW st, st = lorieGetKeyboardState(dev), NEW p, PlanFor(map, list, sym, dev, st, p)
  PROVE  \E mods : \E Ks \in SUBSET Keycodes, bs \in BOOLEAN, Kl \in SUBSET Keycodes, bl \in BOOLEAN :
           Fakes(p, sym, dev, st, mods, Ks, bs, Kl, bl)
<1>1. PICK w, r : /\ FoundFor(map, list, sym, st, w)
                  /\ r = w.found \/ IsFor(w.map, sym, st, r)
                  /\ p.map = w.map /\ p.key = r.key
                  /\ p.shift = FakeShift(w.map, dev, st, KeepShift(sym, st, r).mods)
                  /\ p.level3 = FakeLevelThree(w.map, dev, st, KeepShift(sym, st, r).mods)
  BY DEF PlanFor
<1> DEFINE new == w.map
           mods == KeepShift(sym, st, r).mods
<1>2. KeymapInv(new) /\ st \in KeyStates
  BY <1>1, StateIs DEF FoundFor
<1>3. PICK s \in Meanings(sym) : r = lorieKeysymToKeycode(new, s, st)
  <2>1. CASE r = w.found
    <3>1. sym \in Meanings(sym)
      BY DEF Meanings
    <3> QED BY <1>1, <2>1, <3>1 DEF FoundFor, IsFor, Added
  <2>2. CASE IsFor(w.map, sym, st, r)
    BY <2>2 DEF IsFor
  <2> QED BY <1>1, <2>1, <2>2
<1>4. sym # "Tab" => mods = r.mods
  BY DEF KeepShift
<1>5. p.map = new /\ p.shift = FakeShift(new, dev, st, mods) /\ p.level3 = FakeLevelThree(new, dev, st, mods)
  BY <1>1
<1> HIDE DEF new, mods
<1>6. KeyFor(new, sym, st, r)
  BY <1>2, <1>3, KeyForIs
<1>7. PICK Ks \in SUBSET Keycodes, bs \in BOOLEAN : ShiftFaked(new, dev, st, mods, p.shift, Ks, bs)
  BY <1>2, <1>5, ShiftFakedIs
<1>8. PICK Kl \in SUBSET Keycodes, bl \in BOOLEAN : LevelThreeFaked(new, dev, st, mods, p.level3, Kl, bl)
  BY <1>2, <1>5, LevelThreeFakedIs
<1>9. Fakes(p, sym, dev, st, mods, Ks, bs, Kl, bl)
  BY <1>1, <1>4, <1>5, <1>6, <1>7, <1>8 DEF Fakes, KeyFor
<1> QED BY <1>9

\* After the press of a character and the undoing of what was faked for it, the
\* keys that were down before are down, and the key of the character.
Pressing(w, dev, faked, d) ==
  /\ faked = mieqProcessInputEvents(w.map, dev, w.shift.events \o w.level3.events)
  /\ d = mieqProcessInputEvents(w.map, faked,
           <<[key |-> w.key, press |-> TRUE]>> \o Undo(w.level3.events) \o Undo(w.shift.events))

AddsKey(dev, d, key) ==
  \A k \in Keycodes : k \in DOMAIN d.down <=> k \in DOMAIN dev.down \/ k = key

LEMMA PressedIs ==
  ASSUME NEW w, PlanTypes(w), w.key \in Keycodes, Sets(w.key) = {}, NEW dev \in Keyboards,
         NEW Ks, NEW bs, KeysFaked(dev, w.shift.events, Ks, bs),
         NEW Kl, NEW bl, KeysFaked(dev, w.level3.events, Kl, bl),
         NEW faked, NEW d, Pressing(w, dev, faked, d)
  PROVE  AddsKey(dev, d, w.key)
<1> DEFINE map == w.map
           s == w.shift.events
           l == w.level3.events
           us == Undo(s)
           ul == Undo(l)
           pr == <<[key |-> w.key, press |-> TRUE]>>
           Run(x, q) == mieqProcessInputEvents(map, x, q)
<1>1. About(s, Ks, bs) /\ About(l, Kl, bl) /\ MapOK(map)
  BY DEF KeysFaked, PlanTypes, KeymapInv
<1>2. About(us, Ks, ~bs) /\ About(ul, Kl, ~bl)
  <2> HIDE DEF s, l
  <2> QED BY <1>1, AboutUndo
<1>3. About(pr, {w.key}, TRUE)
  <2>1. pr \in Seq(Events) /\ Len(pr) = 1 /\ pr[1] = [key |-> w.key, press |-> TRUE]
    BY DEF Events
  <2> HIDE DEF pr
  <2> QED BY <2>1 DEF About
<1>4. faked = Run(dev, s \o l) /\ d = Run(faked, pr \o ul \o us)
  BY DEF Pressing
<1>5. \A k \in Ks : Sets(k) # {} /\ (k \in DOMAIN dev.down <=> ~bs)
  BY DEF KeysFaked
<1>6. \A k \in Kl : Sets(k) # {} /\ (k \in DOMAIN dev.down <=> ~bl)
  BY DEF KeysFaked
<1> HIDE DEF map, s, l, us, ul, pr
<1>7. \A x : \A a \in Seq(Events) : \A b \in Seq(Events) : Run(x, a \o b) = Run(Run(x, a), b)
  BY RunConcat
<1>8. \A x \in Keyboards : \A q \in Seq(Events) : Run(x, q) \in Keyboards
  BY <1>1, RunType
<1>9. \A x \in Keyboards : \A q, K, b : About(q, K, b) => Decided(x, Run(x, q), K, b)
  BY <1>1, DecidedIs
<1> HIDE DEF Run
<1> DEFINE d1 == Run(dev, s)
           d2 == Run(d1, l)
           d3 == Run(d2, pr)
           d4 == Run(d3, ul)
           d5 == Run(d4, us)
<1>10. s \in Seq(Events) /\ l \in Seq(Events) /\ us \in Seq(Events) /\ ul \in Seq(Events) /\ pr \in Seq(Events)
  BY <1>1, <1>2, <1>3 DEF About
<1>11. d1 \in Keyboards /\ d2 \in Keyboards /\ d3 \in Keyboards /\ d4 \in Keyboards
  BY <1>8, <1>10
<1>12. faked = d2 /\ d = d5
  <2>1. pr \o ul \in Seq(Events)
    BY <1>10
  <2>2. Run(dev, s \o l) = Run(Run(dev, s), l)
    BY <1>7, <1>10
  <2>3. Run(faked, pr \o ul \o us) = Run(Run(faked, pr \o ul), us)
    BY <1>7, <1>10, <2>1
  <2>4. Run(faked, pr \o ul) = Run(Run(faked, pr), ul)
    BY <1>7, <1>10
  <2> QED BY <1>4, <2>2, <2>3, <2>4
<1>13. /\ Decided(dev, d1, Ks, bs) /\ Decided(d1, d2, Kl, bl) /\ Decided(d2, d3, {w.key}, TRUE)
       /\ Decided(d3, d4, Kl, ~bl) /\ Decided(d4, d5, Ks, ~bs)
  BY <1>1, <1>2, <1>3, <1>9, <1>11
<1> HIDE DEF d1, d2, d3, d4, d5
<1>14. w.key \notin Ks /\ w.key \notin Kl
  BY <1>5, <1>6
<1>15. bs \in BOOLEAN /\ bl \in BOOLEAN
  BY <1>1 DEF About
<1> SUFFICES ASSUME NEW k \in Keycodes
             PROVE  k \in DOMAIN d5.down <=> k \in DOMAIN dev.down \/ k = w.key
  BY <1>12 DEF AddsKey
<1>16. CASE k \in Ks
  BY <1>5, <1>13, <1>14, <1>15, <1>16 DEF Decided
<1>17. CASE k \notin Ks /\ k \in Kl
  BY <1>6, <1>13, <1>14, <1>15, <1>17 DEF Decided
<1>18. CASE k \notin Ks /\ k \notin Kl
  BY <1>13, <1>18 DEF Decided
<1> QED BY <1>16, <1>17, <1>18

-----------------------------------------------------------------------------
(***************************************************************************)
(* The keys that are down are those the user holds.                        *)
(***************************************************************************)
\* At most one key is down for a character: the one whose release is to come.
PressedInv ==
  /\ \A k \in Keycodes : pressedKeys[k] # NoSymbol => pressedKeys[k] = typing /\ Sets(k) = {}
  /\ \A j, k \in Keycodes : pressedKeys[j] # NoSymbol /\ pressedKeys[k] # NoSymbol => j = k

\* Once the queue is processed, a key is down only if the user holds it or it is
\* pressed for a character, and a modifier key is if the user holds it.
HeldInv ==
  \A k \in Keycodes \ leftover :
    /\ k \in DOMAIN UpToDate.down => k \in held \/ pressedKeys[k] # NoSymbol
    /\ k \in held /\ Sets(k) # {} => k \in DOMAIN UpToDate.down

KeysInv == DevPlain(kbd) /\ PressedInv /\ HeldInv

LEMMA KeysInvImplies == TypesInv /\ KeysInv => KeysAsHeld
<1> SUFFICES ASSUME TypesInv, KeysInv, typing = NoSymbol, kbdQueue = <<>>
             PROVE  /\ pressedKeys = NoPresses
                    /\ DOMAIN kbd.down \subseteq held \cup leftover
                    /\ {k \in held : Sets(k) # {}} \subseteq DOMAIN kbd.down \cup leftover
  BY DEF KeysAsHeld, Sets
<1>1. UpToDate = kbd
  BY RunEmpty DEF UpToDate
<1>2. \A k \in Keycodes : pressedKeys[k] = NoSymbol
  BY DEF KeysInv, PressedInv
<1>3. pressedKeys = NoPresses
  BY <1>2 DEF NoPresses, TypesInv, KeyboardTypes
<1>4. DOMAIN kbd.down \in SUBSET Keycodes /\ held \in SUBSET Keycodes
  BY DevicesAre, KeycodesAre DEF TypesInv, KeyboardTypes, HistoryTypes
<1> QED BY <1>1, <1>2, <1>3, <1>4 DEF KeysInv, HeldInv

LEMMA KeysInit == KbdInit => KeysInv
<1> SUFFICES ASSUME KbdInit PROVE KeysInv
  OBVIOUS
<1>1. kbd.down = <<>> /\ kbdQueue = <<>> /\ pressedKeys = NoPresses /\ held = {}
  BY DEF KbdInit
<1>2. DOMAIN kbd.down = {}
  BY <1>1
<1>3. UpToDate = kbd
  BY <1>1, RunEmpty DEF UpToDate
<1> QED BY <1>1, <1>2, <1>3 DEF KeysInv, DevPlain, PressedInv, HeldInv, NoPresses

\* The queue is the same whether it is processed before or after the others.
LEMMA KeysRawKey ==
  ASSUME PlainModifiers, TypesInv, KeysInv, NEW k \in RawKeys, RawKey(k)
  PROVE  KeysInv'
<1> DEFINE e == [key |-> k, press |-> k \notin held]
<1>1. MapOK(xkb) /\ kbd \in Keyboards /\ kbdQueue \in Seq(Events)
  BY DEF TypesInv, KeyboardTypes, KeymapInv
<1>2. e \in Events /\ k \in Keycodes
  BY KeycodesAre DEF Events
<1>3. kbdQueue' = Append(kbdQueue, e) /\ UNCHANGED <<xkb, kbd, pressedKeys, typing, leftover>>
  BY DEF RawKey
<1>4. About(<<e>>, {k}, k \notin held)
  <2>1. <<e>> \in Seq(Events) /\ Len(<<e>>) = 1 /\ <<e>>[1] = e
    BY <1>2
  <2>2. e.key = k /\ e.press = (k \notin held)
    OBVIOUS
  <2> HIDE DEF e
  <2> QED BY <1>2, <2>1, <2>2 DEF About
<1> HIDE DEF e
<1>5. UpToDate' = mieqProcessInputEvents(xkb, UpToDate, <<e>>)
  <2>1. kbdQueue' = kbdQueue \o <<e>> /\ <<e>> \in Seq(Events)
    BY <1>1, <1>2, <1>3
  <2>2. \A a \in Seq(Events) : \A b \in Seq(Events) :
          mieqProcessInputEvents(xkb, kbd, a \o b)
            = mieqProcessInputEvents(xkb, mieqProcessInputEvents(xkb, kbd, a), b)
    BY RunConcat
  <2> QED BY <1>1, <1>3, <2>1, <2>2 DEF UpToDate
<1>6. UpToDate \in Keyboards
  BY <1>1, RunType DEF UpToDate
<1>7. Decided(UpToDate, UpToDate', {k}, k \notin held)
  BY <1>1, <1>4, <1>5, <1>6, DecidedIs
<1>8. held' = IF k \in held THEN held \ {k} ELSE held \cup {k}
  BY DEF RawKey
<1>9. HeldInv'
  <2> SUFFICES ASSUME NEW j \in Keycodes \ leftover
               PROVE  /\ j \in DOMAIN UpToDate'.down => j \in held' \/ pressedKeys[j] # NoSymbol
                      /\ j \in held' /\ Sets(j) # {} => j \in DOMAIN UpToDate'.down
    BY <1>3 DEF HeldInv
  <2>1. CASE j = k
    BY <1>7, <1>8, <2>1 DEF Decided
  <2>2. CASE j # k
    <3>1. (j \in DOMAIN UpToDate'.down <=> j \in DOMAIN UpToDate.down) /\ (j \in held' <=> j \in held)
      BY <1>7, <1>8, <2>2 DEF Decided
    <3> QED BY <3>1 DEF KeysInv, HeldInv
  <2> QED BY <2>1, <2>2
<1> QED BY <1>3, <1>9 DEF KeysInv, PressedInv, DevPlain

LEMMA KeysProcessQueue ==
  ASSUME PlainModifiers, TypesInv, KeysInv, ProcessQueue
  PROVE  KeysInv'
<1>1. KeymapInv(xkb) /\ kbd \in Keyboards /\ kbdQueue \in Seq(Events)
  BY DEF TypesInv, KeyboardTypes
<1>2. kbd' = UpToDate /\ kbdQueue' = <<>> /\ UNCHANGED <<xkb, pressedKeys, typing, held, leftover>>
  BY DEF ProcessQueue, UpToDate
<1>3. UpToDate' = UpToDate
  BY <1>2, RunEmpty DEF UpToDate
<1>4. DevPlain(UpToDate)
  BY <1>1, PlainRun DEF KeysInv, UpToDate
<1> QED BY <1>2, <1>3, <1>4 DEF KeysInv, PressedInv, HeldInv, DevPlain

LEMMA KeysOtherClient ==
  ASSUME TypesInv, KeysInv, TypesInv', NEW map, NEW locked, NEW group, OtherClient(map, locked, group)
  PROVE  KeysInv'
<1>1. /\ MapOK(xkb) /\ kbd \in Keyboards /\ kbdQueue \in Seq(Events)
      /\ MapOK(xkb') /\ kbd' \in Keyboards
  BY DEF TypesInv, KeyboardTypes, KeymapInv
<1>2. kbd'.down = kbd.down /\ UNCHANGED <<kbdQueue, pressedKeys, typing, held, leftover>>
  <2>1. kbd = [down |-> kbd.down, locked |-> kbd.locked, group |-> kbd.group]
    BY <1>1, DevicesAre
  <2>2. kbd' = [kbd EXCEPT !.locked = locked, !.group = group]
    BY DEF OtherClient
  <2> QED BY <2>1, <2>2 DEF OtherClient
<1>3. DOMAIN UpToDate'.down = DOMAIN UpToDate.down
  BY <1>1, <1>2, SameKeys DEF UpToDate
<1> QED BY <1>2, <1>3 DEF KeysInv, PressedInv, HeldInv, DevPlain

LEMMA KeysTypeRelease ==
  ASSUME PlainModifiers, TypesInv, KeysInv, TypeRelease
  PROVE  KeysInv'
<1> DEFINE keys == {k \in Keycodes : pressedKeys[k] = typing}
           m  == Min(keys)
           up == Releases({m})
<1>1. KeymapInv(xkb) /\ MapOK(xkb) /\ kbd \in Keyboards /\ kbdQueue \in Seq(Events) /\ typing # NoSymbol
  BY DEF TypesInv, KeyboardTypes, KeymapInv, TypeRelease
<1>2. /\ typing' = NoSymbol /\ UNCHANGED <<xkb, held, leftover>>
      /\ pressedKeys' = [k \in Keycodes |-> IF keys # {} /\ k = m THEN NoSymbol ELSE pressedKeys[k]]
  BY DEF TypeRelease
<1>3. CASE keys = {}
  <2>1. kbd' = kbd /\ kbdQueue' = kbdQueue
    BY <1>3 DEF TypeRelease
  <2>2. \A k \in Keycodes : pressedKeys[k] = NoSymbol /\ pressedKeys'[k] = NoSymbol
    BY <1>2, <1>3 DEF KeysInv, PressedInv
  <2>3. UpToDate' = UpToDate
    BY <1>2, <2>1 DEF UpToDate
  <2> QED BY <1>2, <2>1, <2>2, <2>3 DEF KeysInv, PressedInv, HeldInv, DevPlain
<1>4. CASE keys # {}
  <2>1. kbd' = mieqProcessInputEvents(xkb, kbd, kbdQueue \o up) /\ kbdQueue' = <<>>
    BY <1>4 DEF TypeRelease
  <2>2. m \in keys
    <3>1. keys \in SUBSET Nat
      BY KeycodesAre
    <3> QED BY <1>4, <3>1, MinIs
  <2>3. About(up, {m}, FALSE)
    <3> DEFINE q == EventOfEach({m}, FALSE)
    <3>1. m \in Keycodes
      BY <2>2
    <3>2. {m} \in SUBSET Keycodes /\ FALSE \in BOOLEAN
      BY <3>1
    <3>3. /\ q \in Seq(Events) /\ \A i \in 1..Len(q) : q[i].key \in {m} /\ q[i].press = FALSE
          /\ \A k \in {m} : \E i \in 1..Len(q) : q[i].key = k
      BY <3>2, EventsAre
    <3> HIDE DEF q, m
    <3> QED BY <3>2, <3>3 DEF About, Releases, q
  <2>4. m \in Keycodes /\ pressedKeys[m] = typing /\ Sets(m) = {} /\
        \A k \in Keycodes : k # m => pressedKeys[k] = NoSymbol
    BY <1>1, <2>2 DEF KeysInv, PressedInv
  <2> HIDE DEF keys, m, up
  <2>5. kbd' = mieqProcessInputEvents(xkb, UpToDate, up)
    <3>1. \A a \in Seq(Events) : \A b \in Seq(Events) :
            mieqProcessInputEvents(xkb, kbd, a \o b)
              = mieqProcessInputEvents(xkb, mieqProcessInputEvents(xkb, kbd, a), b)
      BY RunConcat
    <3> QED BY <1>1, <2>1, <2>3, <3>1 DEF UpToDate, About
  <2>6. UpToDate \in Keyboards /\ DevPlain(UpToDate)
    BY <1>1, RunType, PlainRun DEF UpToDate, KeysInv
  <2>7. Decided(UpToDate, kbd', {m}, FALSE)
    BY <1>1, <2>3, <2>5, <2>6, DecidedIs
  <2>8. UpToDate' = kbd'
    BY <2>1, RunEmpty DEF UpToDate
  <2>9. DevPlain(kbd)'
    <3>1. DevPlain(kbd')
      BY <1>1, <2>3, <2>5, <2>6, PlainRun DEF About
    <3> QED BY <3>1 DEF DevPlain
  <2>10. \A k \in Keycodes : pressedKeys'[k] = NoSymbol
    BY <1>2, <1>4, <2>4
  <2>11. HeldInv'
    <3> SUFFICES ASSUME NEW k \in Keycodes \ leftover
                 PROVE  /\ k \in DOMAIN kbd'.down => k \in held
                        /\ k \in held /\ Sets(k) # {} => k \in DOMAIN kbd'.down
      BY <1>2, <2>8 DEF HeldInv
    <3> QED BY <2>4, <2>7 DEF KeysInv, HeldInv, Decided
  <2> QED BY <2>9, <2>10, <2>11 DEF KeysInv, PressedInv
<1> QED BY <1>3, <1>4

\* A character that is pressed, that cannot be, or that stops half-way.
LEMMA KeysTypeSymbol ==
  ASSUME PlainModifiers, TypesInv, KeysInv, NEW sym \in Characters, TypeSymbol(sym)
  PROVE  KeysInv'
<1>1. PICK w \in {Wanted(sym)} : TypeFails(w) \/ TypeStops(w) \/ TypePress(w)
  BY DEF TypeSymbol
<1> DEFINE dev == UpToDate
           st  == lorieGetKeyboardState(dev)
<1>2. /\ dev \in Keyboards /\ PlanFor(xkb, addedKeysyms, sym, dev, st, w)
      /\ PlanTypes(w) /\ w.dev = dev /\ w.sym = sym
  BY <1>1, WantedIs DEF TypesInv
<1>3. KeymapInv(w.map) /\ MapOK(w.map) /\ w.shift.events \in Seq(Events) /\ w.level3.events \in Seq(Events)
  BY <1>2 DEF PlanTypes, KeymapInv
<1>4. DevPlain(dev)
  BY PlainRun DEF KeysInv, UpToDate, TypesInv, KeyboardTypes
<1>5. typing = NoSymbol /\ \A k \in Keycodes : pressedKeys[k] = NoSymbol
  BY DEF TypeSymbol, KeysInv, PressedInv
<1>6. HeldInv
  BY DEF KeysInv
<1> HIDE DEF dev
<1>0. PICK mods : \E Ks \in SUBSET Keycodes, bs \in BOOLEAN, Kl \in SUBSET Keycodes, bl \in BOOLEAN :
        Fakes(w, sym, dev, st, mods, Ks, bs, Kl, bl)
  BY <1>2, <1>4, FakesAre
<1>7. PICK Ks \in SUBSET Keycodes, bs \in BOOLEAN, Kl \in SUBSET Keycodes, bl \in BOOLEAN :
        Fakes(w, sym, dev, st, mods, Ks, bs, Kl, bl)
  BY <1>0
<1>8. KeysFaked(dev, w.shift.events, Ks, bs) /\ KeysFaked(dev, w.level3.events, Kl, bl)
  BY <1>7 DEF Fakes, ShiftFaked, LevelThreeFaked
<1>9. ASSUME NEW seen, TypeStarts(w, seen) PROVE typing' = sym /\ xkb' = w.map /\ held' = held
  BY <1>2, <1>9 DEF TypeStarts
<1>10. CASE TypeFails(w)
  <2>1. kbd' = dev /\ kbdQueue' = <<>> /\ UNCHANGED <<pressedKeys, leftover, held>>
    BY <1>2, <1>9, <1>10 DEF TypeFails
  <2>2. UpToDate' = dev
    BY <2>1, RunEmpty DEF UpToDate
  <2> QED BY <1>4, <1>5, <1>6, <2>1, <2>2 DEF KeysInv, PressedInv, HeldInv, DevPlain, dev
<1>11. CASE TypeStops(w)
  <2>1. /\ kbd' = dev /\ kbdQueue' = w.shift.events /\ xkb' = w.map /\ UNCHANGED <<pressedKeys, held>>
        /\ leftover' = leftover \cup {e.key : e \in Range(w.shift.events)}
    BY <1>2, <1>9, <1>11 DEF TypeStops
  <2>2. Decided(dev, UpToDate', Ks, bs)
    <3>1. UpToDate' = mieqProcessInputEvents(w.map, dev, w.shift.events)
      BY <2>1 DEF UpToDate
    <3>2. About(w.shift.events, Ks, bs)
      BY <1>8 DEF KeysFaked
    <3> QED BY <1>2, <1>3, <3>1, <3>2, DecidedIs
  <2>3. Ks \subseteq leftover'
    <3> DEFINE q == w.shift.events
    <3>1. q \in Seq(Events) /\ \A k \in Ks : \E i \in 1..Len(q) : q[i].key = k
      BY <1>8 DEF KeysFaked, About
    <3> HIDE DEF q
    <3>2. \A k \in Ks : \E e \in Range(q) : e.key = k
      BY <3>1 DEF Range
    <3> QED BY <2>1, <3>2 DEF q
  <2>4. HeldInv'
    <3> SUFFICES ASSUME NEW k \in Keycodes \ leftover'
                 PROVE  /\ k \in DOMAIN UpToDate'.down => k \in held
                        /\ k \in held /\ Sets(k) # {} => k \in DOMAIN UpToDate'.down
      BY <2>1 DEF HeldInv
    <3>1. k \in Keycodes \ leftover /\ k \notin Ks
      BY <2>1, <2>3
    <3> QED BY <1>5, <1>6, <2>2, <3>1 DEF HeldInv, Decided, dev
  <2> QED BY <1>4, <1>5, <2>1, <2>4 DEF KeysInv, PressedInv, DevPlain
<1>12. CASE TypePress(w)
  <2>1. PICK faked \in {mieqProcessInputEvents(w.map, w.dev, w.shift.events \o w.level3.events)} :
          /\ kbd' = mieqProcessInputEvents(w.map, faked,
                      <<[key |-> w.key, press |-> TRUE]>> \o Undo(w.level3.events) \o Undo(w.shift.events))
          /\ TypeStarts(w, SymbolSeen(w.map[w.key], lorieGetKeyboardState(faked)))
    BY <1>12 DEF TypePress
  <2>2. /\ w.key # NoKey /\ kbdQueue' = <<>> /\ leftover' = leftover
        /\ pressedKeys' = [k \in Keycodes |-> IF k = w.key THEN w.sym
                                              ELSE IF pressedKeys[k] = w.sym THEN NoSymbol
                                              ELSE pressedKeys[k]]
    BY <1>12 DEF TypePress
  <2>3. w.key \in Keycodes /\ Sets(w.key) = {}
    BY <1>7, <2>2 DEF Fakes
  <2>4. typing' = sym /\ xkb' = w.map /\ held' = held
    BY <1>9, <2>1
  <2>5. \A k \in Keycodes : k \in DOMAIN kbd'.down <=> k \in DOMAIN dev.down \/ k = w.key
    <3>1. faked = mieqProcessInputEvents(w.map, dev, w.shift.events \o w.level3.events)
      BY <1>2, <2>1
    <3>2. Pressing(w, dev, faked, kbd')
      BY <2>1, <3>1 DEF Pressing
    <3>3. AddsKey(dev, kbd', w.key)
      BY <1>2, <1>8, <2>3, <3>2, PressedIs
    <3> QED BY <3>3 DEF AddsKey
  <2>6. UpToDate' = kbd'
    BY <2>2, RunEmpty DEF UpToDate
  <2>7. \A k \in Keycodes : pressedKeys'[k] = IF k = w.key THEN sym ELSE NoSymbol
    BY <1>2, <1>5, <2>2
  <2>8. sym # NoSymbol
    BY CharactersAre
  <2>9. HeldInv'
    <3> SUFFICES ASSUME NEW k \in Keycodes \ leftover
                 PROVE  /\ k \in DOMAIN kbd'.down => k \in held \/ pressedKeys'[k] # NoSymbol
                        /\ k \in held /\ Sets(k) # {} => k \in DOMAIN kbd'.down
      BY <2>2, <2>4, <2>6 DEF HeldInv
    <3> QED BY <1>5, <1>6, <2>5, <2>7, <2>8 DEF HeldInv, dev
  <2>10. PressedInv'
    BY <2>3, <2>4, <2>7 DEF PressedInv
  <2>11. DevPlain(kbd)'
    <3> DEFINE map == w.map
               after == <<[key |-> w.key, press |-> TRUE]>> \o Undo(w.level3.events) \o Undo(w.shift.events)
               before == w.shift.events \o w.level3.events
    <3>1. before \in Seq(Events)
      BY <1>3
    <3>2. after \in Seq(Events)
      <4>1. Undo(w.level3.events) \in Seq(Events) /\ Undo(w.shift.events) \in Seq(Events)
        BY <1>3, UndoIs
      <4>2. <<[key |-> w.key, press |-> TRUE]>> \in Seq(Events)
        BY <2>3 DEF Events
      <4> QED BY <4>1, <4>2
    <3>3. faked = mieqProcessInputEvents(map, dev, before) /\ kbd' = mieqProcessInputEvents(map, faked, after)
      BY <1>2, <2>1
    <3>4. KeymapInv(map) /\ MapOK(map)
      BY <1>3
    <3> HIDE DEF map, after, before
    <3>5. faked \in Keyboards /\ DevPlain(faked)
      BY <1>2, <1>4, <3>1, <3>3, <3>4, RunType, PlainRun
    <3>6. DevPlain(kbd')
      BY <3>2, <3>3, <3>4, <3>5, PlainRun
    <3> QED BY <3>6 DEF DevPlain
  <2> QED BY <2>9, <2>10, <2>11 DEF KeysInv
<1> QED BY <1>1, <1>10, <1>11, <1>12

LEMMA KeysStep ==
  ASSUME PlainModifiers, TypesInv, KeysInv, [KbdNext]_kbdVars
  PROVE  KeysInv'
<1>1. ASSUME NEW k \in RawKeys, RawKey(k) PROVE KeysInv'
  BY <1>1, KeysRawKey
<1>2. CASE ProcessQueue
  BY <1>2, KeysProcessQueue
<1>3. ASSUME NEW sym \in Characters, TypeSymbol(sym) PROVE KeysInv'
  BY <1>3, KeysTypeSymbol
<1>4. CASE TypeRelease
  BY <1>4, KeysTypeRelease
<1>5. CASE \/ \E k \in Spare : OtherClient([xkb EXCEPT ![k].groups = OtherKey.groups], kbd.locked, kbd.group)
           \/ OtherClient(Keymap, kbd.locked, kbd.group)
           \/ \E m \in Modifiers : OtherClient(xkb, Toggled(kbd.locked, {m}), kbd.group)
           \/ \E g \in GroupSet : OtherClient(xkb, kbd.locked, g)
  <2>1. PICK map \in ClientMaps, locked \in SUBSET Modifiers, group \in GroupSet : OtherClient(map, locked, group)
    BY <1>5, OtherClientSteps
  <2>2. TypesInv'
    BY TypesStep
  <2> QED BY <2>1, <2>2, KeysOtherClient
<1>6. CASE UNCHANGED kbdVars
  <2>1. UpToDate' = UpToDate
    BY <1>6 DEF kbdVars, UpToDate
  <2> QED BY <1>6, <2>1 DEF kbdVars, KeysInv, PressedInv, HeldInv, DevPlain
<1> QED BY <1>1, <1>2, <1>3, <1>4, <1>5, <1>6 DEF KbdNext

\* In every keymap with plain modifiers, between characters and with the queue
\* processed, the keys that are down are those the user holds: the fake presses
\* and releases are undone, no key of a character stays down, and every modifier
\* key the user holds is down.  The exceptions are the keys of a fake Shift left
\* when level three could not be faked.
THEOREM KeysFollow == PlainModifiers /\ KbdSpec => []KeysAsHeld
<1> SUFFICES ASSUME PlainModifiers PROVE KbdSpec => []KeysAsHeld
  OBVIOUS
<1>1. KbdInit => TypesInv /\ KeysInv
  BY TypesInit, KeysInit
<1>2. TypesInv /\ KeysInv /\ [KbdNext]_kbdVars => TypesInv' /\ KeysInv'
  BY TypesStep, KeysStep
<1>3. TypesInv /\ KeysInv => KeysAsHeld
  BY KeysInvImplies
<1> QED BY <1>1, <1>2, <1>3, PTL DEF KbdSpec

-----------------------------------------------------------------------------
(***************************************************************************)
(* The state in which a character is pressed, in keymaps where no key but  *)
(* those of Shift and of level three sets either of them.                  *)
(***************************************************************************)
FakedMods == {"Shift", "Level3"}

\* A key that sets Shift or level three sets nothing else.
SingleKey(map, k, st) ==
  /\ \A m \in FakedMods : m \in Sets(k) => Sets(k) = {m}
  /\ PressMods(map[k], st) \cap FakedMods \subseteq Sets(k)

LEMMA SingleKeyIs ==
  ASSUME PlainModifiers, SingleModifiers, NEW map, KeymapInv(map), NEW k \in Keycodes, NEW st \in KeyStates
  PROVE  SingleKey(map, k, st)
<1>1. PlainKey(map, k, st) /\ PlainKey(Keymap, k, FirstState) /\ PlainKey(Keymap, k, st)
  BY KeymapIs, FirstStateIs, PlainKeyIs
<1>2. ASSUME NEW s \in KeyStates, PressMods(Keymap[k], s) \cap FakedMods # {}
      PROVE  ModsOf(Keymap, k, s) \in {{"Shift"}, {"Level3"}}
  BY <1>2 DEF SingleModifiers, FakedMods
<1>3. ASSUME NEW m \in FakedMods, m \in Sets(k) PROVE Sets(k) = {m}
  <2>1. PressMods(Keymap[k], FirstState) = Sets(k)
    BY <1>1, <1>3 DEF PlainKey
  <2>2. ModsOf(Keymap, k, FirstState) \in {{"Shift"}, {"Level3"}}
    BY <1>2, <1>3, <2>1, FirstStateIs
  <2> QED BY <1>3, <2>2 DEF Sets
<1>4. PressMods(map[k], st) \cap FakedMods \subseteq Sets(k)
  <2>1. CASE PressMods(map[k], st) \cap FakedMods = {}
    BY <2>1
  <2>2. CASE PressMods(map[k], st) \cap FakedMods # {}
    <3>1. k \notin Spare
      BY <1>1, <2>2 DEF PlainKey
    <3>2. map[k] = Keymap[k]
      BY <1>1, <3>1 DEF PlainKey
    <3>3. ModsOf(Keymap, k, st) \in {{"Shift"}, {"Level3"}}
      BY <1>2, <2>2, <3>2
    <3>4. Sets(k) # {}
      BY <1>1, <3>3 DEF PlainKey
    <3>5. PressMods(map[k], st) = Sets(k)
      BY <1>1, <3>4 DEF PlainKey
    <3> QED BY <3>5
  <2> QED BY <2>1, <2>2
<1> QED BY <1>3, <1>4 DEF SingleKey

\* The keys down set Shift or level three only if they do in the first keymap.
DevSingle(d) == \A k \in DOMAIN d.down : d.down[k].set \cap FakedMods \subseteq Sets(k)

LEMMA SingleRun ==
  ASSUME PlainModifiers, SingleModifiers, NEW map, KeymapInv(map), NEW dev \in Keyboards, DevSingle(dev),
         NEW q \in Seq(Events)
  PROVE  DevSingle(mieqProcessInputEvents(map, dev, q))
<1> DEFINE S == {d \in Keyboards : DevSingle(d)}
<1>1. ASSUME NEW d \in S, NEW e \in Events PROVE ProcessKey(map, d, e) \in S
  <2> DEFINE x  == ProcessKey(map, d, e)
             st == lorieGetKeyboardState(d)
  <2>1. d \in Keyboards /\ DevSingle(d) /\ MapOK(map)
    BY DEF KeymapInv
  <2>2. Processed(map, d, e, x, st)
    BY <2>1, ProcessIs
  <2>3. st \in KeyStates
    BY <2>1, StateIs
  <2> HIDE DEF x, st
  <2>4. x \in Keyboards
    BY <2>2 DEF Processed
  <2>5. ASSUME NEW k \in DOMAIN x.down PROVE x.down[k].set \cap FakedMods \subseteq Sets(k)
    <3>1. CASE k \in DOMAIN d.down
      <4>1. x.down[k] = d.down[k]
        BY <2>2, <3>1 DEF Processed
      <4> QED BY <2>1, <3>1, <4>1 DEF DevSingle
    <3>2. CASE k \notin DOMAIN d.down
      <4>1. k \in Keycodes
        BY <2>4, DevicesAre
      <4>2. SingleKey(map, k, st)
        BY <2>3, <4>1, SingleKeyIs
      <4>3. x.down[k].set = PressMods(map[k], st)
        BY <2>2, <3>2 DEF Processed
      <4> QED BY <4>2, <4>3 DEF SingleKey
    <3> QED BY <3>1, <3>2
  <2> QED BY <2>4, <2>5 DEF DevSingle, x
<1>2. dev \in S
  OBVIOUS
<1> HIDE DEF S
<1>3. mieqProcessInputEvents(map, dev, q) \in S
  BY <1>1, <1>2, RunsIn
<1> QED BY <1>3 DEF S

\* Events about keys that set modifiers lock nothing and leave the other keys
\* alone.
OnlyPlain(dev, d) ==
  /\ d.locked = dev.locked /\ DevPlain(d)
  /\ \A k \in Keycodes : Sets(k) = {} =>
       /\ k \in DOMAIN d.down <=> k \in DOMAIN dev.down
       /\ k \in DOMAIN dev.down => d.down[k] = dev.down[k]

LEMMA OnlyPlainRun ==
  ASSUME PlainModifiers, NEW map, KeymapInv(map), NEW dev \in Keyboards, DevPlain(dev),
         NEW q \in Seq(Events), \A i \in 1..Len(q) : Sets(q[i].key) # {}
  PROVE  OnlyPlain(dev, mieqProcessInputEvents(map, dev, q))
<1> DEFINE T == {d \in Keyboards : OnlyPlain(dev, d)}
           S == [n \in 0..Len(q) |-> T]
<1>1. Len(q) \in Nat /\ \A i \in 1..Len(q) : q[i] \in Events
  OBVIOUS
<1>2. S[Len(q)] = T /\ dev \in S[0]
  <2>1. OnlyPlain(dev, dev)
    BY DEF OnlyPlain
  <2> QED BY <1>1, <2>1
<1>3. ASSUME NEW n \in 1..Len(q), NEW d \in S[n - 1] PROVE ProcessKey(map, d, q[n]) \in S[n]
  <2> DEFINE e  == q[n]
             x  == ProcessKey(map, d, e)
             st == lorieGetKeyboardState(d)
  <2>1. d \in T /\ S[n] = T
    BY <1>1
  <2>2. d \in Keyboards /\ OnlyPlain(dev, d) /\ e \in Events /\ Sets(e.key) # {} /\ MapOK(map)
    BY <1>1, <2>1 DEF KeymapInv
  <2> HIDE DEF T, S
  <2>3. Processed(map, d, e, x, st)
    <3> HIDE DEF e
    <3> QED BY <2>2, ProcessIs
  <2>4. st \in KeyStates /\ e.key \in Keycodes /\ e.press \in BOOLEAN
    BY <2>2, StateIs DEF Events
  <2> HIDE DEF x, st, e
  <2>5. LockOf(map[e.key], st) = {}
    BY <2>2, <2>4, PlainKeyIs DEF PlainKey
  <2>6. x.locked = d.locked
    <3>1. CASE e.press /\ e.key \notin DOMAIN d.down
      BY <2>3, <2>5, <3>1 DEF Processed
    <3>2. CASE ~e.press /\ e.key \in DOMAIN d.down
      <4>1. d.down[e.key] = [set |-> Sets(e.key), unlock |-> {}]
        BY <2>2, <3>2 DEF OnlyPlain, DevPlain
      <4>2. d.down[e.key].unlock = {}
        BY <4>1
      <4> QED BY <2>3, <3>2, <4>2 DEF Processed
    <3>3. CASE e.press <=> e.key \in DOMAIN d.down
      BY <2>3, <3>3 DEF Processed
    <3> QED BY <2>4, <3>1, <3>2, <3>3
  <2>7. x \in Keyboards
    BY <2>3 DEF Processed
  <2>8. DevPlain(x)
    BY <2>2, PlainStep DEF OnlyPlain, x
  <2>9. ASSUME NEW k \in Keycodes, Sets(k) = {}
        PROVE  /\ k \in DOMAIN x.down <=> k \in DOMAIN d.down
               /\ k \in DOMAIN d.down => x.down[k] = d.down[k]
    <3>1. k # e.key
      BY <2>2, <2>9
    <3> QED BY <2>3, <3>1 DEF Processed
  <2>10. OnlyPlain(dev, x)
    BY <2>2, <2>6, <2>8, <2>9 DEF OnlyPlain
  <2> QED BY <2>1, <2>7, <2>10 DEF T, x, e
<1> HIDE DEF S
<1>4. mieqProcessInputEvents(map, dev, q) \in S[Len(q)]
  BY <1>2, <1>3, RunsWithin
<1> QED BY <1>2, <1>4

\* A key that sets just m is down.
On(d, m) == \E k \in DOMAIN d.down : Sets(k) = {m}

LEMMA OnIs ==
  ASSUME PlainModifiers, SingleModifiers, NEW d \in Keyboards, DevPlain(d), DevSingle(d),
         d.locked \cap FakedMods = {}, NEW m \in FakedMods
  PROVE  m \in lorieGetKeyboardState(d).mods <=> On(d, m)
<1>1. DOMAIN d.down \in SUBSET Keycodes
  BY DevicesAre
<1>2. m \in lorieGetKeyboardState(d).mods <=> \E k \in DOMAIN d.down : m \in d.down[k].set
  BY DEF lorieGetKeyboardState
<1>3. ASSUME NEW k \in DOMAIN d.down PROVE m \in d.down[k].set <=> Sets(k) = {m}
  <2>1. SingleKey(Keymap, k, FirstState)
    BY <1>1, KeymapIs, FirstStateIs, SingleKeyIs
  <2>2. m \in d.down[k].set => Sets(k) = {m}
    BY <2>1 DEF DevSingle, SingleKey
  <2>3. ASSUME Sets(k) = {m} PROVE m \in d.down[k].set
    <3>1. d.down[k] = [set |-> Sets(k), unlock |-> {}]
      BY <2>3 DEF DevPlain
    <3> QED BY <2>3, <3>1
  <2> QED BY <2>2, <2>3
<1> QED BY <1>2, <1>3 DEF On

\* The keys K of m are pressed or released, and no other key of m changes.
Turned(dev, d, m, K, b, release) ==
  /\ \A k \in K : Sets(k) = {m} /\ (k \in DOMAIN d.down <=> b)
  /\ \A k \in Keycodes \ K : Sets(k) = {m} => (k \in DOMAIN d.down <=> k \in DOMAIN dev.down)
  /\ K \in SUBSET Keycodes /\ DOMAIN dev.down \in SUBSET Keycodes /\ DOMAIN d.down \in SUBSET Keycodes
  /\ release # {} => \A k \in DOMAIN dev.down : Sets(k) = {m} => k \in release

\* It is on afterwards if, and only if, it is wanted.
LEMMA TurnedIs ==
  ASSUME NEW dev, NEW d, NEW m, NEW K, NEW b, NEW press, NEW release, Turned(dev, d, m, K, b, release),
         NEW mask, mask \in {{}, {m}}, NEW st, NEW mods, NEW f, Faked(f, mask, st, mods, press, release, K, b),
         ~f.fails, m \in st.mods <=> On(dev, m), mask = {} => (m \in mods <=> m \in st.mods)
  PROVE  m \in mods <=> On(d, m)
<1>1. CASE /\ K = {}
           /\ ~(mask \cap st.mods = {} /\ mask \cap mods # {}) /\ ~(mask \cap st.mods # {} /\ mask \cap mods = {})
  <2>1. m \in mods <=> m \in st.mods
    BY <1>1
  <2>2. On(d, m) <=> On(dev, m)
    BY <1>1 DEF On, Turned
  <2> QED BY <2>1, <2>2
<1>2. CASE K = press /\ b = TRUE /\ f.fails = (press = {}) /\ mask \cap mods # {}
  <2>1. m \in mods
    BY <1>2
  <2>2. PICK k \in K : TRUE
    BY <1>2
  <2>3. On(d, m)
    BY <1>2, <2>2 DEF On, Turned
  <2> QED BY <2>1, <2>3
<1>3. CASE K = release /\ b = FALSE /\ f.fails = (release = {}) /\ mask \cap st.mods # {} /\ mask \cap mods = {}
  <2>1. m \notin mods
    BY <1>3
  <2>2. release # {}
    BY <1>3
  <2>3. \A k \in DOMAIN d.down : Sets(k) # {m}
    BY <1>3, <2>2 DEF Turned
  <2> QED BY <2>1, <2>3 DEF On
<1> QED BY <1>1, <1>2, <1>3 DEF Faked

\* The modifiers tried differ from those of the state in Shift and level three,
\* and only in Shift if there is no level three.
LEMMA TriedIs ==
  ASSUME NEW mods, NEW l3, l3 \in {{}, {"Level3"}}, NEW t \in TrySet(mods, l3)
  PROVE  /\ \A m : m \notin FakedMods => (m \in t <=> m \in mods)
         /\ l3 = {} => t \ {"Shift"} = mods \ {"Shift"}
BY DEF TrySet, Toggled, FakedMods

\* What the fake events lead to.
LEMMA FakedStateIs ==
  ASSUME PlainModifiers, SingleModifiers, NEW map, KeymapInv(map),
         NEW dev \in Keyboards, DevPlain(dev), DevSingle(dev), dev.locked \cap FakedMods = {},
         NEW st, st = lorieGetKeyboardState(dev), NEW mods,
         NEW s, NEW Ks, NEW bs, ShiftFaked(map, dev, st, mods, s, Ks, bs), ~s.fails,
         NEW l, NEW Kl, NEW bl, LevelThreeFaked(map, dev, st, mods, l, Kl, bl), ~l.fails,
         mods \in TrySet(st.mods, lorieGetLevelThreeMask(map, st)),
         NEW faked, faked = mieqProcessInputEvents(map, dev, s.events \o l.events)
  PROVE  lorieGetKeyboardState(faked) = With(st, mods)
<1> DEFINE l3 == lorieGetLevelThreeMask(map, st)
           mask == IF mods \ {"Shift"} = st.mods \ {"Shift"} THEN {} ELSE l3
           mid == mieqProcessInputEvents(map, dev, s.events)
           end == lorieGetKeyboardState(faked)
<1>1. st \in KeyStates /\ MapOK(map)
  BY StateIs DEF KeymapInv
<1>2. LevelThreePlain(map, st)
  BY <1>1, LevelThreeIs
<1>3. About(s.events, Ks, bs) /\ About(l.events, Kl, bl)
  BY DEF ShiftFaked, LevelThreeFaked, Faked
<1>4. faked = mieqProcessInputEvents(map, mid, l.events)
  BY <1>3, RunConcat DEF About
<1>5. mid \in Keyboards /\ mid.group = dev.group
  BY <1>1, <1>3, RunType DEF About
<1> HIDE DEF mid
<1>6. faked \in Keyboards /\ faked.group = dev.group
  BY <1>1, <1>3, <1>4, <1>5, RunType DEF About
<1>7. Decided(dev, mid, Ks, bs) /\ Decided(mid, faked, Kl, bl)
  BY <1>1, <1>3, <1>4, <1>5, DecidedIs DEF mid
<1>8. /\ DOMAIN dev.down \in SUBSET Keycodes /\ DOMAIN faked.down \in SUBSET Keycodes
      /\ Ks \in SUBSET Keycodes /\ Kl \in SUBSET Keycodes
  BY <1>3, <1>6, DevicesAre DEF About
<1>9. \A k \in Keycodes : SingleKey(Keymap, k, FirstState)
  BY KeymapIs, FirstStateIs, SingleKeyIs
<1>10. \A k \in Ks : Sets(k) = {"Shift"}
  <2> SUFFICES ASSUME NEW k \in Ks PROVE "Shift" \in Sets(k)
    BY <1>8, <1>9 DEF SingleKey, FakedMods
  <2>1. Ks \in {{}, loriePressShift(map, st), lorieReleaseShift(map, dev, st)}
    BY DEF ShiftFaked, Faked
  <2>2. CASE k \in loriePressShift(map, st)
    <3>1. "Shift" \in ModsOf(map, k, st)
      BY <2>2, ShiftKeyIs
    <3> QED BY <1>1, <1>8, <3>1, PlainKeyIs DEF PlainKey
  <2>3. CASE k \in lorieReleaseShift(map, dev, st)
    <3>1. Sets(k) \cap {"Shift"} # {}
      BY <1>1, <2>3, HoldingIs DEF lorieReleaseShift
    <3> QED BY <3>1
  <2> QED BY <2>1, <2>2, <2>3
<1>11. \A k \in Kl : Sets(k) = {"Level3"}
  <2> SUFFICES ASSUME NEW k \in Kl PROVE "Level3" \in Sets(k)
    BY <1>8, <1>9 DEF SingleKey, FakedMods
  <2>1. Kl \in {{}, loriePressLevelThree(map, st), lorieReleaseLevelThree(map, dev, st)}
    BY DEF LevelThreeFaked, Faked
  <2>2. CASE k \in loriePressLevelThree(map, st)
    BY <1>2, <2>2 DEF LevelThreePlain
  <2>3. CASE k \in lorieReleaseLevelThree(map, dev, st)
    <3>1. Sets(k) \cap l3 # {}
      BY <1>1, <2>3, HoldingIs DEF lorieReleaseLevelThree
    <3> QED BY <1>2, <3>1 DEF LevelThreePlain
  <2> QED BY <2>1, <2>2, <2>3
<1>12. OnlyPlain(dev, faked) /\ DevSingle(faked)
  <2> DEFINE q == s.events \o l.events
  <2>1. q \in Seq(Events) /\ \A i \in 1..Len(q) : Sets(q[i].key) # {}
    <3>1. s.events \in Seq(Events) /\ \A i \in 1..Len(s.events) : Sets(s.events[i].key) # {}
      BY <1>3, <1>10 DEF About
    <3>2. l.events \in Seq(Events) /\ \A i \in 1..Len(l.events) : Sets(l.events[i].key) # {}
      BY <1>3, <1>11 DEF About
    <3>3. ASSUME NEW a \in Seq(Events), NEW b \in Seq(Events),
                 \A i \in 1..Len(a) : Sets(a[i].key) # {}, \A i \in 1..Len(b) : Sets(b[i].key) # {}
          PROVE  a \o b \in Seq(Events) /\ \A i \in 1..Len(a \o b) : Sets((a \o b)[i].key) # {}
      <4>1. a \o b \in Seq(Events) /\ Len(a \o b) = Len(a) + Len(b) /\ Len(a) \in Nat /\ Len(b) \in Nat
        OBVIOUS
      <4> SUFFICES ASSUME NEW i \in 1..(Len(a) + Len(b)) PROVE Sets((a \o b)[i].key) # {}
        BY <4>1
      <4>2. CASE i <= Len(a)
        <5>1. (a \o b)[i] = a[i] /\ i \in 1..Len(a)
          BY <4>1, <4>2
        <5> QED BY <3>3, <5>1
      <4>3. CASE i > Len(a)
        <5>1. (a \o b)[i] = b[i - Len(a)] /\ i - Len(a) \in 1..Len(b)
          BY <4>1, <4>3
        <5> QED BY <3>3, <5>1
      <4> QED BY <4>1, <4>2, <4>3
    <3> QED BY <3>1, <3>2, <3>3
  <2>2. faked = mieqProcessInputEvents(map, dev, q)
    OBVIOUS
  <2> HIDE DEF q
  <2> QED BY <2>1, <2>2, OnlyPlainRun, SingleRun
<1>13. faked.locked = dev.locked /\ DevPlain(faked)
  BY <1>12 DEF OnlyPlain
<1>14. \A m \in FakedMods : m \in st.mods <=> On(dev, m)
  BY OnIs
<1>15. \A m \in FakedMods : m \in end.mods <=> On(faked, m)
  BY <1>6, <1>12, <1>13, OnIs
<1>16. "Shift" \in mods <=> On(faked, "Shift")
  <2> DEFINE press == loriePressShift(map, st)
             release == lorieReleaseShift(map, dev, st)
             m == "Shift"
  <2>1. Faked(s, {m}, st, mods, press, release, Ks, bs)
    BY DEF ShiftFaked
  <2>2. release # {} => \A k \in DOMAIN dev.down : Sets(k) = {m} => k \in release
    BY <1>1, HoldingIs DEF lorieReleaseShift
  <2> HIDE DEF press, release
  <2>3. Ks \cap Kl = {} /\ \A k \in Kl : Sets(k) # {m}
    BY <1>10, <1>11
  <2>4. Turned(dev, faked, m, Ks, bs, release)
    BY <1>7, <1>8, <1>10, <2>2, <2>3 DEF Turned, Decided
  <2>5. m \in st.mods <=> On(dev, m)
    BY <1>14 DEF FakedMods
  <2>6. {m} \in {{}, {m}} /\ {m} # {}
    OBVIOUS
  <2> HIDE DEF m
  <2>7. m \in mods <=> On(faked, m)
    BY <2>1, <2>4, <2>5, <2>6, TurnedIs
  <2> QED BY <2>7 DEF m
<1>17. "Level3" \in mods <=> On(faked, "Level3")
  <2> DEFINE press == loriePressLevelThree(map, st)
             release == lorieReleaseLevelThree(map, dev, st)
             m == "Level3"
  <2>1. Faked(l, mask, st, mods, press, release, Kl, bl)
    BY DEF LevelThreeFaked
  <2>2. l3 \in {{}, {m}}
    BY <1>2 DEF LevelThreePlain
  <2>3. mask \in {{}, {m}}
    BY <2>2
  <2>4. mask = {} => (m \in mods <=> m \in st.mods)
    <3>1. mask = {} => mods \ {"Shift"} = st.mods \ {"Shift"}
      BY <2>2, TriedIs
    <3> HIDE DEF mask
    <3> QED BY <3>1
  <2>5. release # {} => \A k \in DOMAIN dev.down : Sets(k) = {m} => k \in release
    <3>1. CASE l3 = {}
      BY <1>1, <3>1, HoldingIs DEF lorieReleaseLevelThree
    <3>2. CASE l3 = {m}
      BY <1>1, <3>2, HoldingIs DEF lorieReleaseLevelThree
    <3> QED BY <2>2, <3>1, <3>2
  <2> HIDE DEF press, release, mask
  <2>6. Ks \cap Kl = {} /\ \A k \in Ks : Sets(k) # {m}
    BY <1>10, <1>11
  <2>7. Turned(dev, faked, m, Kl, bl, release)
    BY <1>7, <1>8, <1>11, <2>5, <2>6 DEF Turned, Decided
  <2>8. m \in st.mods <=> On(dev, m)
    BY <1>14 DEF FakedMods
  <2> HIDE DEF m
  <2>9. m \in mods <=> On(faked, m)
    BY <2>1, <2>3, <2>4, <2>7, <2>8, TurnedIs
  <2> QED BY <2>9 DEF m
<1>18. ASSUME NEW m, m \notin FakedMods PROVE m \in end.mods <=> m \in st.mods
  <2>1. m \in end.mods <=> m \in faked.locked \/ \E k \in DOMAIN faked.down : m \in faked.down[k].set
    BY DEF lorieGetKeyboardState
  <2>2. m \in st.mods <=> m \in dev.locked \/ \E k \in DOMAIN dev.down : m \in dev.down[k].set
    BY DEF lorieGetKeyboardState
  <2>3. ASSUME NEW k \in Keycodes
        PROVE  k \in DOMAIN faked.down /\ m \in faked.down[k].set <=> k \in DOMAIN dev.down /\ m \in dev.down[k].set
    <3>1. CASE Sets(k) = {}
      BY <1>12, <3>1 DEF OnlyPlain
    <3>2. CASE Sets(k) # {}
      <4>1. k \in DOMAIN faked.down => faked.down[k] = [set |-> Sets(k), unlock |-> {}]
        BY <1>13, <3>2 DEF DevPlain
      <4>2. k \in DOMAIN dev.down => dev.down[k] = [set |-> Sets(k), unlock |-> {}]
        BY <3>2 DEF DevPlain
      <4>3. m \in Sets(k) => k \notin Ks /\ k \notin Kl
        BY <1>10, <1>11, <1>18 DEF FakedMods
      <4>4. m \in Sets(k) => (k \in DOMAIN faked.down <=> k \in DOMAIN dev.down)
        BY <1>7, <4>3 DEF Decided
      <4> QED BY <4>1, <4>2, <4>4
    <3> QED BY <3>1, <3>2
  <2> QED BY <1>8, <1>13, <2>1, <2>2, <2>3
<1>19. \A m : m \notin FakedMods => (m \in mods <=> m \in st.mods)
  BY <1>2, TriedIs DEF LevelThreePlain
<1>20. end.mods = mods
  BY <1>15, <1>16, <1>17, <1>18, <1>19 DEF FakedMods
<1>21. end = [mods |-> end.mods, group |-> faked.group] /\ st.group = dev.group
  BY DEF lorieGetKeyboardState
<1> HIDE DEF end
<1>22. end = With(st, mods)
  BY <1>6, <1>20, <1>21 DEF With
<1> QED BY <1>22 DEF end

-----------------------------------------------------------------------------
(***************************************************************************)
(* What clients see of a character.                                        *)
(***************************************************************************)
RightlySeen(t) ==
  t.seen # NoSymbol /\ t.locked \cap FakedMods = {} => t.seen \in Meanings(t.sym) \/ t.sym = "Tab"

SeenInv == DevSingle(kbd) /\ \A i \in DOMAIN typed : RightlySeen(typed[i])

LEMMA SeenInvImplies == SeenInv => TypedRight
BY DEF SeenInv, RightlySeen, Meanings, TypedRight, FakedMods, Range

LEMMA SeenInit == KbdInit => SeenInv
<1> SUFFICES ASSUME KbdInit PROVE SeenInv
  OBVIOUS
<1>1. kbd.down = <<>> /\ typed = <<>>
  BY DEF KbdInit
<1>2. DOMAIN kbd.down = {} /\ DOMAIN typed = {}
  BY <1>1
<1> QED BY <1>2 DEF SeenInv, DevSingle

LEMMA SeenTypeSymbol ==
  ASSUME PlainModifiers, SingleModifiers, TypesInv, KeysInv, SeenInv, NEW sym \in Characters, TypeSymbol(sym)
  PROVE  SeenInv'
<1>1. PICK w \in {Wanted(sym)} : TypeFails(w) \/ TypeStops(w) \/ TypePress(w)
  BY DEF TypeSymbol
<1> DEFINE dev == UpToDate
           st  == lorieGetKeyboardState(dev)
<1>2. /\ dev \in Keyboards /\ st \in KeyStates /\ PlanFor(xkb, addedKeysyms, sym, dev, st, w)
      /\ PlanTypes(w) /\ w.dev = dev /\ w.sym = sym
  BY <1>1, WantedIs DEF TypesInv
<1>3. /\ KeymapInv(w.map) /\ MapOK(w.map) /\ w.shift.events \in Seq(Events) /\ w.level3.events \in Seq(Events)
      /\ w.key \in Keycodes \cup {NoKey}
  BY <1>2 DEF PlanTypes, KeymapInv
<1>4. DevPlain(dev) /\ DevSingle(dev)
  BY PlainRun, SingleRun DEF KeysInv, SeenInv, UpToDate, TypesInv, KeyboardTypes
<1> HIDE DEF dev
<1>5. ASSUME NEW seen \in Symbols \cup {NoSymbol}, seen # NoSymbol => w.key # NoKey, TypeStarts(w, seen),
             seen # NoSymbol /\ dev.locked \cap FakedMods = {} => seen \in Meanings(sym) \/ sym = "Tab"
      PROVE  \A i \in DOMAIN typed' : RightlySeen(typed'[i])
  <2>1. HistoryTypes /\ w.sym \in Characters /\ w.dev \in Keyboards
    BY <1>2 DEF TypesInv
  <2>2. PICK carries \in Seq(Groups) :
          Latest([key |-> w.key, sym |-> w.sym, seen |-> seen, locked |-> w.dev.locked, carries |-> carries],
                 typed, typed')
    BY <1>2, <1>5, <2>1, TypeStartsTypes
  <2> DEFINE t == [key |-> w.key, sym |-> w.sym, seen |-> seen, locked |-> w.dev.locked, carries |-> carries]
  <2>3. RightlySeen(t)
    BY <1>2, <1>5 DEF RightlySeen
  <2> HIDE DEF t
  <2> SUFFICES ASSUME NEW i \in DOMAIN typed' PROVE RightlySeen(typed'[i])
    OBVIOUS
  <2>4. typed'[i] = t \/ (i - 1 \in DOMAIN typed /\ typed'[i] = typed[i - 1])
    BY <2>2 DEF Latest, t
  <2> QED BY <2>3, <2>4 DEF SeenInv
<1>6. TypeStarts(w, NoSymbol) => \A i \in DOMAIN typed' : RightlySeen(typed'[i])
  BY <1>5
<1>7. CASE TypeFails(w)
  BY <1>2, <1>4, <1>6, <1>7 DEF TypeFails, SeenInv, DevSingle
<1>8. CASE TypeStops(w)
  BY <1>2, <1>4, <1>6, <1>8 DEF TypeStops, SeenInv, DevSingle
<1>9. CASE TypePress(w)
  <2> DEFINE map == w.map
             before == w.shift.events \o w.level3.events
             after == <<[key |-> w.key, press |-> TRUE]>> \o Undo(w.level3.events) \o Undo(w.shift.events)
  <2>1. PICK faked \in {mieqProcessInputEvents(w.map, w.dev, w.shift.events \o w.level3.events)} :
          /\ kbd' = mieqProcessInputEvents(w.map, faked, after)
          /\ TypeStarts(w, SymbolSeen(w.map[w.key], lorieGetKeyboardState(faked)))
    BY <1>9 DEF TypePress
  <2>2. w.key # NoKey /\ w.key \in Keycodes /\ ~w.shift.fails /\ ~w.level3.fails
    BY <1>3, <1>9 DEF TypePress
  <2>3. before \in Seq(Events)
    BY <1>3
  <2>4. after \in Seq(Events)
    <3>1. Undo(w.level3.events) \in Seq(Events) /\ Undo(w.shift.events) \in Seq(Events)
      BY <1>3, UndoIs
    <3>2. <<[key |-> w.key, press |-> TRUE]>> \in Seq(Events)
      BY <2>2 DEF Events
    <3> QED BY <3>1, <3>2
  <2>5. faked = mieqProcessInputEvents(map, dev, before) /\ kbd' = mieqProcessInputEvents(map, faked, after)
    BY <1>2, <2>1
  <2>6. KeymapInv(map) /\ MapOK(map) /\ KeyOK(map[w.key])
    BY <1>3, <2>2 DEF MapOK
  <2> DEFINE seen == SymbolSeen(map[w.key], lorieGetKeyboardState(faked))
  <2>7. TypeStarts(w, seen)
    BY <2>1
  <2> HIDE DEF map, before, after
  <2>8. faked \in Keyboards /\ DevSingle(faked)
    BY <1>2, <1>4, <2>3, <2>5, <2>6, RunType, SingleRun
  <2>9. DevSingle(kbd')
    BY <2>4, <2>5, <2>6, <2>8, SingleRun
  <2>10. seen \in Symbols \cup {NoSymbol}
    BY <2>6, <2>8, StateIs, TranslateIs
  <2>11. ASSUME dev.locked \cap FakedMods = {}, sym # "Tab" PROVE seen \in Meanings(sym)
    <3>1. PICK mods : \E Ks \in SUBSET Keycodes, bs \in BOOLEAN, Kl \in SUBSET Keycodes, bl \in BOOLEAN :
            Fakes(w, sym, dev, st, mods, Ks, bs, Kl, bl)
      BY <1>2, <1>4, FakesAre
    <3>2. PICK Ks \in SUBSET Keycodes, bs \in BOOLEAN, Kl \in SUBSET Keycodes, bl \in BOOLEAN :
            Fakes(w, sym, dev, st, mods, Ks, bs, Kl, bl)
      BY <3>1
    <3>3. /\ ShiftFaked(map, dev, st, mods, w.shift, Ks, bs)
          /\ LevelThreeFaked(map, dev, st, mods, w.level3, Kl, bl)
          /\ mods \in TrySet(st.mods, lorieGetLevelThreeMask(map, st))
          /\ SymbolSeen(map[w.key], With(st, mods)) \in Meanings(sym)
      BY <2>2, <2>11, <3>2 DEF Fakes, map
    <3> DEFINE s == w.shift
               l == w.level3
    <3>4. faked = mieqProcessInputEvents(map, dev, s.events \o l.events)
      BY <2>5 DEF before
    <3>5. ~s.fails /\ ~l.fails
      BY <2>2
    <3> HIDE DEF s, l
    <3>6. lorieGetKeyboardState(faked) = With(st, mods)
      BY <1>2, <1>4, <2>6, <2>11, <3>3, <3>4, <3>5, FakedStateIs DEF s, l
    <3> QED BY <3>3, <3>6
  <2> HIDE DEF seen
  <2>12. \A i \in DOMAIN typed' : RightlySeen(typed'[i])
    BY <1>5, <2>2, <2>7, <2>10, <2>11
  <2> QED BY <2>9, <2>12 DEF SeenInv, DevSingle
<1> QED BY <1>1, <1>7, <1>8, <1>9

LEMMA SeenStep ==
  ASSUME PlainModifiers, SingleModifiers, TypesInv, KeysInv, SeenInv, [KbdNext]_kbdVars
  PROVE  SeenInv'
<1>1. KeymapInv(xkb) /\ MapOK(xkb) /\ kbd \in Keyboards /\ kbdQueue \in Seq(Events) /\ DevSingle(kbd)
  BY DEF TypesInv, KeyboardTypes, KeymapInv, SeenInv
<1>2. ASSUME kbd'.down = kbd.down, typed' = typed PROVE SeenInv'
  BY <1>2 DEF SeenInv, DevSingle
<1>3. ASSUME NEW q \in Seq(Events), kbd' = mieqProcessInputEvents(xkb, kbd, q), typed' = typed PROVE SeenInv'
  <2>1. DevSingle(kbd')
    BY <1>1, <1>3, SingleRun
  <2> QED BY <1>3, <2>1 DEF SeenInv, DevSingle
<1>4. ASSUME NEW k \in RawKeys, RawKey(k) PROVE SeenInv'
  BY <1>2, <1>4 DEF RawKey
<1>5. CASE ProcessQueue
  BY <1>1, <1>3, <1>5 DEF ProcessQueue
<1>6. ASSUME NEW sym \in Characters, TypeSymbol(sym) PROVE SeenInv'
  BY <1>6, SeenTypeSymbol
<1>7. CASE TypeRelease
  <2> DEFINE keys == {k \in Keycodes : pressedKeys[k] = typing}
             up   == Releases({Min(keys)})
  <2>1. typed' = typed /\ kbd' = IF keys = {} THEN kbd ELSE mieqProcessInputEvents(xkb, kbd, kbdQueue \o up)
    BY <1>7 DEF TypeRelease
  <2>2. CASE keys = {}
    BY <1>2, <2>1, <2>2
  <2>3. CASE keys # {}
    <3>1. keys \in SUBSET Nat
      BY KeycodesAre
    <3>2. Min(keys) \in Keycodes
      <4>1. Min(keys) \in keys
        BY <2>3, <3>1, MinIs
      <4> QED BY <4>1
    <3>3. up \in Seq(Events)
      <4>1. \A x \in SUBSET Keycodes : \A b \in BOOLEAN : EventOfEach(x, b) \in Seq(Events)
        BY EventsAre
      <4> QED BY <3>2, <4>1 DEF Releases
    <3>4. kbdQueue \o up \in Seq(Events)
      BY <1>1, <3>3
    <3> HIDE DEF up, keys
    <3> QED BY <1>3, <2>1, <2>3, <3>4
  <2> QED BY <2>2, <2>3
<1>8. CASE \/ \E k \in Spare : OtherClient([xkb EXCEPT ![k].groups = OtherKey.groups], kbd.locked, kbd.group)
           \/ OtherClient(Keymap, kbd.locked, kbd.group)
           \/ \E m \in Modifiers : OtherClient(xkb, Toggled(kbd.locked, {m}), kbd.group)
           \/ \E g \in GroupSet : OtherClient(xkb, kbd.locked, g)
  <2>1. PICK map \in ClientMaps, locked \in SUBSET Modifiers, group \in GroupSet : OtherClient(map, locked, group)
    BY <1>8, OtherClientSteps
  <2>2. kbd' = [kbd EXCEPT !.locked = locked, !.group = group] /\ typed' = typed
    BY <2>1 DEF OtherClient
  <2>3. kbd = [down |-> kbd.down, locked |-> kbd.locked, group |-> kbd.group]
    BY <1>1, DevicesAre
  <2> QED BY <1>2, <2>2, <2>3
<1>9. CASE UNCHANGED kbdVars
  BY <1>2, <1>9 DEF kbdVars
<1> QED BY <1>4, <1>5, <1>6, <1>7, <1>8, <1>9 DEF KbdNext

\* In every keymap with plain modifiers, of which no other key sets Shift or
\* level three, a character that is pressed is seen as that character, or as one
\* with the same meaning, whatever the user holds and has locked: the fake
\* modifiers make the state the one its keycode was found for.  The exceptions
\* are Tab, and Shift or level three locked by another client.
THEOREM CharactersSeen == PlainModifiers /\ SingleModifiers /\ KbdSpec => []TypedRight
<1> SUFFICES ASSUME PlainModifiers, SingleModifiers PROVE KbdSpec => []TypedRight
  OBVIOUS
<1>1. KbdInit => TypesInv /\ KeysInv /\ SeenInv
  BY TypesInit, KeysInit, SeenInit
<1>2. TypesInv /\ KeysInv /\ SeenInv /\ [KbdNext]_kbdVars => TypesInv' /\ KeysInv' /\ SeenInv'
  BY TypesStep, KeysStep, SeenStep
<1>3. SeenInv => TypedRight
  BY SeenInvImplies
<1> QED BY <1>1, <1>2, <1>3, PTL DEF KbdSpec

=============================================================================
