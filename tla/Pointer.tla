------------------------------- MODULE Pointer -------------------------------
(***************************************************************************)
(* Pens, mouse buttons and fingers, from the activity's listeners to the X *)
(* server's devices.  A pen and its eraser are devices of their own, which *)
(* exist while Android has a stylus; the X server works out which of their *)
(* buttons changed from the buttons of the last event, whatever device     *)
(* that was for.  Touches wait for the main thread, all other events are   *)
(* queued by the input thread that reads them.                             *)
(*                                                                         *)
(* Events are read in the order they are written and those that were not   *)
(* read are lost with the connection, so that reading an event is one step *)
(* with sending it: the events lost are those sent after the HangUp.       *)
(***************************************************************************)
EXTENDS Integers, Sequences, FiniteSets, SequencesExt

CONSTANTS
  Buttons,   \* buttons of a stylus, and of a mouse
  Fingers,   \* ids that Android gives to the fingers
  MaxWork    \* touches that wait for the main thread

ASSUME PointerAssumption == IsFiniteSet(Fingers) /\ MaxWork \in Nat

Devices == {"lorieMouse", "loriePen", "lorieEraser"}
Tools   == {"pen", "eraser"}

VARIABLES
  connected,      \* conn_fd of both sides
  stylus,         \* StylusListener: the device and the buttons of the last event
  stylusIsMouse,  \* the preference
  savedBS,        \* HardwareMouseListener: buttons of the mouse
  fingers,        \* fingers on the screen
  pointers,       \* InputEventSender: the ids that are TRUE in pointers[]
  available,      \* loriePen and lorieEraser exist
  buttons_prev,   \* handleLorieEvents
  down,           \* device -> buttons that are down for X clients
  touchWork,      \* work queue: handleTouchEvent
  active,         \* touches of lorieTouch that are active
  steady,         \* history: no button changed unseen since all were up
  unseen          \* history: fingers that went down or up unseen, and were not told of since

stylusVars == <<stylus, buttons_prev>>
touchVars  == <<fingers, pointers, touchWork, active, unseen>>
pointerVars == <<connected, stylusVars, stylusIsMouse, savedBS, available, down, steady, touchVars>>

NothingDown == [d \in Devices |-> {}]

PointerInit ==
  /\ connected = FALSE /\ available = FALSE /\ stylusIsMouse \in BOOLEAN
  /\ stylus = [device |-> "loriePen", buttons |-> {}] /\ savedBS = {}
  /\ buttons_prev = {} /\ down = NothingDown /\ steady = TRUE
  /\ fingers = {} /\ pointers = {} /\ touchWork = <<>> /\ active = {} /\ unseen = {}

\* Nobody holds a button and none is down.
AllUp == stylus.buttons = {} /\ savedBS = {} /\ buttons_prev = {} /\ down = NothingDown

Watch(disturbed) == steady' = (AllUp' \/ (steady /\ ~disturbed))

----------------------------------------------------------------------------
(* Buttons.                                                                *)

StylusDevice(tool) == IF stylusIsMouse THEN "lorieMouse"
                      ELSE IF tool = "eraser" THEN "lorieEraser" ELSE "loriePen"

Exists(d) == d = "lorieMouse" \/ available

EventStylusMutant(d, buttons) ==
  /\ down' = [down EXCEPT ![d] = (@ \ (buttons_prev \ buttons)) \cup (buttons \ buttons_prev)]
  /\ buttons_prev' = buttons_prev \cup buttons

\* EVENT_STYLUS: what differs from the last event is pressed or released.
EventStylus(d, buttons) ==
  /\ down' = [down EXCEPT ![d] = (@ \ (buttons_prev \ buttons)) \cup (buttons \ buttons_prev)]
  /\ buttons_prev' = buttons

\* The pen is moved, put down or lifted, or its buttons are used.
onStylus(tool, buttons) ==
  LET d == StylusDevice(tool)
  IN  /\ stylus' = [device |-> d, buttons |-> buttons]
      /\ IF connected /\ Exists(d) THEN EventStylus(d, buttons) ELSE UNCHANGED <<buttons_prev, down>>
      /\ UNCHANGED <<connected, stylusIsMouse, savedBS, available, touchVars>>
      /\ Watch(\/ ~(connected /\ Exists(d)) /\ buttons # stylus.buttons
               \/ d # stylus.device /\ stylus.buttons # {}
               \/ d = "lorieMouse" /\ stylus.buttons \cap savedBS # {})

\* EVENT_MOUSE, one event for each button that changed.
EventMouse(pressed, released) ==
  down' = [down EXCEPT !["lorieMouse"] = (@ \cup pressed) \ released]

onMouse(buttons) ==
  /\ buttons # savedBS
  /\ savedBS' = buttons
  /\ IF connected THEN EventMouse(buttons \ savedBS, savedBS \ buttons) ELSE UNCHANGED down
  /\ UNCHANGED <<connected, stylusVars, stylusIsMouse, available, touchVars>>
  /\ Watch(\/ ~connected
           \/ stylus.device = "lorieMouse" /\ stylus.buttons \cap savedBS # {})

lorieSetStylusEnabledMutant(enabled) == available' = enabled /\ UNCHANGED down

\* The devices are made or removed, which releases their buttons.
lorieSetStylusEnabled(enabled) ==
  /\ available' = enabled
  /\ down' = IF enabled THEN down
             ELSE [down EXCEPT !["loriePen"] = {}, !["lorieEraser"] = {}]

refreshInputDevices(enabled) ==
  /\ connected
  /\ lorieSetStylusEnabled(enabled)
  /\ UNCHANGED <<connected, stylusVars, stylusIsMouse, savedBS, touchVars>>
  /\ Watch(~enabled /\ stylus.device # "lorieMouse" /\ stylus.buttons # {})

reloadPreferences ==
  /\ stylusIsMouse' = ~stylusIsMouse
  /\ UNCHANGED <<connected, stylusVars, savedBS, available, down, steady, touchVars>>

----------------------------------------------------------------------------
(* Touches.                                                                *)

Send(events) ==
  IF connected
  THEN /\ Len(touchWork) + Len(events) <= MaxWork
       /\ touchWork' = touchWork \o events
  ELSE UNCHANGED touchWork

Touch(type, id) == [type |-> type, id |-> id]
Each(type, ids) == [i \in 1..Cardinality(ids) |-> Touch(type, SetToSeq(ids)[i])]

otherVars == <<connected, stylusVars, stylusIsMouse, savedBS, available, down, steady, active>>

\* What stays unseen, when one finger went down or up.
SeenIf(told, id) == unseen' = IF told THEN unseen \ {id} ELSE unseen \cup {id}

FingerDown(id) ==
  /\ id \notin fingers
  /\ fingers' = fingers \cup {id}
  /\ Send(<<Touch("XI_TouchBegin", id)>>)
  /\ SeenIf(connected, id)
  /\ UNCHANGED <<otherVars, pointers>>

FingerUp(id) ==
  /\ id \in fingers
  /\ fingers' = fingers \ {id}
  /\ Send(<<Touch("XI_TouchUpdate", id), Touch("XI_TouchEnd", id)>>)
  /\ SeenIf(connected, id)
  /\ UNCHANGED <<otherVars, pointers>>

\* Sometimes Android does not tell.
FingerUpMissed(id) ==
  /\ id \in fingers
  /\ fingers' = fingers \ {id} /\ SeenIf(FALSE, id)
  /\ UNCHANGED <<otherVars, pointers, touchWork>>

\* ACTION_CANCEL is about all the fingers and handled like the lifting of one.
Cancel(id) ==
  /\ id \in fingers
  /\ fingers' = {}
  /\ Send(<<Touch("XI_TouchUpdate", id), Touch("XI_TouchEnd", id)>>)
  /\ unseen' = IF connected THEN (unseen \cup fingers) \ {id} ELSE unseen \cup fingers
  /\ UNCHANGED <<otherVars, pointers>>

FingersMoveMutant ==
  /\ fingers # {}
  /\ pointers' = pointers \cup fingers
  /\ Send(Each("XI_TouchUpdate", fingers))
  /\ unseen' = IF connected THEN unseen \cap (pointers' \ fingers) ELSE unseen
  /\ UNCHANGED <<otherVars, fingers>>

\* A move tells of the fingers on the screen, and ends the touch of a finger
\* that is not there; but not of one that some earlier move was about, as its
\* entry of pointers[] stays.
FingersMove ==
  /\ fingers # {}
  /\ pointers' = pointers \cup fingers
  /\ Send(Each("XI_TouchUpdate", fingers) \o Each("XI_TouchEnd", Fingers \ pointers'))
  /\ unseen' = IF connected THEN unseen \cap (pointers' \ fingers) ELSE unseen
  /\ UNCHANGED <<otherVars, fingers>>

\* An update of a touch that is not active begins it, other events of such a
\* touch are dropped.
handleTouchEvent ==
  /\ touchWork # <<>>
  /\ touchWork' = Tail(touchWork)
  /\ active' = IF Head(touchWork).type = "XI_TouchEnd" THEN active \ {Head(touchWork).id}
               ELSE active \cup {Head(touchWork).id}
  /\ UNCHANGED <<connected, stylusVars, stylusIsMouse, savedBS, available, down, steady, fingers,
                 pointers, unseen>>

----------------------------------------------------------------------------
Connect ==
  /\ ~connected /\ connected' = TRUE
  /\ UNCHANGED <<stylusVars, stylusIsMouse, savedBS, available, down, steady, touchVars>>

\* The X server leaves its devices as they are.
HangUp ==
  /\ connected /\ connected' = FALSE
  /\ UNCHANGED <<stylusVars, stylusIsMouse, savedBS, available, down, steady, touchVars>>

\* A new activity knows of no button and no finger.
ActivityRestart ==
  /\ connected' = FALSE
  /\ stylus' = [device |-> "loriePen", buttons |-> {}] /\ savedBS' = {}
  /\ fingers' = {} /\ pointers' = {}
  /\ unseen' = unseen \cup fingers
  /\ UNCHANGED <<buttons_prev, stylusIsMouse, available, down, touchWork, active>>
  /\ Watch(stylus.buttons \cup savedBS # {})

ConnectionNext == Connect \/ HangUp \/ ActivityRestart

ButtonsNext ==
  \/ \E tool \in Tools, buttons \in SUBSET Buttons : onStylus(tool, buttons)
  \/ \E buttons \in SUBSET Buttons : onMouse(buttons)
  \/ \E enabled \in BOOLEAN : refreshInputDevices(enabled)
  \/ reloadPreferences

TouchNext ==
  \/ \E id \in Fingers : FingerDown(id) \/ FingerUp(id) \/ FingerUpMissed(id) \/ Cancel(id)
  \/ FingersMove \/ handleTouchEvent

\* Buttons and touches share nothing but the connection.
PointerNext == ConnectionNext \/ ButtonsNext \/ TouchNext

PointerSpec == PointerInit /\ [][PointerNext]_pointerVars

----------------------------------------------------------------------------
(* Properties.                                                             *)

Touches == [type : {"XI_TouchBegin", "XI_TouchUpdate", "XI_TouchEnd"}, id : Fingers]

\* Types of the pointer variables; no button is down on a device that does not
\* exist.
PointerTypeOK ==
  /\ connected \in BOOLEAN /\ available \in BOOLEAN /\ stylusIsMouse \in BOOLEAN
  /\ stylus \in [device : Devices, buttons : SUBSET Buttons]
  /\ savedBS \subseteq Buttons /\ buttons_prev \subseteq Buttons
  /\ down \in [Devices -> SUBSET Buttons]
  /\ \A d \in Devices : Exists(d) \/ down[d] = {}
  /\ fingers \subseteq Fingers /\ pointers \subseteq Fingers
  /\ active \subseteq Fingers /\ unseen \subseteq Fingers
  /\ touchWork \in Seq(Touches) /\ Len(touchWork) <= MaxWork
  /\ steady \in BOOLEAN

\* What the user holds on a device.
HeldOn(d) == (IF d = stylus.device THEN stylus.buttons ELSE {})
             \cup (IF d = "lorieMouse" THEN savedBS ELSE {})

\* X clients see exactly the buttons that are held: none is stuck on a device
\* and no press is missing, although the X server compares each event with the
\* last one of whichever device.  That holds until a button is held while the
\* connection or the devices are gone, the pen is turned around, or a pen that
\* acts as mouse shares a button with the mouse; and again as soon as all
\* buttons are up.
ButtonsAsHeld == steady => \A d \in Devices : down[d] = HeldOn(d)

\* When the main thread has caught up, the touches that X clients see are the
\* fingers on the screen.  A finger that was put down or lifted unseen (without
\* a connection, in a CANCEL of several fingers, or not told by Android) differs
\* at most until the next move, if it is on the screen then or no earlier move
\* of this activity was about it; a touch that an earlier move was about stays
\* until its finger moves, is put down or lifted again.
TouchesAsFingers ==
  touchWork = <<>> => active \ unseen = fingers \ unseen
=============================================================================
