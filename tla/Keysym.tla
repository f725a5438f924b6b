-------------------------------- MODULE Keysym --------------------------------
(***************************************************************************)
(* How the X server types a character: the input thread looks for a        *)
(* keycode that yields the symbol, puts the symbol on a spare keycode if   *)
(* there is none, and fakes presses and releases of Shift and of the level *)
(* three modifier around the key.  Keys of a real keyboard are queued by   *)
(* the same thread; the queue is processed by the main thread or by the    *)
(* next character.                                                         *)
(*                                                                         *)
(* A key is a sequence of groups, each with a key type, a symbol and an    *)
(* action for every level.  Modifier states are sets.  Other X clients may *)
(* replace the keymap, give a spare key another symbol or lock a group.    *)
(***************************************************************************)
EXTENDS Integers, Sequences, SequencesExt

CONSTANTS
  Keycodes,      \* min_key_code .. max_key_code
  FakeKeys,      \* fakeKeys, modifiers a keyboard does not send
  Lower, Upper,  \* XkbConvertCase, symbol -> symbol
  Alternatives,  \* altKeysym, symbol -> the sequence of those that mean the same
  KeyTypes,      \* name -> [mask, map]
  Keymap,        \* the keymap the server starts with
  RawKeys,       \* keys of the real keyboard
  Characters,    \* symbols that are typed as characters
  GroupSet,      \* groups another client may lock
  OtherKey,      \* what another client may put on a spare key
  MaxInputs      \* bound: key events, characters and steps of other clients

NoSymbol == "NoSymbol"
NoKey    == 0
Modifiers == {"Shift", "Lock", "NumLock", "Level3"}

\* The keycodes without a symbol, and how many characters they can keep at once.
Spare  == {k \in Keycodes : Keymap[k].groups = <<>>}
Window == Cardinality(Spare)

\* What the X server makes sure of in every keymap: keycodes have eight bits, a
\* key has a symbol for every level of its type, and an action if it has any.
Symbols == DOMAIN Lower
Actions == [type : {"NoAction", "SetMods", "LockMods"}, mods : SUBSET Modifiers, useModMap : BOOLEAN]
Groups  == [type : DOMAIN KeyTypes, syms : Seq(Symbols \cup {NoSymbol}), acts : Seq(Actions)]
KeyDescs == [groups : Seq(Groups), over : {"wrap", "clamp", "redirect"}, redirect : Nat \ {0},
             modmap : SUBSET Modifiers, name : {"T", "other"}]

LevelsOf(type) == {1} \cup {e.level : e \in KeyTypes[type].map}

HasLevels(group) ==
  /\ LevelsOf(group.type) \subseteq DOMAIN group.syms
  /\ group.acts = <<>> \/ LevelsOf(group.type) \subseteq DOMAIN group.acts

\* Characters have no case form that is a symbol of the level-three keys.
LevelThreeSymbols == {"ISO_Level3_Shift", "Mode_switch"}
CaseForms(sym) == {Lower[sym], Upper[sym], Upper[Lower[sym]], Upper[Upper[sym]]}

ASSUME KeysymAssumption ==
  /\ Keycodes \subseteq 1..255 /\ RawKeys \subseteq Keycodes
  /\ MaxInputs \in Nat
  /\ 1 \in GroupSet /\ GroupSet \subseteq Nat \ {0}
  /\ NoSymbol \notin Symbols
  /\ \A sym \in Characters : sym \in Symbols /\ CaseForms(sym) \cap LevelThreeSymbols = {}
  /\ Keymap \in [Keycodes -> KeyDescs] /\ OtherKey \in KeyDescs
  /\ \A key \in {Keymap[k] : k \in Keycodes} \cup {OtherKey} :
       \A g \in DOMAIN key.groups : HasLevels(key.groups[g])
  /\ "ALPHABETIC" \in DOMAIN KeyTypes /\ LevelsOf("ALPHABETIC") \subseteq 1..2
  /\ Lower \in [Symbols -> Symbols] /\ Upper \in [Symbols -> Symbols]
  /\ \A sym \in Symbols : Lower[Lower[sym]] = Lower[sym]
  /\ Alternatives \in [Symbols -> Seq(Symbols)]

VARIABLES
  xkb,           \* the keymap of the master keyboard
  kbd,           \* the master keyboard: keys down, locked modifiers, group
  addedKeysyms,  \* the symbols put on spare keys, the last used first
  pressedKeys,   \* keycode -> the symbol it was pressed for
  kbdQueue,      \* mieq: key events not yet processed
  typing,        \* the symbol between its press and its release, or NoSymbol
  held,          \* history: the keys the user holds
  leftover,      \* history: keys faked and not restored after an early return
  typed,         \* history: the last Window characters, the last one first
  remapped,      \* history: another client has changed the keymap
  keyInputs      \* inputs so far

kbdVars == <<xkb, kbd, addedKeysyms, pressedKeys, kbdQueue, typing, held, leftover, typed,
             remapped, keyInputs>>

NoEffect == [type |-> "NoAction", mods |-> {}, useModMap |-> FALSE]
NoPresses == [k \in Keycodes |-> NoSymbol]

----------------------------------------------------------------------------
(* Looking at a key in a state [mods, group].                              *)

\* The group of a key, counted from 1: groups out of range wrap, are clamped
\* or redirected as the key says.
XkbKeyEffectiveGroup(key, st) ==
  LET n == Len(key.groups) IN
  IF n = 0 THEN 1
  ELSE IF st.group <= n THEN st.group
  ELSE CASE key.over = "wrap"  -> ((st.group - 1) % n) + 1
         [] key.over = "clamp" -> n
         [] OTHER              -> IF key.redirect <= n THEN key.redirect ELSE 1

\* The entry of a key type for the modifiers, the first level if none is listed.
EntryOf(type, mods) ==
  LET fits == {e \in type.map : e.mods = mods \cap type.mask}
  IN  IF fits = {} THEN [mods |-> {}, level |-> 1, preserve |-> {}]
                   ELSE CHOOSE e \in fits : TRUE

\* The symbol, and the modifiers the key may consume.
XkbTranslateKeyCode(key, st) ==
  IF key.groups = <<>> THEN [sym |-> NoSymbol, consumed |-> {}]
  ELSE LET g     == key.groups[XkbKeyEffectiveGroup(key, st)]
           entry == EntryOf(KeyTypes[g.type], st.mods)
       IN  [sym |-> g.syms[entry.level], consumed |-> KeyTypes[g.type].mask \ entry.preserve]

XkbKeyActionPtr(key, st) ==
  IF key.groups = <<>> THEN NoEffect
  ELSE LET g == key.groups[XkbKeyEffectiveGroup(key, st)]
       IN  IF g.acts = <<>> THEN NoEffect ELSE g.acts[EntryOf(KeyTypes[g.type], st.mods).level]

\* The symbol a client sees: a Lock the key does not consume makes it a capital.
SymbolSeen(key, st) ==
  LET t == XkbTranslateKeyCode(key, st)
  IN  IF t.sym # NoSymbol /\ "Lock" \in st.mods \ t.consumed THEN Upper[t.sym] ELSE t.sym

\* The modifiers a key sets while it is down, none if there is no key.
ActMods(act, key) ==
  IF act.type # "SetMods" THEN {} ELSE IF act.useModMap THEN key.modmap ELSE act.mods

ModsOf(map, k, st) ==
  IF k = NoKey THEN {} ELSE ActMods(XkbKeyActionPtr(map[k], st), map[k])

\* Those it sets whatever its action is.
PressMods(key, st) ==
  IF XkbKeyActionPtr(key, st).useModMap THEN key.modmap ELSE XkbKeyActionPtr(key, st).mods

----------------------------------------------------------------------------
(* The master keyboard, part of the X server.                              *)

lorieGetKeyboardState(dev) ==
  [mods  |-> dev.locked \cup UNION {dev.down[k].set : k \in DOMAIN dev.down},
   group |-> dev.group]

\* A press of a key that is down and a release of one that is not change nothing.
ProcessKey(map, dev, event) ==
  LET k    == event.key
      mods == PressMods(map[k], lorieGetKeyboardState(dev))
      lock == XkbKeyActionPtr(map[k], lorieGetKeyboardState(dev)).type = "LockMods"
  IN  CASE event.press /\ k \notin DOMAIN dev.down ->
             [dev EXCEPT !.down = [x \in DOMAIN @ \cup {k} |->
                 IF x = k THEN [set |-> mods, unlock |-> IF lock THEN mods \cap dev.locked ELSE {}]
                          ELSE @[x]],
                         !.locked = IF lock THEN @ \cup mods ELSE @]
        [] ~event.press /\ k \in DOMAIN dev.down ->
             [dev EXCEPT !.down = [x \in DOMAIN @ \ {k} |-> @[x]],
                         !.locked = @ \ dev.down[k].unlock]
        [] OTHER -> dev

mieqProcessInputEvents(map, dev, events) ==
  LET after[n \in 0..Len(events)] ==
        IF n = 0 THEN dev ELSE ProcessKey(map, after[n - 1], events[n])
  IN  after[Len(events)]

\* The same event for each key, in the order of their numbers.
Nth(keys, i) == CHOOSE k \in keys : Cardinality({j \in keys : j < k}) = i - 1

EventOfEach(keys, press) ==
  [i \in 1..Cardinality(keys) |-> [key |-> Nth(keys, i), press |-> press]]

Presses(keys)  == EventOfEach(keys, TRUE)
Releases(keys) == EventOfEach(keys, FALSE)

----------------------------------------------------------------------------
(* Finding a keycode.                                                      *)

\* The first keycode of a set, fake keys last.
RealKeysFirst(keys) ==
  IF keys \ FakeKeys # {} THEN Min(keys \ FakeKeys) ELSE IF keys # {} THEN Min(keys) ELSE NoKey

\* The first element that has a keycode, or the default.
FirstFound(found, default) ==
  LET hits == {i \in DOMAIN found : found[i].key # NoKey}
  IN  IF hits = {} THEN default ELSE found[Min(hits)]

\* The keycode that yields the symbol in this state.
KeyInState(map, sym, st) ==
  RealKeysFirst({k \in Keycodes : sym # NoSymbol /\ SymbolSeen(map[k], st) = sym})

LevelThreeKey(map, st) ==
  FirstFound(<<[key |-> KeyInState(map, "ISO_Level3_Shift", st)],
               [key |-> KeyInState(map, "Mode_switch", st)]>>, [key |-> NoKey]).key

NoMods(st) == [st EXCEPT !.mods = {}]

lorieGetLevelThreeMask(map, st) == ModsOf(map, LevelThreeKey(map, NoMods(st)), NoMods(st))

Toggled(mods, m) == (mods \ m) \cup (IF mods \cap m = {} THEN m ELSE {})

\* The modifiers to try: those of the state, then with Shift, with level three
\* and with both of them toggled.
Tries(mods, l3) ==
  LET shifted == Toggled(mods, {"Shift"})
  IN  IF l3 = {} THEN <<mods, shifted>>
                 ELSE <<mods, shifted, Toggled(mods, l3), Toggled(shifted, l3)>>

KeysFor(map, sym, st, tries) ==
  [i \in DOMAIN tries |-> [key  |-> KeyInState(map, sym, [st EXCEPT !.mods = tries[i]]),
                           mods |-> tries[i]]]

\* A keycode and the modifiers it needs.
lorieKeysymToKeycode(map, sym, st) ==
  FirstFound(KeysFor(map, sym, st, Tries(st.mods, lorieGetLevelThreeMask(map, st))),
             [key |-> NoKey, mods |-> st.mods])

\* The same for each of some symbols.
KeysForEach(map, syms, st) == [i \in DOMAIN syms |-> lorieKeysymToKeycode(map, syms[i], st)]

\* The type of a key depends on the modifiers that another key locks.
Locks(map, lock, k, st) ==
  LET act  == XkbKeyActionPtr(map[lock], st)
      mask == IF act.useModMap THEN map[k].modmap ELSE act.mods
      g    == map[k].groups[XkbKeyEffectiveGroup(map[k], st)]
  IN  act.type = "LockMods" /\ KeyTypes[g.type].mask \cap mask # {}

NumLockKey(map, st) == {KeyInState(map, "Num_Lock", st)} \ {NoKey}

lorieIsAffectedByNumLock(map, k, st) ==
  \E lock \in NumLockKey(map, NoMods(st)) : Locks(map, lock, k, NoMods(st))

ShiftsNumeric(map, found, st) ==
  /\ ("Shift" \in st.mods) # ("Shift" \in found.mods)
  /\ lorieIsAffectedByNumLock(map, found.key, st)

\* A key of the numeric pad that needs a fake Shift gives way to an equivalent
\* symbol that does not.
Unshifted(map, found, st) ==
  IF found.key # NoKey /\ ShiftsNumeric(map, found, st) THEN [found EXCEPT !.key = NoKey]
                                                        ELSE found

AvoidFakeShift(map, sym, st, found) ==
  IF Unshifted(map, found, st) = found THEN found
  ELSE FirstFound([i \in DOMAIN Alternatives[sym] |->
                     Unshifted(map, lorieKeysymToKeycode(map, Alternatives[sym][i], st), st)],
                  found)

----------------------------------------------------------------------------
(* Spare keycodes.                                                         *)

saveAddedKeysym(list, k, sym) == <<[keycode |-> k, keysym |-> sym]>> \o list

vncOnKeyUsedMutant(list, k) == list

\* The key that was used goes to the front.
vncOnKeyUsed(list, k) ==
  LET at == {i \in DOMAIN list : list[i].keycode = k}
  IN  IF at = {} THEN list ELSE <<list[Min(at)]>> \o RemoveAt(list, Min(at))

\* Nobody else has modified the key since the symbol was put there.
Unmodified(map, entry) ==
  /\ map[entry.keycode].groups # <<>>
  /\ map[entry.keycode].groups[1].syms[1] = entry.keysym
  /\ map[entry.keycode].name = "T"

getReusableKeycodeMutant(map, list) ==
  LET usable == {i \in DOMAIN list : Unmodified(map, list[i])}
  IN  IF usable = {} THEN [key |-> NoKey, list |-> <<>>]
      ELSE [key |-> list[Min(usable)].keycode, list |-> SubSeq(list, 1, Min(usable) - 1)]

\* The oldest entry that nobody else has modified; it leaves the list with all
\* that are older.
getReusableKeycode(map, list) ==
  LET usable == {i \in DOMAIN list : Unmodified(map, list[i])}
  IN  IF usable = {} THEN [key |-> NoKey, list |-> <<>>]
      ELSE [key |-> list[Max(usable)].keycode, list |-> SubSeq(list, 1, Max(usable) - 1)]

AddedGroup(sym) == [type |-> "ALPHABETIC", syms |-> <<Lower[sym], Upper[sym]>>, acts |-> <<>>]

SpareKey(map, list, free) ==
  IF free # {} THEN [key |-> Max(free), list |-> list] ELSE getReusableKeycode(map, list)

Add(map, sym, at) ==
  IF at.key = NoKey THEN [map |-> map, list |-> at.list]
  ELSE [map  |-> [map EXCEPT ![at.key] = [@ EXCEPT !.groups = <<AddedGroup(sym)>>, !.name = "T"]],
        list |-> saveAddedKeysym(at.list, at.key, Lower[sym])]

\* The highest keycode without symbols, else one that is reused.
lorieAddKeysym(map, list, sym) ==
  Add(map, sym, SpareKey(map, list, {k \in Keycodes : map[k].groups = <<>>}))

----------------------------------------------------------------------------
(* Fake modifiers.                                                         *)

\* A key that sets Shift.
loriePressShift(map, st) ==
  LET keys == {k \in Keycodes : "Shift" \in ModsOf(map, k, st)}
  IN  IF keys = {} THEN {} ELSE {Min(keys)}

\* The keys down that set one of the modifiers, none if there are more than 8.
KeysHolding(map, dev, st, mods) ==
  LET keys == {k \in DOMAIN dev.down : ModsOf(map, k, st) \cap mods # {}}
  IN  IF Cardinality(keys) > 8 THEN {} ELSE keys

lorieReleaseShift(map, dev, st) == KeysHolding(map, dev, st, {"Shift"})

IfSets(map, k, st) ==
  IF k # NoKey /\ XkbKeyActionPtr(map[k], st).type = "SetMods" THEN {k} ELSE {}

loriePressLevelThree(map, st) == IfSets(map, LevelThreeKey(map, st), st)

lorieReleaseLevelThree(map, dev, st) ==
  KeysHolding(map, dev, st, lorieGetLevelThreeMask(map, st))

\* The keymap and the list with the symbol added to them, and its keycode.
WithAdded(added, sym, st) ==
  [map |-> added.map, list |-> added.list, found |-> lorieKeysymToKeycode(added.map, sym, st)]

\* The symbol is only added if neither it nor an equivalent has a keycode.
AddIfMissing(map, list, sym, st, found) ==
  IF found.key # NoKey THEN [map |-> map, list |-> list, found |-> found]
                       ELSE WithAdded(lorieAddKeysym(map, list, sym), sym, st)

\* A shifted Tab is sent with Shift.
KeepShift(sym, st, found) ==
  IF sym = "Tab" THEN [found EXCEPT !.mods = @ \cup (st.mods \cap {"Shift"})] ELSE found

FindKey(map, list, sym, st) ==
  AddIfMissing(map, list, sym, st,
    FirstFound(KeysForEach(map, <<sym>> \o Alternatives[sym], st),
               [key |-> NoKey, mods |-> st.mods]))

\* The events that turn on or off the modifiers of mask, as far as the state
\* and the modifiers wanted differ in them; fails if there is no key for it.
Fake(mask, st, mods, press, release) ==
  CASE mask \cap st.mods = {} /\ mask \cap mods # {} ->
         [events |-> Presses(press), fails |-> press = {}]
    [] mask \cap st.mods # {} /\ mask \cap mods = {} ->
         [events |-> Releases(release), fails |-> release = {}]
    [] OTHER -> [events |-> <<>>, fails |-> FALSE]

FakeShift(map, dev, st, mods) ==
  Fake({"Shift"}, st, mods, loriePressShift(map, st), lorieReleaseShift(map, dev, st))

FakeLevelThree(map, dev, st, mods) ==
  Fake(IF mods \ {"Shift"} = st.mods \ {"Shift"} THEN {} ELSE lorieGetLevelThreeMask(map, st),
       st, mods, loriePressLevelThree(map, st), lorieReleaseLevelThree(map, dev, st))

\* What lorieKeysymKeyboardEvent works out before it fakes anything.
Planned(sym, dev, st, w, found) ==
  [sym |-> sym, dev |-> dev, map |-> w.map, list |-> w.list, key |-> found.key,
   shift  |-> FakeShift(w.map, dev, st, found.mods),
   level3 |-> FakeLevelThree(w.map, dev, st, found.mods)]

Chosen(sym, dev, st, w) ==
  Planned(sym, dev, st, w, KeepShift(sym, st, AvoidFakeShift(w.map, sym, st, w.found)))

Plan(sym, dev, st) == Chosen(sym, dev, st, FindKey(xkb, addedKeysyms, sym, st))

WantedMutant(sym) ==
  Plan(sym, mieqProcessInputEvents(xkb, kbd, kbdQueue), lorieGetKeyboardState(kbd))

\* The queue is processed first, so that the state is up to date.
Wanted(sym) ==
  LET dev == mieqProcessInputEvents(xkb, kbd, kbdQueue)
  IN  Plan(sym, dev, lorieGetKeyboardState(dev))

UndoMutant(events) == <<>>

Undo(events) == [i \in DOMAIN events |-> [events[i] EXCEPT !.press = ~@]]

----------------------------------------------------------------------------
KbdInit ==
  /\ xkb = Keymap
  /\ kbd = [down |-> <<>>, locked |-> {}, group |-> 1]
  /\ addedKeysyms = <<>>
  /\ pressedKeys = NoPresses
  /\ kbdQueue = <<>>
  /\ typing = NoSymbol
  /\ held = {} /\ leftover = {} /\ typed = <<>>
  /\ remapped = FALSE
  /\ keyInputs = 0

Input == keyInputs < MaxInputs /\ keyInputs' = keyInputs + 1

\* EVENT_KEY: the user presses or releases a key, whose event is queued.
RawKey(k) ==
  /\ typing = NoSymbol /\ Input
  /\ held' = IF k \in held THEN held \ {k} ELSE held \cup {k}
  /\ kbdQueue' = Append(kbdQueue, [key |-> k, press |-> k \notin held])
  /\ UNCHANGED <<xkb, kbd, addedKeysyms, pressedKeys, typing, leftover, typed, remapped>>

\* The main thread processes the queue.
ProcessQueue ==
  /\ kbdQueue # <<>>
  /\ kbd' = mieqProcessInputEvents(xkb, kbd, kbdQueue)
  /\ kbdQueue' = <<>>
  /\ UNCHANGED <<xkb, addedKeysyms, pressedKeys, typing, held, leftover, typed, remapped,
                 keyInputs>>

\* What every press of a character has in common; seen is what clients see.
TypeStarts(w, seen) ==
  /\ typing' = w.sym
  /\ LET t == [key |-> w.key, sym |-> w.sym, seen |-> seen, locked |-> w.dev.locked,
               carries |-> IF seen = NoSymbol THEN <<>> ELSE w.map[w.key].groups]
     IN  typed' = SubSeq(<<t>> \o typed, 1, Min({Window, Len(typed) + 1}))
  /\ xkb' = w.map
  /\ UNCHANGED <<held, remapped>>

\* No key yields the symbol, or none can be found to fake Shift with.
TypeFails(w) ==
  /\ TypeStarts(w, NoSymbol)
  /\ w.key = NoKey \/ w.shift.fails
  /\ kbd' = w.dev /\ kbdQueue' = <<>> /\ addedKeysyms' = w.list
  /\ UNCHANGED <<pressedKeys, leftover>>

\* No key fakes level three: the fake Shift stays queued and is not undone.
TypeStops(w) ==
  /\ TypeStarts(w, NoSymbol)
  /\ w.key # NoKey /\ ~w.shift.fails /\ w.level3.fails
  /\ kbd' = w.dev /\ kbdQueue' = w.shift.events /\ addedKeysyms' = w.list
  /\ leftover' = leftover \cup {e.key : e \in Range(w.shift.events)}
  /\ UNCHANGED pressedKeys

\* The key is pressed between the fake modifiers, and everything is processed.
TypePress(w) ==
  /\ w.key # NoKey /\ ~w.shift.fails /\ ~w.level3.fails
  /\ \E faked \in {mieqProcessInputEvents(w.map, w.dev, w.shift.events \o w.level3.events)} :
       /\ kbd' = mieqProcessInputEvents(w.map, faked,
                    <<[key |-> w.key, press |-> TRUE]>> \o Undo(w.level3.events) \o Undo(w.shift.events))
       /\ TypeStarts(w, SymbolSeen(w.map[w.key], lorieGetKeyboardState(faked)))
  /\ kbdQueue' = <<>>
  /\ addedKeysyms' = vncOnKeyUsed(w.list, w.key)
  /\ pressedKeys' = [k \in Keycodes |-> IF k = w.key THEN w.sym
                                        ELSE IF pressedKeys[k] = w.sym THEN NoSymbol
                                        ELSE pressedKeys[k]]
  /\ UNCHANGED leftover

\* A press of lorieKeysymKeyboardEvent.
TypeSymbol(sym) ==
  /\ typing = NoSymbol /\ Input
  /\ \E w \in {Wanted(sym)} : TypeFails(w) \/ TypeStops(w) \/ TypePress(w)

\* The release looks for the keycode that was pressed for the symbol.
TypeRelease ==
  /\ typing # NoSymbol /\ typing' = NoSymbol
  /\ LET keys == {k \in Keycodes : pressedKeys[k] = typing}
         up   == IF keys = {} THEN <<>> ELSE Releases({Min(keys)})
     IN  /\ pressedKeys' = [k \in Keycodes |-> IF keys # {} /\ k = Min(keys) THEN NoSymbol
                                               ELSE pressedKeys[k]]
         /\ kbd' = IF keys = {} THEN kbd ELSE mieqProcessInputEvents(xkb, kbd, kbdQueue \o up)
         /\ kbdQueue' = IF keys = {} THEN kbdQueue ELSE <<>>
  /\ UNCHANGED <<xkb, addedKeysyms, held, leftover, typed, remapped, keyInputs>>

\* Another client replaces the keymap or the symbol of a spare key, locks a
\* group, or locks or unlocks a modifier.
OtherClient(map, locked, group) ==
  /\ Input
  /\ xkb' = map
  /\ kbd' = [kbd EXCEPT !.locked = locked, !.group = group]
  /\ remapped' = (remapped \/ map # xkb)
  /\ UNCHANGED <<addedKeysyms, pressedKeys, kbdQueue, typing, held, leftover, typed>>

KbdNext ==
  \/ \E k \in RawKeys : RawKey(k)
  \/ ProcessQueue
  \/ \E sym \in Characters : TypeSymbol(sym)
  \/ TypeRelease
  \/ \E k \in Spare :
       OtherClient([xkb EXCEPT ![k].groups = OtherKey.groups], kbd.locked, kbd.group)
  \/ OtherClient(Keymap, kbd.locked, kbd.group)
  \/ \E m \in Modifiers : OtherClient(xkb, Toggled(kbd.locked, {m}), kbd.group)
  \/ \E g \in GroupSet : OtherClient(xkb, kbd.locked, g)

KbdSpec == KbdInit /\ [][KbdNext]_kbdVars

----------------------------------------------------------------------------
(* Properties.                                                             *)

\* Types of the keyboard variables.  Only spare keys ever change, and a keycode
\* is listed for a lower case symbol.
KeysymTypeOK ==
  /\ DOMAIN xkb = Keycodes
  /\ \A k \in Keycodes \ Spare : xkb[k] = Keymap[k]
  /\ \A k \in Spare :
       xkb[k].groups \in {<<>>, OtherKey.groups} \cup {<<AddedGroup(sym)>> : sym \in Characters}
  /\ DOMAIN kbd.down \subseteq Keycodes
  /\ \A k \in DOMAIN kbd.down : kbd.down[k] \in [set : SUBSET Modifiers, unlock : SUBSET Modifiers]
  /\ kbd.locked \subseteq Modifiers /\ kbd.group \in GroupSet
  /\ \A i \in DOMAIN addedKeysyms :
       addedKeysyms[i].keycode \in Spare /\ Lower[addedKeysyms[i].keysym] = addedKeysyms[i].keysym
  /\ pressedKeys \in [Keycodes -> Characters \cup {NoSymbol}]
  /\ \A i \in DOMAIN kbdQueue : kbdQueue[i] \in [key : Keycodes, press : BOOLEAN]
  /\ typing \in Characters \cup {NoSymbol}
  /\ held \subseteq RawKeys /\ leftover \subseteq Keycodes
  /\ Len(typed) <= Window
  /\ remapped \in BOOLEAN /\ keyInputs \in 0..MaxInputs

\* A symbol and those that mean the same; the states of a keyboard.
Meanings(sym) == {sym} \cup {Alternatives[sym][i] : i \in DOMAIN Alternatives[sym]}
KeyStates == [mods : SUBSET Modifiers, group : GroupSet]
FirstState == [mods |-> {}, group |-> 1]

\* Keymaps whose modifier keys are plain: a key sets the same modifiers in every
\* state, a level-three key sets level three if it sets modifiers, a key that types
\* a character sets none, and what another client puts on a spare key has no
\* actions.
PlainModifiers ==
  /\ \A k \in Keycodes, st \in KeyStates :
       /\ ModsOf(Keymap, k, st) = ModsOf(Keymap, k, FirstState)
       /\ /\ SymbolSeen(Keymap[k], st) \in LevelThreeSymbols
             /\ XkbKeyActionPtr(Keymap[k], st).type = "SetMods"
          => ModsOf(Keymap, k, st) = {"Level3"}
       /\ \A sym \in Characters :
            SymbolSeen(Keymap[k], st) \in Meanings(sym) => ModsOf(Keymap, k, st) = {}
  /\ \A g \in DOMAIN OtherKey.groups : OtherKey.groups[g].acts = <<>>

\* And no key sets Shift or level three but those that set just the one.
SingleModifiers ==
  \A k \in Keycodes, st \in KeyStates :
    PressMods(Keymap[k], st) \cap {"Shift", "Level3"} # {} =>
      ModsOf(Keymap, k, st) \in {{"Shift"}, {"Level3"}}

\* The key of a character yields that character, or one with the same meaning,
\* in the state that clients see when it is pressed: the fake modifiers are
\* right for whatever the user holds and has locked.  A Tab may become another
\* symbol under Shift, and a Shift or level three that another client has
\* locked is not undone by the release of a key that is held.
TypedRight ==
  \A i \in DOMAIN typed : LET t == typed[i] IN
    t.seen # NoSymbol /\ t.locked \cap {"Shift", "Level3"} = {} =>
      t.seen = t.sym \/ t.seen \in Range(Alternatives[t.sym]) \/ t.sym = "Tab"

\* Between characters no key is down that the user does not hold and every
\* modifier key the user holds is down: the fake presses and releases are
\* undone and no key pressed for a character stays down.  The exceptions are
\* the keys of a fake Shift left when level three could not be faked.
KeysAsHeld ==
  typing = NoSymbol /\ kbdQueue = <<>> =>
    /\ pressedKeys = NoPresses
    /\ DOMAIN kbd.down \subseteq held \cup leftover
    /\ {k \in held : ModsOf(Keymap, k, FirstState) # {}}
         \subseteq DOMAIN kbd.down \cup leftover

\* The keycodes of the last characters still carry the symbols they had then, as
\* many of them as there are spare keycodes: a client that is behind by fewer
\* characters decodes them right.  Characters that could not be pressed count,
\* as they may have been added.  Not so once another client has changed the
\* keymap, because addedKeysyms may then list a keycode twice.
RecentKept ==
  ~remapped =>
    \A i \in DOMAIN typed :
      typed[i].seen # NoSymbol => xkb[typed[i].key].groups = typed[i].carries

\* And a spare keycode that carries an added symbol is in addedKeysyms, so that
\* it can be used again: characters do not run out of keycodes.
NoSpareLost ==
  \A k \in Spare :
    xkb[k].groups # <<>> /\ xkb[k].name = "T" /\ xkb[k].groups # OtherKey.groups =>
      \E i \in DOMAIN addedKeysyms :
        addedKeysyms[i].keycode = k /\ Unmodified(xkb, addedKeysyms[i])

\* Spare keycodes are kept as long as others can be used, and not longer.
SparesKept == RecentKept /\ NoSpareLost
=============================================================================
