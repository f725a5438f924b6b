------------------------------- MODULE MCParts -------------------------------
\* Shmem, Keysym, PixmapAccess and Pointer, which share no state: a behaviour
\* runs one of them while the others stay in their first state.  Pointer's
\* buttons and touches, which share the connection only, run one at a time.
EXTENDS Shmem, Keysym, PixmapAccess, Pointer

VARIABLE part   \* the one that runs

vars == <<part, shmVars, kbdVars, pixVars, pointerVars>>

----------------------------------------------------------------------------
\* A keymap: five key types, letters in two groups, two level-three keys, a
\* keypad key, Num Lock, a locking key that makes Shift useless for Caps_Lock,
\* and two keycodes without symbols.
Syms == {"Shift_L", "Caps_Lock", "a", "A", "f", "F", "e", "E", "euro", "cent", "ISO_Level3_Shift",
         "KP_End", "KP_1", "Num_Lock", "1", "x", "X", "y", "z", "o", "O"}

Row(mods, level) == [mods |-> mods, level |-> level, preserve |-> {}]
Type(mask, rows) == [mask |-> mask, map |-> rows]
MCTypes ==
  [t \in {"ONE", "TWO", "ALPHABETIC", "KEYPAD", "FOUR"} |->
     CASE t = "ONE" -> Type({}, {})
       [] t = "TWO" -> Type({"Shift"}, {Row({"Shift"}, 2)})
       [] t = "ALPHABETIC" -> Type({"Shift", "Lock"}, {Row({"Shift"}, 2), Row({"Lock"}, 2)})
       [] t = "KEYPAD" -> Type({"Shift", "NumLock"}, {Row({"Shift"}, 2), Row({"NumLock"}, 2)})
       [] t = "FOUR" -> Type({"Shift", "Level3"},
                             {Row({"Shift"}, 2), Row({"Level3"}, 3), Row({"Shift", "Level3"}, 4)})]

Act(type, mod) == [type |-> type, mods |-> {mod}, useModMap |-> FALSE]
Group(type, syms, acts) == [type |-> type, syms |-> syms, acts |-> acts]
Key(groups) ==
  [groups |-> groups, over |-> "wrap", redirect |-> 1, modmap |-> {}, name |-> "other"]

Level3Key == Key(<<Group("ONE", <<"ISO_Level3_Shift">>, <<Act("SetMods", "Level3")>>)>>)
ShiftAct  == [Act("SetMods", "Lock") EXCEPT !.useModMap = TRUE]

MCKeymap ==
  << [Key(<<Group("ONE", <<"Shift_L">>, <<ShiftAct>>)>>) EXCEPT !.modmap = {"Shift"}],
     [Key(<<Group("ALPHABETIC", <<"a", "A">>, <<>>), Group("ALPHABETIC", <<"f", "F">>, <<>>)>>)
        EXCEPT !.over = "clamp"],
     Key(<<Group("FOUR", <<"e", "E", "euro", "cent">>, <<>>)>>),
     Level3Key, Level3Key,
     Key(<<Group("KEYPAD", <<"KP_End", "KP_1">>, <<>>)>>),
     Key(<<Group("ONE", <<"Num_Lock">>, <<Act("LockMods", "NumLock")>>)>>),
     [Key(<<>>) EXCEPT !.over = "redirect"],
     Key(<<>>) >>

MCOtherKey == Key(<<Group("TWO", <<"o", "O">>, <<>>)>>)

MCLower == [s \in Syms |-> CASE s = "A" -> "a" [] s = "F" -> "f" [] s = "E" -> "e"
                             [] s = "X" -> "x" [] OTHER -> s]
MCUpper == [s \in Syms |-> CASE s = "a" -> "A" [] s = "f" -> "F" [] s = "e" -> "E"
                             [] s = "x" -> "X" [] OTHER -> s]
MCAlternatives == [s \in Syms |-> CASE s = "1" -> <<"KP_1">> [] s = "KP_1" -> <<"1">>
                                    [] OTHER -> <<>>]

\* The modifier keys of this keymap are plain.
ASSUME MCPlainModifiers == PlainModifiers /\ SingleModifiers

----------------------------------------------------------------------------
Parts == {"shm", "waits", "kbd", "pix", "buttons", "touches"}

\* Three calls of processes that come and go: the third one takes the socket
\* number of the first, and the second one has negative ids.
ShmCalls ==
  /\ ShmNext
  /\ calls' <= 3
  /\ \A p \in Procs : sock'[p] # sock[p] => sock'[p] \in {NoSock, IF life[p] = 2 THEN 5 ELSE 2}

\* Four calls of processes that stay and keep what they have: enough for them
\* to wait for one another.  The file system fails no call here.
ShmWaits ==
  /\ ShmNext
  /\ \A p \in Procs :
       /\ life'[p] >= life[p] /\ Len(table'[p]) >= Len(table[p])
       /\ sock'[p] # 5 /\ ~Refused(p)

Init ==
  /\ part \in Parts
  /\ ShmInit /\ KbdInit /\ PixInit /\ PointerInit
  /\ part # "pix" => legacyDrawing /\ rootPixmap = CHOOSE p \in Pixmaps : TRUE
  /\ part # "buttons" => ~stylusIsMouse

Next ==
  \/ part = "shm" /\ ShmCalls /\ UNCHANGED <<part, kbdVars, pixVars, pointerVars>>
  \/ part = "waits" /\ ShmWaits /\ UNCHANGED <<part, kbdVars, pixVars, pointerVars>>
  \/ part = "kbd" /\ KbdNext /\ UNCHANGED <<part, shmVars, pixVars, pointerVars>>
  \/ part = "pix" /\ PixNext /\ UNCHANGED <<part, shmVars, kbdVars, pointerVars>>
  \/ part = "buttons" /\ (ConnectionNext \/ ButtonsNext) /\ UNCHANGED <<part, shmVars, kbdVars, pixVars>>
  \/ part = "touches" /\ (ConnectionNext \/ TouchNext) /\ UNCHANGED <<part, shmVars, kbdVars, pixVars>>

Spec == Init /\ [][Next]_vars /\ ShmFairness

\* The type invariants of the four modules.
TypeOK == ShmTypeOK /\ KeysymTypeOK /\ PixTypeOK /\ PointerTypeOK
==============================================================================
